----------------------------- MODULE T2QFormats -----------------------------
(***************************************************************************)
(* What the two ends put into a message and what they take out of it: the  *)
(* fields each API function of TRANS2QUIK_CLIENT sends and then reads, and *)
(* the fields each case of processMessages reads and then sends.  The two  *)
(* tables are written from the two files separately; nothing in the code   *)
(* or here makes them agree.                                               *)
(*                                                                         *)
(* A stream is a sequence of 32-bit words, each a number below Base, which *)
(* stands for 2^32.  A string's content is a sequence of whole words.      *)
(***************************************************************************)
EXTENDS Integers, Sequences, SequencesExt, FuncCodes

CONSTANTS
    Base,       \* how many values a word has
    FirstCode   \* the word of the first function code

ASSUME FormatsAssumption ==
    /\ Base \in Nat /\ Base % 4 = 0
    /\ FirstCode \in Nat /\ FirstCode + Len(Enumerators) < Base - 1

-----------------------------------------------------------------------------
(***************************************************************************)
(* QDataStream.  A field is written as a type:                             *)
(*   u32     quint32, qint32, and a long or a DWORD converted to them      *)
(*   i64     Descriptor, Quantity                                          *)
(*   f64     double                                                        *)
(*   qstr    QString, null or not                                          *)
(*   lptstr  SendLPTSTR: a null pointer is sent as the empty string        *)
(* and read as u32, i64, i32 (qint32), u64 (EntityNumber), and             *)
(*   lpstr   ReadAndCreate_LPSTR_from_QString: empty becomes NULL          *)
(*   buffer  ReadQString2LPSTR: copied to the caller's buffer              *)
(***************************************************************************)
Null == <<-1>>

\* The bits of a double, far from those of the integer of the same value.
Bits(d) == IF d = 0 THEN <<0, 0>> ELSE <<Base \div 4 + d, 0>>

\* Defect: a long is put into a word as it is.
FieldUnwrapped(type, v) ==
    CASE type = "u32" -> <<v>>
      [] type = "i64" -> <<(v \div Base) % Base, v % Base>>
      [] type = "f64" -> Bits(v)
      [] type \in {"qstr", "lptstr"} ->
            IF v = Null THEN IF type = "qstr" THEN <<Base - 1>> ELSE <<0>>
            ELSE <<4 * Len(v)>> \o v

Field(type, v) ==
    CASE type = "u32" -> <<v % Base>>
      [] type = "i64" -> <<(v \div Base) % Base, v % Base>>
      [] type = "f64" -> Bits(v)
      [] type \in {"qstr", "lptstr"} ->
            IF v = Null THEN IF type = "qstr" THEN <<Base - 1>> ELSE <<0>>
            ELSE <<4 * Len(v)>> \o v

\* Parameters in order: the first, then the others.
Fields(types, values) ==
    LET words[i \in 1 .. Len(types) + 1] ==
            IF i > Len(types) THEN <<>>
            ELSE Field(types[i], values[i]) \o words[i + 1]
    IN  words[1]

CodeWord == [code \in ToSet(Enumerators) |->
    FirstCode + (CHOOSE i \in DOMAIN Enumerators : Enumerators[i] = code)]

\* PrepareMessage: the size counts the bytes behind the size word.
Message(code, types, values) ==
    LET body == <<CodeWord[code]>> \o Fields(types, values)
    IN  <<4 * Len(body)>> \o body

Signed(n) == IF n < Base * (Base \div 2) THEN n ELSE n - Base * Base

From(words, n) == SubSeq(words, n, Len(words))

\* QString: an odd number of bytes is corrupt data, and a string longer than
\* what there is takes all of it and comes out empty.
ReadString(words) ==
    LET n == Head(words)
        there == Tail(words)
    IN  CASE n = Base - 1         -> [value |-> Null, left |-> there]
          [] n # Base - 1 /\ n % 2 = 1 -> [value |-> <<>>, left |-> there]
          [] n % 2 = 0 /\ n > 4 * Len(there) -> [value |-> <<>>, left |-> <<>>]
          [] n % 2 = 0 /\ n <= 4 * Len(there) ->
                [value |-> SubSeq(there, 1, n \div 4),
                 left  |-> From(there, n \div 4 + 1)]

\* _in >> x: a read past the end takes what there is and gives zero.
ReadField(type, words) ==
    CASE type = "u32" ->
            IF words = <<>> THEN [value |-> 0, left |-> <<>>]
            ELSE [value |-> Head(words), left |-> Tail(words)]
      [] type = "i32" ->
            IF words = <<>> THEN [value |-> 0, left |-> <<>>]
            ELSE [value |-> IF Head(words) < Base \div 2 THEN Head(words)
                            ELSE Head(words) - Base,
                  left  |-> Tail(words)]
      [] type \in {"i64", "u64"} ->
            IF Len(words) < 2 THEN [value |-> 0, left |-> <<>>]
            ELSE LET n == words[1] * Base + words[2]
                 IN  [value |-> IF type = "i64" THEN Signed(n) ELSE n,
                      left  |-> From(words, 3)]
      [] type \in {"lpstr", "buffer"} ->
            LET s == IF words = <<>> THEN [value |-> <<>>, left |-> <<>>]
                     ELSE ReadString(words)
            IN  IF s.value \in {Null, <<>>}
                THEN [s EXCEPT !.value = IF type = "lpstr" THEN Null ELSE <<>>]
                ELSE s

ReadFields(types, words) ==
    LET read[i \in 0 .. Len(types)] ==
            IF i = 0 THEN [values |-> <<>>, left |-> words]
            ELSE LET before == read[i - 1]
                     r == ReadField(types[i], before.left)
                 IN  [values |-> Append(before.values, r.value), left |-> r.left]
    IN  read[Len(types)]

-----------------------------------------------------------------------------
(***************************************************************************)
(* The functions, by the signature the comments of processMessages give    *)
(* them.  All but those of Control and the setters take a descriptor.      *)
(***************************************************************************)
Control == {"SEND_SYNC_TRANSACTION", "SEND_ASYNC_TRANSACTION", "CONNECT",
            "DISCONNECT", SetConnStatus, "IS_QUIK_CONNECTED",
            "IS_DLL_CONNECTED", "SUBSCRIBE_ORDERS", "UNSUBSCRIBE_ORDERS",
            "SUBSCRIBE_TRADES", UnsubscribeTrades}

\* The setters that send a code of another purpose.
StraySetters == {"SET_TRANSACTIONS_REPLY_CALLBACK", "START_ORDERS", "START_TRADES"}

\* The code a function sends and waits for.
CallCode(f) ==
    CASE f = "SET_TRANSACTIONS_REPLY_CALLBACK" -> TransReply
      [] f = "START_ORDERS" -> OrderStatus
      [] f = "START_TRADES" -> UnsubscribeTrades
      [] f \notin StraySetters -> f

OrderDoubles == {"ORDER_ACCRUED_INT", "ORDER_YIELD", "ORDER_AWG_PRICE"}
OrderTexts == {"ORDER_USERID", "ORDER_ACCOUNT", "ORDER_BROKERREF",
               "ORDER_CLIENT_CODE", "ORDER_FIRMID", "ORDER_REJECT_REASON"}

TradeDoubles == {"TRADE_ACCRUED_INT", "TRADE_YIELD", "TRADE_TS_COMMISSION",
                 "TRADE_CLEARING_CENTER_COMMISSION",
                 "TRADE_EXCHANGE_COMMISSION",
                 "TRADE_TRADING_SYSTEM_COMMISSION", "TRADE_PRICE2",
                 "TRADE_REPO_RATE", "TRADE_REPO_VALUE", "TRADE_REPO2_VALUE",
                 "TRADE_ACCRUED_INT2", "TRADE_START_DISCOUNT",
                 "TRADE_LOWER_DISCOUNT", "TRADE_UPPER_DISCOUNT",
                 "TRADE_BROKER_COMMISSION"}
TradeTexts == {"TRADE_CURRENCY", "TRADE_SETTLE_CURRENCY",
               "TRADE_SETTLE_CODE", "TRADE_ACCOUNT", "TRADE_BROKERREF",
               "TRADE_CLIENT_CODE", "TRADE_USERID", "TRADE_FIRMID",
               "TRADE_PARTNER_FIRMID", "TRADE_EXCHANGE_CODE",
               "TRADE_STATION_ID"}

ReplyQuantities == {"TRANSACTION_REPLY_QUANTITY", "TRANSACTION_REPLY_BALANCE"}
ReplyTexts == {"TRANSACTION_REPLY_CLASS_CODE", "TRANSACTION_REPLY_SEC_CODE",
               "TRANSACTION_REPLY_FIRMID", "TRANSACTION_REPLY_ACCOUNT",
               "TRANSACTION_REPLY_CLIENT_CODE", "TRANSACTION_REPLY_BROKERREF",
               "TRANSACTION_REPLY_EXCHANGE_CODE"}

FileTimes == {"ORDER_FILETIME", "ORDER_WITHDRAW_FILETIME", "TRADE_FILETIME"}
DateTimes == {"ORDER_DATE_TIME", "TRADE_DATE_TIME"}

\* The types of a function's arguments and of what it returns, in its
\* declaration: a size is a DWORD, a flag stands for a callback pointer.
ErrorReport == <<"long", "long", "buffer">>

Signature(f) ==
    CASE f = "SEND_SYNC_TRANSACTION" ->
            [args |-> <<"text", "size", "size">>,
             outs |-> <<"long", "long", "size", "entity", "buffer">>
                      \o <<"long", "buffer">>]
      [] f \in {"SEND_ASYNC_TRANSACTION", "CONNECT"} ->
            [args |-> <<"text", "size">>, outs |-> ErrorReport]
      [] f \in {SetConnStatus, "SET_TRANSACTIONS_REPLY_CALLBACK"} ->
            [args |-> <<"flag", "size">>, outs |-> ErrorReport]
      [] f \in {"START_ORDERS", "START_TRADES"} ->
            [args |-> <<"flag">>, outs |-> <<"long">>]
      [] f \in {"DISCONNECT", "IS_QUIK_CONNECTED", "IS_DLL_CONNECTED"} ->
            [args |-> <<"size">>, outs |-> ErrorReport]
      [] f \in {"SUBSCRIBE_ORDERS", "SUBSCRIBE_TRADES"} ->
            [args |-> <<"text", "text">>, outs |-> <<"long">>]
      [] f \in {"UNSUBSCRIBE_ORDERS", UnsubscribeTrades} ->
            [args |-> <<>>, outs |-> <<"long">>]
      [] f \in DateTimes ->
            [args |-> <<"number", "long">>, outs |-> <<"long">>]
      [] f \in FileTimes ->
            [args |-> <<"number">>, outs |-> <<"size", "size">>]
      [] f \in OrderLongs \cup TradeLongs ->
            [args |-> <<"number">>, outs |-> <<"long">>]
      [] f \in OrderQuantities \cup ReplyQuantities ->
            [args |-> <<"number">>, outs |-> <<"number">>]
      [] f \in OrderDoubles \cup TradeDoubles \cup {"TRANSACTION_REPLY_PRICE"} ->
            [args |-> <<"number">>, outs |-> <<"double">>]
      [] f \in OrderTexts \cup TradeTexts \cup ReplyTexts ->
            [args |-> <<"number">>, outs |-> <<"text">>]

-----------------------------------------------------------------------------
(***************************************************************************)
(* The client.                                                             *)
(***************************************************************************)
IntInExtErrOut == [request |-> <<"u32", "u32">>, reply |-> <<"u32", "u32", "buffer">>]
IntInROut == [request |-> <<"u32">>, reply |-> <<"i64">>]

\* LPSTR_in_ExtErr_out, Int_in_ExtErr_out, ExtErr_out, TwoLPSTR_in_Empty_out,
\* Emty_in_Empty_out and SEND_SYNC_TRANSACTION itself.
ControlCall(f) ==
    CASE f = "SEND_SYNC_TRANSACTION" ->
            [request |-> <<"qstr", "u32", "u32">>,
             reply   |-> <<"u32", "u32", "u32", "u64", "buffer">>
                         \o <<"u32", "buffer">>]
      [] f \in {"SEND_ASYNC_TRANSACTION", "CONNECT"} ->
            [request |-> <<"qstr", "u32">>, reply |-> <<"u32", "u32", "buffer">>]
      [] f = SetConnStatus -> IntInExtErrOut
      [] f \in {"DISCONNECT", "IS_QUIK_CONNECTED", "IS_DLL_CONNECTED"} ->
            [request |-> <<"u32">>, reply |-> <<"u32", "u32", "buffer">>]
      [] f \in {"SUBSCRIBE_ORDERS", "SUBSCRIBE_TRADES"} ->
            [request |-> <<"qstr", "qstr">>, reply |-> <<"u32">>]
      [] f \in {"UNSUBSCRIBE_ORDERS", UnsubscribeTrades} ->
            [request |-> <<>>, reply |-> <<"u32">>]

\* A flag is put into the word the other functions put a descriptor into.
StrayCall(f) == IF f = "SET_TRANSACTIONS_REPLY_CALLBACK" THEN IntInExtErrOut
                ELSE IntInROut

TwoIntInEmptyOut == [request |-> <<"i64", "u32">>, reply |-> <<"u32">>]
IntInFiletimeOut == [request |-> <<"u32">>, reply |-> <<"u32", "u32">>]
IntInLptstrOut == [request |-> <<"u32">>, reply |-> <<"lpstr">>]

\* The functions of an order, of a trade, and of a transaction's reply.
OrderCall(f) ==
    CASE f \in OrderLongs \cup OrderQuantities \cup OrderDoubles -> IntInROut
      [] f \in FileTimes  -> IntInFiletimeOut
      [] f \in DateTimes  -> TwoIntInEmptyOut
      [] f \in OrderTexts -> IntInLptstrOut

TradeCall(f) ==
    CASE f \in TradeLongs \cup TradeDoubles -> IntInROut
      [] f \in FileTimes  -> IntInFiletimeOut
      [] f \in DateTimes  -> TwoIntInEmptyOut

TradeTextCall == IntInLptstrOut

ReplyCall(f) == IF f \in ReplyTexts THEN IntInLptstrOut ELSE IntInROut

Orders == OrderLongs \cup OrderQuantities \cup OrderDoubles \cup OrderTexts
          \cup {"ORDER_FILETIME", "ORDER_WITHDRAW_FILETIME", "ORDER_DATE_TIME"}
Trades == TradeLongs \cup TradeDoubles \cup {"TRADE_FILETIME", "TRADE_DATE_TIME"}
Replies == ReplyQuantities \cup ReplyTexts \cup {"TRANSACTION_REPLY_PRICE"}

\* The functions processMessages has a case for.
Cases == Control \cup Orders \cup Trades \cup TradeTexts \cup Replies

ApiFunctions == Cases \cup StraySetters

CallFormat(f) ==
    CASE f \in StraySetters -> StrayCall(f)
      [] f \in Control    -> ControlCall(f)
      [] f \in Orders     -> OrderCall(f)
      [] f \in Trades     -> TradeCall(f)
      [] f \in TradeTexts -> TradeTextCall
      [] f \in Replies    -> ReplyCall(f)

\* Defect: the text of a connection status message is not read.
StatusReadShort == <<"u32", "u32">>

\* CallbackIfNeeded on a connection status message.
StatusRead == <<"u32", "u32", "lpstr">>

-----------------------------------------------------------------------------
(***************************************************************************)
(* The server.                                                             *)
(***************************************************************************)
\* The first cases of processMessages, with SetCallback, Call_ExtError_ret_long,
\* Call_TwoLPSTR_ret_long and Call_Emty_ret_long.
ControlCase(f) ==
    CASE f = "SEND_SYNC_TRANSACTION" ->
            [reads  |-> <<"lpstr", "u32", "u32">>,
             writes |-> <<"u32", "u32", "u32", "u32", "qstr">>
                        \o <<"u32", "qstr">>]
      [] f \in {"SEND_ASYNC_TRANSACTION", "CONNECT"} ->
            [reads |-> <<"lpstr", "u32">>, writes |-> <<"u32", "u32", "qstr">>]
      [] f = SetConnStatus ->
            [reads |-> <<"u32", "u32">>, writes |-> <<"u32", "u32", "qstr">>]
      [] f \in {"DISCONNECT", "IS_QUIK_CONNECTED", "IS_DLL_CONNECTED"} ->
            [reads |-> <<"u32">>, writes |-> <<"u32", "u32", "qstr">>]
      [] f \in {"SUBSCRIBE_ORDERS", "SUBSCRIBE_TRADES"} ->
            [reads |-> <<"lpstr", "lpstr">>, writes |-> <<"u32">>]
      [] f \in {"UNSUBSCRIBE_ORDERS", UnsubscribeTrades} ->
            [reads |-> <<>>, writes |-> <<"u32">>]

\* Defect: the descriptor is not read.
DescriptorCaseUnread(writes) == [reads |-> <<>>, writes |-> writes]

\* SendRes, SendFILETIME and SendLPTSTR of Read2Val<Descriptor>.
DescriptorCase(writes) == [reads |-> <<"i64">>, writes |-> writes]

\* Defect: the two arguments are read in the other order.
DateTimeCaseSwapped == [reads |-> <<"i32", "i64">>, writes |-> <<"u32">>]

\* The two DATE_TIME cases: a descriptor and a qint32.
DateTimeCase == [reads |-> <<"i64", "i32">>, writes |-> <<"u32">>]

OrderCase(f) ==
    CASE f \in OrderLongs \cup OrderQuantities -> DescriptorCase(<<"u32">>)
      [] f \in OrderDoubles -> DescriptorCase(<<"f64">>)
      [] f \in FileTimes    -> DescriptorCase(<<"u32", "u32">>)
      [] f \in DateTimes    -> DateTimeCase
      [] f \in OrderTexts   -> DescriptorCase(<<"lptstr">>)

TradeCase(f) ==
    CASE f \in TradeLongs   -> DescriptorCase(<<"u32">>)
      [] f \in TradeDoubles -> DescriptorCase(<<"f64">>)
      [] f \in FileTimes    -> DescriptorCase(<<"u32", "u32">>)
      [] f \in DateTimes    -> DateTimeCase

TradeTextCase == DescriptorCase(<<"lptstr">>)

ReplyCase(f) ==
    CASE f \in ReplyQuantities -> DescriptorCase(<<"i64">>)
      [] f \in ReplyTexts      -> DescriptorCase(<<"lptstr">>)
      [] f = "TRANSACTION_REPLY_PRICE" -> DescriptorCase(<<"f64">>)

ServeFormat(f) ==
    CASE f \in Control    -> ControlCase(f)
      [] f \in Orders     -> OrderCase(f)
      [] f \in Trades     -> TradeCase(f)
      [] f \in TradeTexts -> TradeTextCase
      [] f \in Replies    -> ReplyCase(f)

\* The function of the DLL a case calls.
DllFunction(f) == IF f = "TRADE_KIND" THEN "TRADE_ACCRUED_INT2" ELSE f

\* _TRANS2QUIK_CONNECTION_STATUS_CALLBACK.
StatusWrite == <<"u32", "u32", "qstr">>

=============================================================================
