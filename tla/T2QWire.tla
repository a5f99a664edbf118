------------------------------- MODULE T2QWire -------------------------------
(***************************************************************************)
(* The data the wrapper carries: what a call of TRANS2QUIK_CLIENT puts on  *)
(* the wire, what processMessages takes for its arguments, and what the    *)
(* client takes for the result, word by word, with connection status       *)
(* messages between the replies.                                           *)
(*                                                                         *)
(* The application calls from its main loop, so one call is open at a      *)
(* time; how the readers wait is the subject of T2QClient, and here a      *)
(* reader takes a message in one step, once the bytes it counts are there. *)
(***************************************************************************)
EXTENDS T2QFormats

CONSTANTS
    Functions,      \* the functions the application calls
    Longs, Numbers, Texts, Flags,   \* values of its arguments
    Results, Doubles, Buffers,      \* values the DLL returns
    Events,         \* what it reports to the connection status callback
    MaxEvents       \* bound: reports not yet shown

Word == 0 .. Base - 1

\* A text shorter than the bytes a size counts.
IsText(v) == v \in Seq(Word) /\ 4 * Len(v) < Base - 1

ASSUME WireAssumption ==
    /\ Functions \subseteq ApiFunctions
    /\ Longs \cup Numbers \cup Results \subseteq Int
    /\ \A d \in Doubles : d \in Nat /\ Base \div 4 + d < Base
    /\ \A v \in (Texts \ {Null}) \cup Buffers : IsText(v)
    /\ Flags \subseteq {0, 1}
    /\ \A e \in Events : e \in Results \X Results \X ({Null} \cup Buffers)
    /\ MaxEvents \in Nat

VARIABLES
    call, busy,     \* the latest call and whether it has not returned
    executed,       \* <<call, outs>>: what the DLL was asked and gave
    returned,       \* <<outs>>: what the call returned
    events, shown,  \* reports of the DLL not yet shown, and the last shown
    up,             \* words sent to the server
    down,           \* words sent to the client
    heads,          \* which words of down are sizes of messages
    handler,        \* _pfConnectionStatusCallback is not null
    registered,     \* the DLL has the server's connection status callback
    fault           \* a Q_ASSERT of the client failed

rpcVars == <<call, busy, executed, returned, events, shown>>
downVars == <<down, heads>>
wireVars == <<call, busy, executed, returned, events, shown,
              up, down, heads, handler, registered, fault>>

-----------------------------------------------------------------------------
\* The values of a declared type: an argument's, or a result's.
ArgValues(type) ==
    CASE type = "long"   -> Longs
      [] type = "size"   -> {8}
      [] type = "number" -> Numbers
      [] type = "text"   -> Texts
      [] type = "flag"   -> Flags

OutValues(type) ==
    CASE type \in {"long", "size"} -> Results
      [] type = "number" -> Numbers
      [] type = "entity" -> {n \in Numbers : n >= 0}
      [] type = "double" -> Doubles
      [] type = "text"   -> {Null} \cup (Buffers \ {<<>>})
      [] type = "buffer" -> Buffers

\* One value of each set of a sequence.
Tuples(sets) ==
    LET tuples[i \in 0 .. Len(sets)] ==
            IF i = 0 THEN {<<>>}
            ELSE {Append(p[1], p[2]) : p \in tuples[i - 1] \X sets[i]}
    IN  tuples[Len(sets)]

ArgLists(f) ==
    LET types == Signature(f).args
    IN  Tuples([i \in DOMAIN types |-> ArgValues(types[i])])

Calls == UNION {{[f |-> f, args |-> args] : args \in ArgLists(f)} :
                    f \in Functions}

Outs(c) ==
    LET types == Signature(c.f).outs
    IN  Tuples([i \in DOMAIN types |-> OutValues(types[i])])

\* The messages of a call, of its reply, and of a report.
Request(c) == Message(CallCode(c.f), CallFormat(c.f).request, c.args)
Reply(f, outs) == Message(ReplyCode(f), ServeFormat(f).writes, outs)
Report(e) == Message(ConnStatus, StatusWrite, e)

\* No message is longer than its size word counts.
ASSUME SizesAssumption ==
    /\ \A c \in Calls : Head(Request(c)) < Base
    /\ \A f \in Cases :
         \A outs \in Outs([f |-> DllFunction(f)]) : Head(Reply(f, outs)) < Base
    /\ \A e \in Events : Head(Report(e)) < Base

-----------------------------------------------------------------------------
\* An API function up to WaitReadMessage.
Call ==
    /\ ~fault /\ ~busy
    /\ \E c \in Calls :
         /\ call' = c
         /\ up' = up \o Request(c)
         /\ handler' = IF c.f = SetConnStatus THEN c.args[1] # 0 ELSE handler
    /\ busy' = TRUE
    /\ executed' = <<>> /\ returned' = <<>>
    /\ UNCHANGED <<events, shown, registered, fault>>
    /\ UNCHANGED downVars

-----------------------------------------------------------------------------
(***************************************************************************)
(* The server.                                                             *)
(***************************************************************************)
Send(words) ==
    /\ down' = down \o words
    /\ heads' = heads \o [i \in DOMAIN words |-> i = 1]

\* The size and as many bytes as it counts have come.
Waited == up # <<>> /\ Head(up) <= 4 * (Len(up) - 1)

Served(f) == ReadField("u32", Tail(up)).value = CodeWord[f]

\* One turn of the loop of processMessages.
Serve ==
    /\ Waited
    /\ \E f \in Cases :
         /\ Served(f)
         /\ LET taken == ReadFields(ServeFormat(f).reads, From(up, 3))
                asked == [f |-> DllFunction(f), args |-> taken.values]
            IN  \E outs \in Outs(asked) :
                  /\ executed' = <<asked, outs>>
                  /\ Send(Reply(f, outs))
                  /\ up' = taken.left
                  /\ registered' = IF f = SetConnStatus
                                   THEN taken.values[1] # 0 ELSE registered
    /\ UNCHANGED <<call, busy, returned, events, shown,
                   handler, fault>>

\* The same, with no case for the code: the payload stays.
ServeNothing ==
    /\ Waited
    /\ \A f \in Cases : ~Served(f)
    /\ up' = From(up, 3)
    /\ UNCHANGED rpcVars /\ UNCHANGED downVars
    /\ UNCHANGED <<handler, registered, fault>>

\* The DLL calls _TRANS2QUIK_CONNECTION_STATUS_CALLBACK.
Push ==
    /\ registered /\ Len(events) < MaxEvents
    /\ \E e \in Events :
         /\ events' = Append(events, e)
         /\ Send(Report(e))
    /\ UNCHANGED <<call, busy, executed, returned, shown, up,
                   handler, registered, fault>>

-----------------------------------------------------------------------------
(***************************************************************************)
(* The client's readers.  Of down the first n words have arrived; a read   *)
(* past the end of a message takes those of the next.                      *)
(***************************************************************************)
Arrived(n) == n \in 1 .. Len(down) /\ Head(down) <= 4 * (n - 1)

\* The code and the payload, of the words that have arrived.
Code(n) == ReadField("u32", SubSeq(down, 2, n)).value
Payload(n) == SubSeq(down, 3, n)

\* The reader leaves these words of those arrived.
Leave(words, n) ==
    LET gone == n - Len(words)
    IN  down' = From(down, gone + 1) /\ heads' = From(heads, gone + 1)

IsCallback(n) == \E k \in CallbackCodes : Code(n) = CodeWord[k]

\* CallbackIfNeeded, the handler set.
ReadEvent ==
    /\ ~fault
    /\ \E n \in 1 .. Len(down) :
         /\ Arrived(n) /\ handler /\ Code(n) = CodeWord[ConnStatus]
         /\ LET taken == ReadFields(StatusRead, Payload(n))
            IN  shown' = <<taken.values>> /\ Leave(taken.left, n)
    /\ events' = IF events = <<>> THEN events ELSE Tail(events)
    /\ UNCHANGED <<call, busy, executed, returned, up,
                   handler, registered, fault>>

\* The same, the handler null: the payload stays.
SkipEvent ==
    /\ ~fault
    /\ \E n \in 1 .. Len(down) :
         /\ Arrived(n) /\ IsCallback(n)
         /\ ~(handler /\ Code(n) = CodeWord[ConnStatus])
         /\ Leave(Payload(n), n)
    /\ UNCHANGED rpcVars
    /\ UNCHANGED <<up, handler, registered, fault>>

\* The reply: the API function reads the result.
ReadReply ==
    /\ ~fault /\ busy
    /\ \E n \in 1 .. Len(down) :
         /\ Arrived(n) /\ Code(n) = CodeWord[CallCode(call.f)]
         /\ LET format == CallFormat(call.f).reply
                taken == ReadFields(format, Payload(n))
            IN  /\ returned' = <<taken.values>>
                /\ Leave(taken.left, n)
    /\ busy' = FALSE
    /\ UNCHANGED <<call, executed, events, shown, up, handler, registered,
                   fault>>

\* Anything else: the Q_ASSERT of either reader fails.
ReadOther ==
    /\ ~fault
    /\ \E n \in 1 .. Len(down) :
         /\ Arrived(n) /\ ~IsCallback(n)
         /\ ~(busy /\ Code(n) = CodeWord[CallCode(call.f)])
    /\ fault' = TRUE
    /\ UNCHANGED rpcVars /\ UNCHANGED downVars
    /\ UNCHANGED <<up, handler, registered>>

-----------------------------------------------------------------------------
Init ==
    /\ call = [f |-> "none", args |-> <<>>]
    /\ busy = FALSE
    /\ executed = <<>> /\ returned = <<>>
    /\ events = <<>> /\ shown = <<>>
    /\ up = <<>> /\ down = <<>> /\ heads = <<>>
    /\ handler = FALSE /\ registered = FALSE
    /\ fault = FALSE

Next == \/ Call \/ Serve \/ ServeNothing \/ Push
        \/ ReadEvent \/ SkipEvent \/ ReadReply \/ ReadOther

Spec == Init /\ [][Next]_wireVars

-----------------------------------------------------------------------------
TypeOK ==
    /\ call.f \in Functions \cup {"none"}
    /\ busy \in BOOLEAN /\ fault \in BOOLEAN
    /\ handler \in BOOLEAN /\ registered \in BOOLEAN
    /\ up \in Seq(Word) /\ down \in Seq(Word)
    /\ heads \in Seq(BOOLEAN) /\ Len(heads) = Len(down)
    /\ Len(executed) <= 1 \/ executed[1].f \in Cases

(***************************************************************************)
(* The wire is lossless for these functions, whose two ends agree on every *)
(* field, and these values, which the types of the fields tell apart: a    *)
(* result is not negative, a text is not empty, and no callback is taken   *)
(* away while a report of it may be under way.                             *)
(***************************************************************************)
AgreedFunctions ==
    {"SEND_ASYNC_TRANSACTION", "CONNECT", "DISCONNECT", SetConnStatus,
     "IS_QUIK_CONNECTED", "IS_DLL_CONNECTED", "SUBSCRIBE_ORDERS",
     "UNSUBSCRIBE_ORDERS", "SUBSCRIBE_TRADES", UnsubscribeTrades} \cup DateTimes

AgreedValues ==
    /\ Longs \subseteq -(Base \div 2) .. (Base \div 2) - 1
    /\ Numbers \subseteq -(Base * (Base \div 2)) .. Base * (Base \div 2) - 1
    /\ <<>> \notin Texts
    /\ Results \subseteq Word
    /\ \A e \in Events : e[3] # <<>>
    /\ 0 \notin Flags

\* Of what the server sends, only the second word of a message can be taken
\* for a code a function waits for; and no size in a request, and no argument
\* of a setter, can be taken for a code.
CodesApart ==
    LET Plain(message) == \A i \in DOMAIN message \ {2} :
                            \A f \in Functions : message[i] # CodeWord[CallCode(f)]
    IN  /\ \A f \in Cases :
             \A outs \in Outs([f |-> DllFunction(f)]) : Plain(Reply(f, outs))
        /\ \A e \in Events : Plain(Report(e))
        /\ \A c \in Calls : Head(Request(c)) < FirstCode
        /\ 8 < FirstCode

\* The arguments the application passes are those the DLL is called with.
ArgsReachDll == executed # <<>> => executed[1] = call

\* Between two messages the client stands at the size of the next.
FramesKept == down # <<>> => heads[1]

\* Whatever a call sends, the server executes it under the code the call sent,
\* or never: no word that is left of an earlier request is executed in its
\* place.  Nothing is left of a call that has returned, but the flag START_TRADES
\* sends with a code whose case reads none.
ServerInStep ==
    LET Left == IF call.f = "START_TRADES" THEN {<<>>, call.args} ELSE {<<>>}
    IN  /\ executed # <<>> => executed[1].f = DllFunction(CallCode(call.f))
        /\ executed # <<>> \/ ~busy => up \in Left

\* The wrapper keeps the promise of T2QRpc.
Rpc == INSTANCE T2QRpc

Implements == Rpc!Spec

=============================================================================
