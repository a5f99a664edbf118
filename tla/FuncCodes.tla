------------------------------ MODULE FuncCodes ------------------------------
(***************************************************************************)
(* The function codes both ends put in the second word of a message        *)
(* (func_codes.h), as far as the control flow tells them apart: the four   *)
(* callback codes, the codes the four callback setters of the client send, *)
(* and what processMessages of the server does with a code.  A code is     *)
(* named by its enumerator without the E_TRANS2QUIK_ prefix.               *)
(***************************************************************************)

ConnStatus == "CONNECTION_STATUS_CALLBACK"
TransReply == "TRANSACTION_REPLY_CALLBACK"
OrderStatus == "ORDER_STATUS_CALLBACK"
TradeStatus == "TRADE_STATUS_CALLBACK"

\* The cases of CallbackIfNeeded: the codes a message pushed by the server bears.
CallbackCodes == {ConnStatus, TransReply, OrderStatus, TradeStatus}

SetConnStatus == "SET_CONNECTION_STATUS_CALLBACK"
UnsubscribeTrades == "UNSUBSCRIBE_TRADES"

\* The code the client's setter of callback k sends and then waits for.  Only
\* the connection status setter uses the code of a registering server case.
SetterCode(k) ==
    CASE k = ConnStatus  -> SetConnStatus
      [] k = TransReply  -> TransReply
      [] k = OrderStatus -> OrderStatus
      [] k = TradeStatus -> UnsubscribeTrades

\* The code of the server's reply to a request of code c: TRADE_KIND and
\* TRADE_SETTLE_CURRENCY are answered under the code of another function.
ReplyCode(c) ==
    CASE c = "TRADE_KIND"            -> "TRADE_ACCRUED_INT2"
      [] c = "TRADE_SETTLE_CURRENCY" -> "TRADE_CURRENCY"
      [] OTHER                       -> c

\* The codes processMessages has no case for: it answers nothing to them.
Unanswered == CallbackCodes

\* The functions of a long, of a quantity: they wait in Int_in_R_out for the
\* eight bytes of a Descriptor or Quantity, and the server sends four.
OrderLongs == {"ORDER_DATE", "ORDER_TIME", "ORDER_ACTIVATION_TIME",
               "ORDER_WITHDRAW_TIME", "ORDER_EXPIRY", "ORDER_UID",
               "ORDER_PERIOD", "ORDER_VALUE_ENTRY_TYPE",
               "ORDER_EXTENDED_FLAGS", "ORDER_EXEC_TYPE"}
OrderQuantities == {"ORDER_QTY", "ORDER_VISIBLE_QTY", "ORDER_MIN_QTY"}
TradeLongs == {"TRADE_DATE", "TRADE_SETTLE_DATE", "TRADE_TIME",
               "TRADE_IS_MARGINAL", "TRADE_REPO_TERM",
               "TRADE_BLOCK_SECURITIES", "TRADE_PERIOD", "TRADE_KIND",
               "TRADE_TRANSID"}

Overread == OrderLongs \cup OrderQuantities \cup TradeLongs

\* enum func_codes: consecutive integers in this order.
Enumerators ==
    << "SEND_SYNC_TRANSACTION", "SEND_ASYNC_TRANSACTION", "CONNECT",
       "DISCONNECT", "SET_CONNECTION_STATUS_CALLBACK",
       "CONNECTION_STATUS_CALLBACK", "SET_TRANSACTIONS_REPLY_CALLBACK",
       "TRANSACTION_REPLY_CALLBACK", "IS_QUIK_CONNECTED", "IS_DLL_CONNECTED",
       "SUBSCRIBE_ORDERS", "UNSUBSCRIBE_ORDERS", "START_ORDERS",
       "ORDER_STATUS_CALLBACK", "ORDER_QTY", "ORDER_DATE", "ORDER_TIME",
       "ORDER_ACTIVATION_TIME", "ORDER_WITHDRAW_TIME", "ORDER_EXPIRY",
       "ORDER_ACCRUED_INT", "ORDER_YIELD", "ORDER_UID", "ORDER_VISIBLE_QTY",
       "ORDER_PERIOD", "ORDER_FILETIME", "ORDER_DATE_TIME",
       "ORDER_WITHDRAW_FILETIME", "ORDER_VALUE_ENTRY_TYPE",
       "ORDER_EXTENDED_FLAGS", "ORDER_MIN_QTY", "ORDER_EXEC_TYPE",
       "ORDER_AWG_PRICE", "ORDER_USERID", "ORDER_ACCOUNT", "ORDER_BROKERREF",
       "ORDER_CLIENT_CODE", "ORDER_FIRMID", "ORDER_REJECT_REASON",
       "SUBSCRIBE_TRADES", "TRADE_STATUS_CALLBACK", "UNSUBSCRIBE_TRADES",
       "START_TRADES", "TRADE_DATE", "TRADE_SETTLE_DATE", "TRADE_TIME",
       "TRADE_IS_MARGINAL", "TRADE_ACCRUED_INT", "TRADE_YIELD",
       "TRADE_TS_COMMISSION", "TRADE_CLEARING_CENTER_COMMISSION",
       "TRADE_EXCHANGE_COMMISSION", "TRADE_TRADING_SYSTEM_COMMISSION",
       "TRADE_PRICE2", "TRADE_REPO_RATE", "TRADE_REPO_VALUE",
       "TRADE_REPO2_VALUE", "TRADE_ACCRUED_INT2", "TRADE_REPO_TERM",
       "TRADE_START_DISCOUNT", "TRADE_LOWER_DISCOUNT",
       "TRADE_UPPER_DISCOUNT", "TRADE_BLOCK_SECURITIES", "TRADE_PERIOD",
       "TRADE_KIND", "TRADE_FILETIME", "TRADE_DATE_TIME",
       "TRADE_BROKER_COMMISSION", "TRADE_TRANSID", "TRADE_CURRENCY",
       "TRADE_SETTLE_CURRENCY", "TRADE_SETTLE_CODE", "TRADE_ACCOUNT",
       "TRADE_BROKERREF", "TRADE_CLIENT_CODE", "TRADE_USERID",
       "TRADE_FIRMID", "TRADE_PARTNER_FIRMID", "TRADE_EXCHANGE_CODE",
       "TRADE_STATION_ID", "TRANSACTION_REPLY_CLASS_CODE",
       "TRANSACTION_REPLY_SEC_CODE", "TRANSACTION_REPLY_PRICE",
       "TRANSACTION_REPLY_QUANTITY", "TRANSACTION_REPLY_BALANCE",
       "TRANSACTION_REPLY_FIRMID", "TRANSACTION_REPLY_ACCOUNT",
       "TRANSACTION_REPLY_CLIENT_CODE", "TRANSACTION_REPLY_BROKERREF",
       "TRANSACTION_REPLY_EXCHANGE_CODE" >>

=============================================================================
