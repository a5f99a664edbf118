------------------------ MODULE T2QClientService_proofs ------------------------
(***************************************************************************)
(* T2QClient beside any server that keeps T2QService, for every value of   *)
(* the constants.  The server of this module is T2QService itself: its     *)
(* Register, Answer, Drop and Report, and nothing of what T2QClient says a *)
(* server does.  Every behaviour of the two is a behaviour of T2QClient,   *)
(* so what is proved there of the client holds beside T2QServer, which     *)
(* T2QServerService_proofs shows to keep T2QService.                       *)
(***************************************************************************)
EXTENDS T2QClientCalls_proofs

\* The only client of a server that has just been started, or of one that still
\* has the registration of an earlier session.
Service == INSTANCE T2QService WITH
    Clients <- {"client"},
    Requests <- Request,
    requests <- [c \in {"client"} |-> requests],
    stream <- [c \in {"client"} |-> pipe],
    registered <- ConnStatus \in dllCallbacks,
    lost <- IF connected THEN {} ELSE {"client"}

\* A step of the server.  Which callbacks are registered is all it has of its
\* own; the client keeps its variables, and the socket what it has received.
ServerStep ==
    /\ \/ Service!Register("client") \/ Service!Answer("client")
       \/ Service!Drop("client")
       \/ Service!Report("client") /\ Len(pipe) < MaxPipe
    /\ dllCallbacks' \subseteq {ConnStatus} /\ connected' \in BOOLEAN
    /\ UNCHANGED <<avail, rest>> /\ UNCHANGED clientVars

\* The client with the network on one side, the server on the other.
ComposedNext == Call \/ Receive \/ Step \/ Lose \/ ServerStep

ComposedSpec == Init /\ [][ComposedNext]_vars

-----------------------------------------------------------------------------
\* T2QService has function codes of its own, and they are the client's.
LEMMA SameCodes ==
  /\ Service!SetConnStatus = SetConnStatus /\ Service!ConnStatus = ConnStatus
  /\ Service!Unanswered = Unanswered
  /\ \A c : Service!ReplyCode(c) = ReplyCode(c)
  BY DEF Service!SetConnStatus, SetConnStatus, Service!ConnStatus, ConnStatus,
         Service!Unanswered, Unanswered, Service!CallbackCodes, CallbackCodes,
         Service!TransReply, TransReply, Service!OrderStatus, OrderStatus,
         Service!TradeStatus, TradeStatus, Service!ReplyCode, ReplyCode

\* A function of one client says what it says of that client.
LEMMA Point ==
  ASSUME NEW x, NEW y
  PROVE  /\ [c \in {"client"} |-> x]["client"] = x
         /\ [[c \in {"client"} |-> x] EXCEPT !["client"] = y] = [c \in {"client"} |-> y]
         /\ [c \in {"client"} |-> x] = [c \in {"client"} |-> y] => x = y
  <1>1. [c \in {"client"} |-> x]["client"] = x /\ [c \in {"client"} |-> y]["client"] = y
    OBVIOUS
  <1> QED BY <1>1

First == Head(requests)

\* The registrations are one bit, and so is the connection.
LEMMA Registrations ==
  ASSUME dllCallbacks \subseteq {ConnStatus}, dllCallbacks' \subseteq {ConnStatus}
  PROVE  /\ (ConnStatus \in dllCallbacks') = (ConnStatus \in dllCallbacks)
              => UNCHANGED dllCallbacks
         /\ \A r : (ConnStatus \in dllCallbacks')
                     = (IF r.code = SetConnStatus THEN r.isSet = "yes"
                        ELSE ConnStatus \in dllCallbacks)
              => dllCallbacks' = Registered(r)
  <1>1. dllCallbacks \in {{}, {ConnStatus}} /\ dllCallbacks' \in {{}, {ConnStatus}}
    OBVIOUS
  <1> QED BY <1>1 DEF Registered

LEMMA Connection ==
  ASSUME connected \in BOOLEAN, connected' \in BOOLEAN,
         (IF connected THEN {} ELSE {"client"})' = IF connected THEN {} ELSE {"client"}
  PROVE  UNCHANGED connected
  OBVIOUS

-----------------------------------------------------------------------------
(***************************************************************************)
(* What the server may do is what T2QClient lets a server do.              *)
(***************************************************************************)
LEMMA ServerMoves == TypeOK /\ ServerStep => Register \/ Answer \/ Drop \/ Push
  <1> SUFFICES ASSUME TypeOK, ServerStep PROVE Register \/ Answer \/ Drop \/ Push
    OBVIOUS
  <1>0. /\ dllCallbacks \subseteq {ConnStatus} /\ dllCallbacks' \subseteq {ConnStatus}
        /\ connected \in BOOLEAN /\ connected' \in BOOLEAN
        /\ UNCHANGED <<avail, rest, clientVars>>
    BY DEF TypeOK, ServerStep
  <1>1. CASE Service!Register("client")
    <2>1. /\ requests # <<>> /\ First.code = SetConnStatus
          /\ (ConnStatus \in dllCallbacks') = (First.isSet = "yes")
          /\ UNCHANGED <<requests, pipe>>
          /\ (IF connected THEN {} ELSE {"client"})' = IF connected THEN {} ELSE {"client"}
      BY <1>1, Point, SameCodes DEF Service!Register, Service!First, First
    <2>2. dllCallbacks' = Registered(First) /\ UNCHANGED connected
      BY <1>0, <2>1, Registrations, Connection
    <2> QED BY <1>0, <2>1, <2>2 DEF Register, First, streamVars
  <1>2. CASE Service!Answer("client")
    <2>1. /\ "client" \notin (IF connected THEN {} ELSE {"client"})
          /\ requests # <<>> /\ First.code \notin Unanswered
          /\ requests' = Tail(requests) /\ pipe' = Append(pipe, ReplyCode(First.code))
          /\ (ConnStatus \in dllCallbacks')
                = (IF First.code = SetConnStatus THEN First.isSet = "yes"
                   ELSE ConnStatus \in dllCallbacks)
          /\ (IF connected THEN {} ELSE {"client"})' = IF connected THEN {} ELSE {"client"}
      BY <1>2, Point, SameCodes DEF Service!Answer, Service!First, First
    <2>2. dllCallbacks' = Registered(First) /\ UNCHANGED connected /\ connected
      BY <1>0, <2>1, Registrations, Connection
    <2> QED BY <1>0, <2>1, <2>2 DEF Answer, First
  <1>3. CASE Service!Drop("client")
    <2>1. /\ requests # <<>>
          /\ First.code \in Unanswered \/ "client" \in (IF connected THEN {} ELSE {"client"})
          /\ requests' = Tail(requests)
          /\ UNCHANGED pipe
          /\ (ConnStatus \in dllCallbacks') = (ConnStatus \in dllCallbacks)
          /\ (IF connected THEN {} ELSE {"client"})' = IF connected THEN {} ELSE {"client"}
      BY <1>3, Point, SameCodes DEF Service!Drop, Service!First, First
    <2>2. UNCHANGED <<dllCallbacks, connected>>
      BY <1>0, <2>1, Registrations, Connection
    <2>3. First.code \in Unanswered \/ ~connected
      BY <2>1
    <2> QED BY <1>0, <2>1, <2>2, <2>3 DEF Drop, First, streamVars
  <1>4. CASE Service!Report("client") /\ Len(pipe) < MaxPipe
    <2>1. /\ ConnStatus \in dllCallbacks
          /\ "client" \notin (IF connected THEN {} ELSE {"client"})
          /\ pipe' = Append(pipe, ConnStatus) /\ UNCHANGED requests
          /\ (ConnStatus \in dllCallbacks') = (ConnStatus \in dllCallbacks)
          /\ (IF connected THEN {} ELSE {"client"})' = IF connected THEN {} ELSE {"client"}
      BY <1>4, Point, SameCodes DEF Service!Report
    <2>2. UNCHANGED <<dllCallbacks, connected>> /\ connected
      BY <1>0, <2>1, Registrations, Connection
    <2> QED BY <1>0, <1>4, <2>1, <2>2 DEF Push, serverVars
  <1> QED BY <1>1, <1>2, <1>3, <1>4 DEF ServerStep

\* A client and a server of T2QService behave as T2QClient says.
LEMMA ComposedImplements == ComposedSpec => Spec
  <1>1. TypeOK /\ [ComposedNext]_vars => [Next]_vars
    BY ServerMoves DEF ComposedNext, Next
  <1>2. ReaderInv /\ [ComposedNext]_vars => ReaderInv'
    BY <1>1, ReaderStep DEF ReaderInv
  <1>3. ReaderInv => TypeOK
    BY DEF ReaderInv
  <1> QED BY <1>1, <1>2, <1>3, InitReader, PTL DEF ComposedSpec, Spec

-----------------------------------------------------------------------------
\* Beside any server that keeps T2QService, however the application calls and
\* whether or not the connection is lost, no call leaves its reply to another
\* and the flag is never left up without a caller.
THEOREM CallsOwnReplies == ComposedSpec => [](ReplyHasCaller /\ FlagHasCaller)
  BY ComposedImplements, RepliesOwed, FlagNeverStale, PTL

\* Beside any such server a client whose calls come from its main loop has the
\* safety of MainLoopSafe.
THEOREM MainLoopSafeBesideAny ==
  ASSUME MainLoopCalls
  PROVE  ComposedSpec => [](OnlyMisanswered /\ ReadersApart /\ FlagMeansWaiting
                            /\ HandlerInstalled)
  BY ComposedImplements, MainLoopSafe, PTL

=============================================================================
