------------------------------ MODULE T2QService ------------------------------
(***************************************************************************)
(* What a client may expect of the server, whatever the server does to     *)
(* keep it: the requests of a connection are handled in the order they     *)
(* were sent, each is answered at most once and under the code ReplyCode   *)
(* gives, a request whose code has no case is dropped, and the messages    *)
(* between the replies are reports of the DLL, made only while the         *)
(* connection status callback is registered.                               *)
(*                                                                         *)
(* T2QServer is such a server, and T2QClient is a client beside any server *)
(* that does no more than this.  Nothing here says that it answers at all. *)
(***************************************************************************)
EXTENDS Naturals, Sequences, FuncCodes

CONSTANTS
    Clients,    \* the connections
    Requests    \* what a client may ask: [code, isSet] records

VARIABLES
    requests,   \* sent by a client and not answered
    stream,     \* codes of the messages sent to a client and not read
    registered, \* the DLL has the server's connection status callback
    lost        \* the connections that have gone

serviceVars == <<requests, stream, registered, lost>>

Init ==
    /\ requests = [c \in Clients |-> <<>>]
    /\ stream = [c \in Clients |-> <<>>]
    /\ registered \in BOOLEAN
    /\ lost = {}

Ask(c) ==
    /\ \E r \in Requests : requests' = [requests EXCEPT ![c] = Append(@, r)]
    /\ UNCHANGED <<stream, registered, lost>>

\* The request a client has sent first of those not answered.
First(c) == Head(requests[c])

\* The DLL executes a setter, some time before its reply is sent.
Register(c) ==
    /\ requests[c] # <<>> /\ First(c).code = SetConnStatus
    /\ registered' = (First(c).isSet = "yes")
    /\ UNCHANGED <<requests, stream, lost>>

Answer(c) ==
    /\ c \notin lost
    /\ requests[c] # <<>> /\ First(c).code \notin Unanswered
    /\ requests' = [requests EXCEPT ![c] = Tail(@)]
    /\ stream' = [stream EXCEPT ![c] = Append(@, ReplyCode(First(c).code))]
    /\ registered' = IF First(c).code = SetConnStatus
                     THEN First(c).isSet = "yes" ELSE registered
    /\ UNCHANGED lost

\* No answer: the code has no case, or there is no one to answer.
Drop(c) ==
    /\ requests[c] # <<>> /\ (First(c).code \in Unanswered \/ c \in lost)
    /\ requests' = [requests EXCEPT ![c] = Tail(@)]
    /\ UNCHANGED <<stream, registered, lost>>

Report(c) ==
    /\ registered /\ c \notin lost
    /\ stream' = [stream EXCEPT ![c] = Append(@, ConnStatus)]
    /\ UNCHANGED <<requests, registered, lost>>

Read(c) ==
    /\ stream[c] # <<>>
    /\ stream' = [stream EXCEPT ![c] = Tail(@)]
    /\ UNCHANGED <<requests, registered, lost>>

\* A connection is lost, with any of what is on its way in either direction.
\* The server may still handle the requests that have reached it.
Lose(c) ==
    /\ lost' = lost \cup {c}
    /\ \E m \in 0 .. Len(requests[c]), n \in 0 .. Len(stream[c]) :
         /\ requests' = [requests EXCEPT ![c] = SubSeq(@, 1, m)]
         /\ stream' = [stream EXCEPT ![c] = SubSeq(@, 1, n)]
    /\ UNCHANGED registered

Next == \E c \in Clients : \/ Ask(c) \/ Register(c) \/ Answer(c) \/ Drop(c)
                           \/ Report(c) \/ Read(c) \/ Lose(c)

Spec == Init /\ [][Next]_serviceVars

=============================================================================
