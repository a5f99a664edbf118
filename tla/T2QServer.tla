------------------------------- MODULE T2QServer -------------------------------
(***************************************************************************)
(* The Windows end of the wrapper, TRANS2QUIK_SERVER: a QTcpServer that    *)
(* talks to the connection it accepted last, curConnection.  A request is  *)
(* read by processMessages, a slot of readyRead, which waits for missing   *)
(* bytes in the nested loop _wait_loop.  Each connection it ever accepted  *)
(* stays connected to that slot and to _wait_loop.quit().                  *)
(*                                                                         *)
(* As in T2QClient a message from a client is two units, its size word and *)
(* its body, and the model keeps the C++ stack, here of processMessages.   *)
(* What the server sends goes word by word through T2QSendBuffer, from the *)
(* main thread and, when DllThread, from a thread of the DLL as well.      *)
(***************************************************************************)
EXTENDS T2QSendBuffer, FiniteSets, FuncCodes

CONSTANTS
    Connections,    \* numbers, in the order in which clients connect
    Functions,      \* codes of the functions the clients call
    Setters,        \* codes of the callback setters they call
    Rogues,         \* connections whose requests may arrive in pieces, and
                    \* which call setters the server does not know
    Overlapping,    \* TRUE iff a client may connect while another is connected
    DllThread,      \* TRUE iff the DLL calls back on a thread of its own
    MaxAsked,       \* bound: no request is sent while more are unanswered or unread
    MaxSent         \* bound: no report is made while more messages are unread

Null == 0               \* the null pointer

ASSUME ServerAssumption ==
    /\ Connections \subseteq Nat \ {Null}
    /\ Functions \cap (CallbackCodes \cup {SetConnStatus, UnsubscribeTrades}) = {}
    /\ Setters \subseteq CallbackCodes \cup {SetConnStatus, UnsubscribeTrades}
    /\ Rogues \subseteq Connections
    /\ Overlapping \in BOOLEAN /\ DllThread \in BOOLEAN
    /\ MaxAsked \in Nat /\ MaxSent \in Nat
    /\ Threads = IF DllThread THEN {"main", "dll"} ELSE {"main"}

VARIABLES
    link,           \* of each connection: see Links
    pending,        \* requests a client has sent and the server not read whole
    avail,          \* units at the head of pending that are in the buffer
    rest,           \* what was left unread of Head(pending): "body" or "none"
    down,           \* what was written to a client, write by write
    curConnection,  \* the QPointer
    stack,          \* frames of processMessages, the running one last
    quit,           \* quit() was called on _wait_loop since it was entered
    registered,     \* the DLL has _TRANS2QUIK_CONNECTION_STATUS_CALLBACK
    misread,        \* connections of which payload was taken for a message
    fault           \* what ended the sensible part of the run, or "none"

socketVars == <<link, pending, avail, rest, curConnection>>
frameVars == <<stack, quit, registered, misread, fault>>
vars == <<link, pending, avail, rest, curConnection, down,
          stack, quit, registered, misread, fault, buf, pos, job>>

-----------------------------------------------------------------------------
\* A connection yet to come; connected; disconnected with its deleteLater()
\* posted from the main loop or from _wait_loop; deleted.
Links == {"new", "open", "closing", "closingInLoop", "deleted"}

\* isSet is the first payload word of a callback setter's request.
Request == [code: Functions \cup Setters, isSet: {"none", "yes", "no"}]

NoRequest == [code |-> "none", isSet |-> "none"]

Messages == {ReplyCode(c) : c \in Functions \cup Setters} \cup {ConnStatus}

\* The setters whose payload no case reads.
Strays(r) == r.isSet # "none" /\ r.code # SetConnStatus

\* conn is the connection whose readyRead called, request what is being served.
Frame == [conn: Connections, request: Request \cup {NoRequest},
          pc: {"size", "execSize", "body", "execBody", "dll", "reply",
               "stray", "next"}]

Top == stack[Len(stack)]
Popped == SubSeq(stack, 1, Len(stack) - 1)
AtTop(p) == stack # <<>> /\ Top.pc = p
Goto(p) == stack' = [stack EXCEPT ![Len(stack)].pc = p]

InExec(s) == \E i \in DOMAIN s : s[i].pc \in {"execSize", "execBody"}

\* QEventLoop::exec returns at once when the loop is running already.
LoopRunning == InExec(stack)
Entered(p) == IF LoopRunning THEN p
              ELSE IF p = "size" THEN "execSize" ELSE "execBody"
QuitOnEntry == IF LoopRunning THEN quit ELSE FALSE

\* The main thread is in an event loop: the main one, or _wait_loop.
InEventLoop ==
    /\ fault = "none" /\ ThreadIdle("main")
    /\ \/ stack = <<>>
       \/ (AtTop("execSize") \/ AtTop("execBody")) /\ ~quit

Running == fault = "none" /\ ThreadIdle("main") /\ stack # <<>>

\* Defect: processMessages runs again inside itself.
EmittingNever(c) == FALSE

Emitting(c) == \E i \in DOMAIN stack : stack[i].conn = c

-----------------------------------------------------------------------------
(***************************************************************************)
(* The clients and the network.                                            *)
(***************************************************************************)
\* The request the DLL is executing, as a sequence.
Executing(c) ==
    IF curConnection = c /\ (AtTop("dll") \/ AtTop("reply"))
    THEN <<Top.request>> ELSE <<>>

Awaiting(c) == Executing(c) \o pending[c]

\* A client calls, perhaps from a callback while another call is open; a
\* setter the server does not know blocks its caller.
Ask(c) ==
    /\ link[c] = "open"
    /\ Len(Awaiting(c)) + Len(down[c]) < MaxAsked
    /\ c \in Rogues => Awaiting(c) = <<>>
    /\ \E r \in Request :
         /\ (r.isSet = "none") <=> (r.code \in Functions)
         /\ Strays(r) => c \in Rogues
         /\ \A i \in DOMAIN Awaiting(c) : ~Strays(Awaiting(c)[i])
         /\ pending' = [pending EXCEPT ![c] = Append(@, r)]
    /\ UNCHANGED <<link, avail, rest, curConnection, down>>
    /\ UNCHANGED frameVars /\ UNCHANGED sendVars

Read(c) ==
    /\ down[c] # <<>>
    /\ down' = [down EXCEPT ![c] = Tail(@)]
    /\ UNCHANGED socketVars /\ UNCHANGED frameVars /\ UNCHANGED sendVars

-----------------------------------------------------------------------------
(***************************************************************************)
(* Events of the main thread.                                              *)
(***************************************************************************)
\* Defect: the first client keeps the server.
ClientConnectedOnce(c) ==
    /\ InEventLoop /\ link[c] = "new"
    /\ \A d \in Connections : /\ d < c => link[d] # "new"
                              /\ link[d] = "open" => Overlapping
    /\ link' = [link EXCEPT ![c] = "open"]
    /\ curConnection' = IF curConnection = Null THEN c ELSE curConnection
    /\ UNCHANGED <<pending, avail, rest, down>>
    /\ UNCHANGED frameVars /\ UNCHANGED sendVars

\* clientConnected: curConnection and _in go over to the new connection.
ClientConnected(c) ==
    /\ InEventLoop /\ link[c] = "new"
    /\ \A d \in Connections : /\ d < c => link[d] # "new"
                              /\ link[d] = "open" => Overlapping
    /\ link' = [link EXCEPT ![c] = "open"]
    /\ curConnection' = c
    /\ UNCHANGED <<pending, avail, rest, down>>
    /\ UNCHANGED frameVars /\ UNCHANGED sendVars

Unread(c) == 2 * Len(pending[c]) - (IF rest[c] = "none" THEN 0 ELSE 1)

\* The messages whose first unit at least has been received.
Received(c) == (avail[c] + (IF rest[c] = "none" THEN 1 ELSE 2)) \div 2

\* disconnected: deleteLater().  The buffer stays; what is under way is lost.
Disconnected(c) ==
    /\ InEventLoop /\ link[c] = "open"
    /\ link' = [link EXCEPT ![c] = IF stack = <<>> THEN "closing"
                                   ELSE "closingInLoop"]
    /\ pending' = [pending EXCEPT ![c] = SubSeq(@, 1, Received(c))]
    /\ down' = [down EXCEPT ![c] = <<>>]
    /\ UNCHANGED <<avail, rest, curConnection>>
    /\ UNCHANGED frameVars /\ UNCHANGED sendVars

\* The deferred delete, not in a loop inside the one it was posted from.
Deleted(c) ==
    /\ InEventLoop
    /\ link[c] = "closingInLoop" \/ (link[c] = "closing" /\ stack = <<>>)
    /\ link' = [link EXCEPT ![c] = "deleted"]
    /\ curConnection' = IF curConnection = c THEN Null ELSE curConnection
    /\ pending' = [pending EXCEPT ![c] = <<>>]
    /\ avail' = [avail EXCEPT ![c] = 0]
    /\ rest' = [rest EXCEPT ![c] = "none"]
    /\ UNCHANGED down
    /\ UNCHANGED frameVars /\ UNCHANGED sendVars

\* Bytes arrive, and readyRead is emitted unless a slot of an earlier
\* emission of this connection is running: processMessages is the first slot.
Receive(c) ==
    /\ InEventLoop /\ link[c] = "open"
    /\ \E n \in 1 .. (Unread(c) - avail[c]) :
         /\ c \notin Rogues => (Unread(c) - avail[c] - n) % 2 = 0
         /\ avail' = [avail EXCEPT ![c] = @ + n]
    /\ stack' = IF Emitting(c) THEN stack
                ELSE Append(stack, [conn |-> c, request |-> NoRequest, pc |-> "size"])
    /\ UNCHANGED <<link, pending, rest, curConnection, down, quit, registered,
                   misread, fault>>
    /\ UNCHANGED sendVars

-----------------------------------------------------------------------------
(***************************************************************************)
(* processMessages.                                                        *)
(***************************************************************************)
ExecReturns ==
    /\ Running /\ quit
    /\ \/ AtTop("execSize") /\ Goto("size")
       \/ AtTop("execBody") /\ Goto("body")
    /\ quit' = FALSE
    /\ UNCHANGED <<registered, misread, fault, down>>
    /\ UNCHANGED socketVars /\ UNCHANGED sendVars

BytesAvailable == curConnection # Null /\ avail[curConnection] > 0

\* curConnection->bytesAvailable(): a null pointer, or too few bytes.  While a
\* frame below is in the loop, exec() returns at once and this goes round
\* without ever handling an event.
WaitForBytes ==
    /\ Running
    /\ \E p \in {"size", "body"} :
         /\ AtTop(p) /\ ~BytesAvailable
         /\ Goto(Entered(p)) /\ quit' = QuitOnEntry
    /\ fault' = IF curConnection = Null THEN "null" ELSE fault
    /\ UNCHANGED <<registered, misread, down>>
    /\ UNCHANGED socketVars /\ UNCHANGED sendVars

\* _in >> dummy, the size.  A code read as a size is more than ever arrives.
ReadSize ==
    /\ Running /\ AtTop("size") /\ BytesAvailable
    /\ LET c == curConnection
       IN  /\ rest' = [rest EXCEPT ![c] = "body"]
           /\ avail' = [avail EXCEPT ![c] = @ - 1]
           /\ fault' = IF rest[c] = "body" THEN "misread" ELSE fault
    /\ Goto("body")
    /\ UNCHANGED <<link, pending, curConnection, down, quit, registered, misread>>
    /\ UNCHANGED sendVars

\* Defect: a case reads one word more than the request has.
ConsumeTooMuch(c) ==
    /\ pending' = [pending EXCEPT ![c] = Tail(@)]
    /\ avail' = [avail EXCEPT ![c] = @ - 2]
    /\ rest' = [rest EXCEPT ![c] = "none"]

Consume(c) ==
    /\ pending' = [pending EXCEPT ![c] = Tail(@)]
    /\ avail' = [avail EXCEPT ![c] = @ - 1]
    /\ rest' = [rest EXCEPT ![c] = "none"]

\* Defect: the case does not look at is_callback_set.
SetCallbackAlways(r) ==
    registered' = IF r.code = SetConnStatus THEN TRUE ELSE registered

\* SetCallback: the DLL registers the callback or drops it.
SetCallback(r) ==
    registered' = IF r.code = SetConnStatus THEN r.isSet = "yes" ELSE registered

\* _in >> dummy, the code, and what its case reads and has the DLL do.  A size
\* read as a code is in no case.
ReadRequest ==
    /\ Running /\ AtTop("body") /\ BytesAvailable
    /\ LET c == curConnection
           r == Head(pending[c])
       IN  IF rest[c] = "body"
           THEN /\ stack' = [stack EXCEPT
                               ![Len(stack)].request = r,
                               ![Len(stack)].pc = IF r.code \in Unanswered
                                                  THEN "stray" ELSE "dll"]
                /\ SetCallback(r) /\ Consume(c) /\ UNCHANGED fault
           ELSE /\ fault' = "misread"
                /\ UNCHANGED <<stack, registered, pending, avail, rest>>
    /\ UNCHANGED <<link, curConnection, down, quit, misread>>
    /\ UNCHANGED sendVars

\* The DLL's function returns, and the reply is prepared.
DllReturns ==
    /\ Running /\ AtTop("dll")
    /\ Begin("main", ReplyCode(Top.request.code)) /\ Goto("reply")
    /\ UNCHANGED <<quit, registered, misread, fault, down>>
    /\ UNCHANGED socketVars

\* curConnection->write(_buf): a socket that is not connected refuses it.
Write ==
    /\ down' = IF curConnection # Null /\ link[curConnection] = "open"
               THEN [down EXCEPT ![curConnection] = Append(@, buf)] ELSE down
    /\ fault' = IF curConnection = Null THEN "null" ELSE fault

\* The case has no test of curConnection.
WriteReply ==
    /\ fault = "none" /\ AtTop("reply")
    /\ AtStep("main", "prepared") /\ End("main")
    /\ Write
    /\ Goto(IF Strays(Top.request) THEN "stray" ELSE "next")
    /\ UNCHANGED <<quit, registered, misread>> /\ UNCHANGED socketVars

\* The loop goes on with what the setter's case left, and takes it for a message.
\* Of the transaction reply's two words one is a size and one a code of no case.
\* A single 1 is the size of something still to come; a single 0 is one with the
\* code behind it: a message's size, or 0 if nothing has arrived.
ReadStray ==
    /\ Running /\ AtTop("stray")
    /\ Goto(IF Top.request.isSet = "yes" /\ Top.request.code # TransReply
            THEN "body" ELSE "next")
    /\ misread' = misread \cup {curConnection}
    /\ fault' = IF /\ Top.request.isSet = "no" /\ Top.request.code # TransReply
                   /\ BytesAvailable
                THEN "misread" ELSE fault
    /\ UNCHANGED <<quit, registered, down>>
    /\ UNCHANGED socketVars /\ UNCHANGED sendVars

\* Defect: the loop goes round whether or not there are bytes.
NextMessageAlways ==
    /\ Running /\ AtTop("next")
    /\ Goto("size")
    /\ UNCHANGED <<quit, registered, misread, fault, down>>
    /\ UNCHANGED socketVars /\ UNCHANGED sendVars

\* while (bytesAvailable() != 0)
NextMessage ==
    /\ Running /\ AtTop("next") /\ BytesAvailable
    /\ Goto("size")
    /\ UNCHANGED <<quit, registered, misread, fault, down>>
    /\ UNCHANGED socketVars /\ UNCHANGED sendVars

\* processMessages returns to the emission, which calls quit(); a socket
\* deleted in the meantime is used once more there.
Return ==
    /\ Running /\ AtTop("next") /\ ~BytesAvailable
    /\ stack' = Popped
    /\ quit' = (quit \/ InExec(Popped))
    /\ fault' = IF curConnection = Null THEN "null"
                ELSE IF link[Top.conn] = "deleted" THEN "freed" ELSE fault
    /\ UNCHANGED <<registered, misread, down>>
    /\ UNCHANGED socketVars /\ UNCHANGED sendVars

Step == \/ ExecReturns \/ WaitForBytes \/ ReadSize \/ ReadRequest
        \/ DllReturns \/ WriteReply \/ ReadStray
        \/ NextMessage \/ Return

-----------------------------------------------------------------------------
(***************************************************************************)
(* _TRANS2QUIK_CONNECTION_STATUS_CALLBACK.  Without a thread of its own    *)
(* the DLL calls it inside one of its functions, or out of the event loop. *)
(***************************************************************************)
Report(t) ==
    /\ fault = "none" /\ registered
    /\ curConnection # Null => Len(down[curConnection]) < MaxSent
    /\ t = "main" => InEventLoop \/ AtTop("dll")
    /\ Begin(t, ConnStatus)
    /\ UNCHANGED <<registered, misread, fault, stack, quit, down>>
    /\ UNCHANGED socketVars

\* Defect: curConnection is not tested.
TestNothing(t) ==
    /\ fault = "none" /\ AtStep(t, "prepared") /\ job[t].message = ConnStatus
    /\ Advance(t, "tested") /\ UNCHANGED <<buf, pos>>
    /\ UNCHANGED down /\ UNCHANGED socketVars /\ UNCHANGED frameVars

\* if (!curConnection.isNull())
TestConnection(t) ==
    /\ fault = "none" /\ AtStep(t, "prepared") /\ job[t].message = ConnStatus
    /\ IF curConnection = Null THEN End(t)
       ELSE Advance(t, "tested") /\ UNCHANGED <<buf, pos>>
    /\ UNCHANGED down /\ UNCHANGED socketVars /\ UNCHANGED frameVars

WriteReport(t) ==
    /\ fault = "none" /\ AtStep(t, "tested") /\ End(t)
    /\ Write
    /\ UNCHANGED <<stack, quit, registered, misread>> /\ UNCHANGED socketVars

Send(t) ==
    \/ /\ fault = "none" /\ Prepare(t)
       /\ UNCHANGED down /\ UNCHANGED socketVars /\ UNCHANGED frameVars
    \/ TestConnection(t) \/ WriteReport(t)

-----------------------------------------------------------------------------
Init ==
    /\ link = [c \in Connections |-> "new"]
    /\ pending = [c \in Connections |-> <<>>]
    /\ avail = [c \in Connections |-> 0]
    /\ rest = [c \in Connections |-> "none"]
    /\ down = [c \in Connections |-> <<>>]
    /\ curConnection = Null
    /\ stack = <<>> /\ quit = FALSE
    /\ registered = FALSE /\ misread = {} /\ fault = "none"
    /\ SendInit

Next ==
    \/ \E c \in Connections :
         \/ Ask(c) \/ Read(c) \/ ClientConnected(c) \/ Disconnected(c)
         \/ Deleted(c) \/ Receive(c)
    \/ Step
    \/ \E t \in Threads : Report(t) \/ Send(t)

Spec == Init /\ [][Next]_vars

\* The event loop comes to every socket, the DLL's functions return, and the
\* threads run, however often the DLL reports in between.  Clients need not
\* call, read, or stay, and the DLL need not report.
Fairness ==
    /\ \A c \in Connections : SF_vars(Receive(c))
    /\ SF_vars(Step)
    /\ \A t \in Threads : WF_vars(Send(t))

FairSpec == Spec /\ Fairness

-----------------------------------------------------------------------------
TypeOK ==
    /\ link \in [Connections -> Links]
    /\ pending \in [Connections -> Seq(Request)]
    /\ avail \in [Connections -> Nat]
    /\ rest \in [Connections -> {"none", "body"}]
    /\ down \in [Connections -> Seq(Seq(Word(Messages)))]
    /\ curConnection \in Connections \cup {Null}
    /\ stack \in Seq(Frame)
    /\ quit \in BOOLEAN /\ registered \in BOOLEAN
    /\ misread \subseteq Connections \cup {Null}
    /\ fault \in {"none", "null", "misread", "freed"}
    /\ SendTypeOK(Messages)

(***************************************************************************)
(* Safety.                                                                 *)
(***************************************************************************)
\* curConnection is never used when the connection it pointed to is gone, nor
\* a socket once it has been deleted.
ConnectionsAlive == fault \notin {"null", "freed"}

\* No size word is taken for a code and no code for a size, though curConnection
\* may change, and another frame read, while a frame waits.  Payload is taken for
\* a message only behind a setter the server does not know, and only on the
\* connection of the client that called it.
MessagesInStep == fault # "misread" /\ misread \subseteq Rogues

\* The main thread never goes round in an exec() that returns at once.
NeverSpins ==
    LoopRunning /\ curConnection # Null /\ avail[curConnection] = 0
        => ~AtTop("size") /\ ~AtTop("body")

\* Every write hands the socket one message, whole.
WholeMessages ==
    \A c \in Connections : \A i \in DOMAIN down[c] :
        \E m \in Messages : down[c][i] = Encoded(m)

\* The server keeps the promise of T2QService.
Service == INSTANCE T2QService WITH
    Clients <- Connections,
    Requests <- Request,
    requests <- [c \in Connections |-> Awaiting(c)],
    stream <- [c \in Connections |-> [i \in DOMAIN down[c] |-> down[c][i][2][2]]],
    lost <- {c \in Connections : link[c] \notin {"new", "open"}}

Implements == Service!Spec

(***************************************************************************)
(* Liveness.                                                               *)
(***************************************************************************)
\* A request that waits is followed by one that is executed.
Served(c) == pending[c] # <<>> ~> Executing(c) # <<>> \/ link[c] # "open"

\* Every request sent is executed, while its connection lasts.
RequestsServed == \A c \in Connections : Served(c)

\* At least those of clients that send whole requests the server knows, even
\* when an earlier client has left processMessages waiting.
WholeRequestsServed == \A c \in Connections \ Rogues : Served(c)

=============================================================================
