------------------------------ MODULE T2QClient ------------------------------
(***************************************************************************)
(* The Linux end of the wrapper, TRANS2QUIK_CLIENT: a QTcpSocket whose API *)
(* functions send a request and then wait for the reply in a nested event  *)
(* loop (WaitReadMessage), while messages the server pushes are read by a  *)
(* slot of readyRead (WaitRead).  Both readers may be on the C++ stack at  *)
(* once, and both run the application's callbacks, which may call the API  *)
(* again.  The model keeps that stack.                                     *)
(*                                                                         *)
(* A message is two units: its size word, and its body (code and payload). *)
(* TCP moves any number of units at a time into the socket's buffer.  The  *)
(* server may do whatever T2QService lets it, and need not do it.          *)
(***************************************************************************)
EXTENDS Naturals, Sequences, FiniteSets, FuncCodes

CONSTANTS
    Functions,          \* codes of the ordinary functions the application calls
    Settable,           \* callbacks the application sets
    Unsets,             \* TRUE iff the application also resets them to NULL
    CallSites,          \* where it calls from: "idle", "callback", "event"
    PriorRegistrations, \* callbacks left registered by an earlier session
    Losable,            \* TRUE iff the connection may be lost
    Segmentation,       \* what one readyRead carries, see Segment
    MaxPipe,            \* bound: no callback is pushed into a longer stream
    MaxDepth            \* bound: no call is made on a deeper stack

ASSUME ClientAssumption ==
    /\ Functions \cap (CallbackCodes \cup {SetConnStatus}) = {}
    /\ Settable \subseteq CallbackCodes
    /\ Unsets \in BOOLEAN
    /\ CallSites \subseteq {"idle", "callback", "event"}
    /\ PriorRegistrations \subseteq {ConnStatus}
    /\ Losable \in BOOLEAN
    /\ Segmentation \in {"message", "batch", "stream"}
    /\ MaxPipe \in Nat
    /\ MaxDepth \in Nat

VARIABLES
    stack,        \* frames of the two readers, the running one last
    waitFuncCallResult, \* _wait_func_call_result
    quit,         \* quit() was called on _wait_loop since it was entered
    handlers,     \* callbacks whose _pf... pointer is not null
    fault,        \* "assert": a Q_ASSERT failed; "starved": see ReadSize
    pipe,         \* codes of the messages from the server not yet read whole
    avail,        \* units at the head of pipe that are in the socket's buffer
    rest,         \* what was left unread of Head(pipe): "body" or "payload"
    requests,     \* requests the server has not handled
    dllCallbacks, \* callbacks registered with the DLL
    connected     \* the socket's connection has not been lost

clientVars == <<stack, waitFuncCallResult, quit, handlers, fault>>
streamVars == <<pipe, avail, rest>>
serverVars == <<requests, dllCallbacks, connected>>
vars == <<stack, waitFuncCallResult, quit, handlers, fault, pipe, avail, rest,
          requests, dllCallbacks, connected>>

-----------------------------------------------------------------------------
(***************************************************************************)
(* The stack.  A frame is blocked in _wait_loop.exec() at execSize or      *)
(* execBody, in the loop that retests the bytes it needs, and lent to the  *)
(* application at callback.                                                *)
(***************************************************************************)
AllCodes == Functions \cup CallbackCodes \cup {SetConnStatus, UnsubscribeTrades}

StreamCodes == AllCodes \cup {ReplyCode(c) : c \in AllCodes}

\* isSet is the first payload word of a callback setter's request.
Request == [code: AllCodes, isSet: {"none", "yes", "no"}]

\* wide is TRUE iff the caller takes eight bytes for a reply of four.
Frame == [fn: {"WaitRead", "WaitReadMessage"},
          fcode: AllCodes \cup {"none"},
          wide: BOOLEAN,
          pc: {"size", "execSize", "body", "execBody", "callback"}]

Top == stack[Len(stack)]
Popped == SubSeq(stack, 1, Len(stack) - 1)
AtTop(p) == stack # <<>> /\ Top.pc = p

InExec(i) == stack[i].pc \in {"execSize", "execBody"}

\* QEventLoop::exec returns at once when the loop is running already.
LoopRunning == \E i \in DOMAIN stack : InExec(i)

\* Defect: WaitRead is connected so that it runs again inside itself.
EmittingNever == FALSE

\* readyRead is not emitted again while a slot it invoked is running.
Emitting == \E i \in DOMAIN stack : stack[i].fn = "WaitRead"

\* Control is in an event loop: the main one, or _wait_loop below no other frame.
InEventLoop == \/ stack = <<>>
               \/ (AtTop("execSize") \/ AtTop("execBody")) /\ ~quit

\* Where a frame is that has just called _wait_loop.exec() to retest at p.
Entered(p) == IF LoopRunning THEN p
              ELSE IF p = "size" THEN "execSize" ELSE "execBody"

\* exec() clears an earlier quit, unless it returned at once.
QuitOnEntry == IF LoopRunning THEN quit ELSE FALSE

Running == fault = "none" /\ stack # <<>>

-----------------------------------------------------------------------------
(***************************************************************************)
(* API calls: PrepareMessage, WaitSendMessage, then WaitReadMessage(c) up  *)
(* to its first exec().  What write() returns is ignored: without a        *)
(* connection nothing is sent, and the function waits all the same.        *)
(***************************************************************************)
CallSiteOpen ==
    \/ "idle" \in CallSites /\ stack = <<>>
    \/ "callback" \in CallSites /\ AtTop("callback")
    \/ "event" \in CallSites /\ (AtTop("execSize") \/ AtTop("execBody"))

Send(r) == requests' = IF connected THEN Append(requests, r) ELSE requests

\* Int_in_R_out of a Descriptor or Quantity is also what START_ORDERS and
\* START_TRADES go through, as Int_in_Empty_out.
Wide(c, isSet) ==
    c \in Overread \/ (isSet # "none" /\ c \in {OrderStatus, UnsubscribeTrades})

Invoke(c, isSet) ==
    /\ fault = "none" /\ CallSiteOpen /\ Len(stack) < MaxDepth
    /\ Send([code |-> c, isSet |-> isSet])
    /\ waitFuncCallResult' = TRUE
    /\ stack' = Append(stack, [fn |-> "WaitReadMessage", fcode |-> c,
                               wide |-> Wide(c, isSet), pc |-> Entered("size")])
    /\ quit' = QuitOnEntry
    /\ UNCHANGED <<fault, pipe, avail, rest, dllCallbacks, connected>>

CallFunction(c) == Invoke(c, "none") /\ UNCHANGED handlers

\* Defect: the pointer is not stored when the request is sent.
SetHandlerLate(k) == Invoke(SetterCode(k), "yes") /\ UNCHANGED handlers

\* TRANS2QUIK_SET_..._CALLBACK and TRANS2QUIK_START_...: the pointer is
\* stored before the request is sent.
SetHandler(k) == Invoke(SetterCode(k), "yes") /\ handlers' = handlers \cup {k}

ResetHandler(k) ==
    /\ Unsets
    /\ Invoke(SetterCode(k), "no")
    /\ handlers' = handlers \ {k}

-----------------------------------------------------------------------------
(***************************************************************************)
(* The socket.                                                             *)
(***************************************************************************)
\* Units of pipe the client has not consumed.
Unread == 2 * Len(pipe) - (IF rest = "none" THEN 0 ELSE 1)

\* One readyRead carries a whole message, whole messages, or any bytes.
Segment(n) ==
    /\ Segmentation \in {"message", "batch"} => (Unread - avail - n) % 2 = 0
    /\ Segmentation = "message" => n <= 2

SlotFrame == [fn |-> "WaitRead", fcode |-> "none", wide |-> FALSE, pc |-> "size"]

\* Defect: WaitRead runs although a function waits.
ReceiveUnguarded ==
    /\ fault = "none" /\ connected /\ InEventLoop
    /\ \E n \in 1 .. (Unread - avail) : Segment(n) /\ avail' = avail + n
    /\ quit' = (quit \/ (LoopRunning /\ ~Emitting))
    /\ stack' = IF Emitting THEN stack ELSE Append(stack, SlotFrame)
    /\ UNCHANGED <<waitFuncCallResult, handlers, fault, pipe, rest>>
    /\ UNCHANGED serverVars

\* The event loop moves bytes into the buffer and emits readyRead, unless a
\* slot of an earlier emission is running: quit() first, then WaitRead.
Receive ==
    /\ fault = "none" /\ connected /\ InEventLoop
    /\ \E n \in 1 .. (Unread - avail) : Segment(n) /\ avail' = avail + n
    /\ quit' = (quit \/ (LoopRunning /\ ~Emitting))
    /\ stack' = IF Emitting \/ waitFuncCallResult THEN stack
                ELSE Append(stack, SlotFrame)
    /\ UNCHANGED <<waitFuncCallResult, handlers, fault, pipe, rest>>
    /\ UNCHANGED serverVars

\* The socket is disconnected: what it has received of the stream stays in its
\* buffer, the rest is lost, and so are requests the server has not received.
\* No slot of the client's is connected to disconnected().
Lose ==
    /\ Losable /\ fault = "none" /\ connected /\ InEventLoop
    /\ connected' = FALSE
    /\ \E m \in 0 .. Len(requests) : requests' = SubSeq(requests, 1, m)
    /\ UNCHANGED <<avail, rest>>
    /\ \E n \in 0 .. Len(pipe) : pipe' = SubSeq(pipe, 1, n)
    /\ Unread' \in {avail, avail + 1}
    /\ UNCHANGED dllCallbacks /\ UNCHANGED clientVars

-----------------------------------------------------------------------------
(***************************************************************************)
(* The readers.  WaitRead and WaitReadMessage read a message alike; they   *)
(* differ in what they do after it.                                        *)
(***************************************************************************)
Goto(p) == stack' = [stack EXCEPT ![Len(stack)].pc = p]

ExecReturns ==
    /\ Running /\ quit
    /\ \/ AtTop("execSize") /\ Goto("size")
       \/ AtTop("execBody") /\ Goto("body")
    /\ quit' = FALSE
    /\ UNCHANGED <<waitFuncCallResult, handlers, fault>>
    /\ UNCHANGED streamVars /\ UNCHANGED serverVars

\* Too few bytes: exec().  While a frame below is in the loop this goes
\* round without ever handling an event.
WaitForBytes ==
    /\ Running /\ avail = 0
    /\ \E p \in {"size", "body"} : AtTop(p) /\ Goto(Entered(p))
    /\ quit' = QuitOnEntry
    /\ UNCHANGED <<waitFuncCallResult, handlers, fault>>
    /\ UNCHANGED streamVars /\ UNCHANGED serverVars

\* _in >> dummy, the size.  In the middle of a message the word read is not a
\* size: unread payload gives a size and then a code that is no function code,
\* which both readers assert against; a code word gives a size of thousands of
\* bytes, for which the reader waits while message after message goes by.
ReadSize ==
    /\ Running /\ AtTop("size") /\ avail > 0
    /\ \/ /\ rest = "none"
          /\ rest' = "body" /\ avail' = avail - 1 /\ Goto("body")
          /\ UNCHANGED fault
       \/ /\ rest = "payload" /\ fault' = "assert"
          /\ UNCHANGED <<rest, avail, stack>>
       \/ /\ rest = "body" /\ fault' = "starved"
          /\ UNCHANGED <<rest, avail, stack>>
    /\ UNCHANGED <<waitFuncCallResult, quit, handlers, pipe>>
    /\ UNCHANGED serverVars

\* Defect: a reader takes one word more than the message has.
ConsumeTooMuch == /\ pipe' = Tail(pipe)
                  /\ avail' = avail - 2
                  /\ rest' = "none"

Consume == /\ pipe' = Tail(pipe)
           /\ avail' = avail - 1
           /\ rest' = "none"

\* Defect: WaitReadMessage returns after one message, whatever its code.
EndOfTurnOnce == stack' = Popped /\ UNCHANGED quit

\* The end of a reader's turn: WaitRead returns to the emission of readyRead,
\* WaitReadMessage goes round its loop and calls exec() whatever the buffer holds.
EndOfTurn ==
    \/ Top.fn = "WaitRead" /\ stack' = Popped /\ UNCHANGED quit
    \/ /\ Top.fn = "WaitReadMessage"
       /\ Goto(Entered("size")) /\ quit' = QuitOnEntry

\* CallbackIfNeeded, the handler set: the payload is read, the callback runs.
RunCallback ==
    /\ Running /\ AtTop("body") /\ avail > 0
    /\ Head(pipe) \in CallbackCodes \cap handlers
    /\ Consume /\ Goto("callback")
    /\ UNCHANGED <<waitFuncCallResult, quit, handlers, fault>>
    /\ UNCHANGED serverVars

CallbackReturns ==
    /\ Running /\ AtTop("callback")
    /\ EndOfTurn
    /\ UNCHANGED <<waitFuncCallResult, handlers, fault>>
    /\ UNCHANGED streamVars /\ UNCHANGED serverVars

\* CallbackIfNeeded, the handler null: it returns true, the payload unread.
SkipCallback ==
    /\ Running /\ AtTop("body") /\ avail > 0
    /\ Head(pipe) \in CallbackCodes \ handlers
    /\ rest' = "payload" /\ EndOfTurn
    /\ UNCHANGED <<waitFuncCallResult, handlers, fault, pipe, avail>>
    /\ UNCHANGED serverVars

\* The API function takes what it reads of the reply: the payload, or four bytes
\* more, the size word of a message that has arrived behind it.  If nothing has,
\* the read falls short and takes the payload alone.
TakeReply ==
    \/ (Top.wide => avail = 1) /\ Consume
    \/ /\ Top.wide /\ avail > 1
       /\ pipe' = Tail(pipe)
       /\ avail' = avail - 2
       /\ rest' = "body"

\* Defect: the loop goes on although the reply has come.
ReturnLooping ==
    /\ Running /\ AtTop("body") /\ avail > 0
    /\ Top.fn = "WaitReadMessage" /\ Head(pipe) = Top.fcode
    /\ Head(pipe) \notin CallbackCodes
    /\ TakeReply /\ EndOfTurn
    /\ UNCHANGED <<waitFuncCallResult, handlers, fault>>
    /\ UNCHANGED serverVars

\* Defect: _wait_func_call_result stays up when the function returns.
ReturnFlagged ==
    /\ Running /\ AtTop("body") /\ avail > 0
    /\ Top.fn = "WaitReadMessage" /\ Head(pipe) = Top.fcode
    /\ Head(pipe) \notin CallbackCodes
    /\ TakeReply /\ stack' = Popped
    /\ UNCHANGED <<waitFuncCallResult, quit, handlers, fault>>
    /\ UNCHANGED serverVars

\* A reply: WaitReadMessage returns on the code it waits for and the API
\* function reads the payload.  No function waits for a code the server pushes
\* callbacks with: the setters that wait for TransReply and OrderStatus are
\* never answered and never register, so the loop's test concerns replies only.
Return ==
    /\ Running /\ AtTop("body") /\ avail > 0
    /\ Top.fn = "WaitReadMessage" /\ Head(pipe) = Top.fcode
    /\ Head(pipe) \notin CallbackCodes
    /\ TakeReply /\ stack' = Popped
    /\ waitFuncCallResult' = FALSE
    /\ UNCHANGED <<quit, handlers, fault>>
    /\ UNCHANGED serverVars

\* Any other reply: the Q_ASSERT of either reader fails.
WrongReply ==
    /\ Running /\ AtTop("body") /\ avail > 0
    /\ Head(pipe) \notin CallbackCodes
    /\ Top.fn = "WaitRead" \/ Head(pipe) # Top.fcode
    /\ fault' = "assert"
    /\ UNCHANGED <<stack, waitFuncCallResult, quit, handlers>>
    /\ UNCHANGED streamVars /\ UNCHANGED serverVars

Step == \/ ExecReturns \/ WaitForBytes \/ ReadSize \/ RunCallback
        \/ CallbackReturns \/ SkipCallback \/ Return \/ WrongReply

-----------------------------------------------------------------------------
(***************************************************************************)
(* The server.  These are the steps T2QService allows it; it may take them *)
(* when it likes, and stop, as it does behind the stray words of a setter. *)
(***************************************************************************)
\* The DLL registers the callback or drops it.
Registered(r) ==
    CASE r.code # SetConnStatus -> dllCallbacks
      [] r.code = SetConnStatus /\ r.isSet = "yes" -> dllCallbacks \cup {ConnStatus}
      [] r.code = SetConnStatus /\ r.isSet # "yes" -> dllCallbacks \ {ConnStatus}

\* It does so some time before the server answers, and may report in between.
Register ==
    /\ requests # <<>> /\ Head(requests).code = SetConnStatus
    /\ dllCallbacks' = Registered(Head(requests))
    /\ UNCHANGED <<requests, connected>>
    /\ UNCHANGED clientVars /\ UNCHANGED streamVars

\* Defect: a case without a break, two replies to one request.
AnswerTwice ==
    /\ connected
    /\ requests # <<>> /\ Head(requests).code \notin Unanswered
    /\ LET r == Head(requests)
       IN  /\ pipe' = pipe \o <<ReplyCode(r.code), ReplyCode(r.code)>>
           /\ dllCallbacks' = Registered(r)
    /\ requests' = Tail(requests)
    /\ UNCHANGED <<avail, rest, connected>> /\ UNCHANGED clientVars

\* A case of processMessages.
Answer ==
    /\ connected
    /\ requests # <<>> /\ Head(requests).code \notin Unanswered
    /\ LET r == Head(requests)
       IN  /\ pipe' = Append(pipe, ReplyCode(r.code))
           /\ dllCallbacks' = Registered(r)
    /\ requests' = Tail(requests)
    /\ UNCHANGED <<avail, rest, connected>> /\ UNCHANGED clientVars

\* No case, or no one to answer.
Drop ==
    /\ requests # <<>>
    /\ Head(requests).code \in Unanswered \/ ~connected
    /\ requests' = Tail(requests)
    /\ UNCHANGED <<dllCallbacks, connected>>
    /\ UNCHANGED clientVars /\ UNCHANGED streamVars

\* The DLL calls a registered callback; the server pushes it to the client.
Push ==
    /\ connected /\ Len(pipe) < MaxPipe
    /\ \E k \in dllCallbacks : pipe' = Append(pipe, k)
    /\ UNCHANGED <<avail, rest>>
    /\ UNCHANGED clientVars /\ UNCHANGED serverVars

-----------------------------------------------------------------------------
Init ==
    /\ stack = <<>>
    /\ waitFuncCallResult = FALSE
    /\ quit = FALSE
    /\ handlers = {}
    /\ fault = "none"
    /\ pipe = <<>>
    /\ avail = 0
    /\ rest = "none"
    /\ requests = <<>>
    /\ dllCallbacks = PriorRegistrations
    /\ connected = TRUE

Call == \/ \E c \in Functions : CallFunction(c)
        \/ \E k \in Settable : SetHandler(k) \/ ResetHandler(k)

Next == \/ Call \/ Receive \/ Step
        \/ Register \/ Answer \/ Drop \/ Push \/ Lose

Spec == Init /\ [][Next]_vars

\* The client runs and its event loop handles what arrives.  The application
\* need not call, the server need not answer and the DLL need not report.
Fairness == WF_vars(Receive) /\ WF_vars(Step)

FairSpec == Spec /\ Fairness

-----------------------------------------------------------------------------
TypeOK ==
    /\ stack \in Seq(Frame)
    /\ waitFuncCallResult \in BOOLEAN
    /\ quit \in BOOLEAN
    /\ handlers \subseteq CallbackCodes
    /\ fault \in {"none", "assert", "starved"}
    /\ pipe \in Seq(StreamCodes)
    /\ avail \in Nat
    /\ rest \in {"none", "body", "payload"}
    /\ requests \in Seq(Request)
    /\ dllCallbacks \subseteq {ConnStatus}
    /\ connected \in BOOLEAN

(***************************************************************************)
(* Safety.                                                                 *)
(***************************************************************************)
\* The Q_ASSERTs of WaitRead and WaitReadMessage hold: a reader never meets a
\* reply it does not wait for, and never reads payload as a message.
NoAssertFails == fault # "assert"

\* The only Q_ASSERT that can fail is that of a function the server answers
\* under the code of another: WaitRead never takes a reply, no function takes
\* the reply of another, and no reader reads payload as a message.
OnlyMisanswered ==
    fault = "assert" =>
        Top.fn = "WaitReadMessage" /\ ReplyCode(Top.fcode) # Top.fcode

\* No reader reads a code word as a size.
NoReaderStarves == fault # "starved"

\* If one does, it is not because a reader was half way through that message:
\* WaitRead and WaitReadMessage never take their turns inside one another.
ReadersApart ==
    fault = "starved" =>
        \A i \in DOMAIN stack : stack[i].pc \notin {"body", "execBody"}

Waiting == {i \in DOMAIN stack : stack[i].fn = "WaitReadMessage"}

\* _wait_func_call_result is up exactly while a function waits, so that
\* WaitRead ("some func already waits") never takes a waiting call's bytes.
FlagMeansWaiting == waitFuncCallResult <=> Waiting # {}

\* The flag is never left up by a call that is over: pushed callbacks would
\* never be read again.
FlagHasCaller == waitFuncCallResult => Waiting # {}

Replies == {i \in DOMAIN pipe : pipe[i] \notin CallbackCodes}

\* Every request or reply under way is owed to a call still on the stack: no
\* call leaves its reply behind for the next one to find.
ReplyHasCaller ==
    Len(requests) + Cardinality(Replies) <= Cardinality(Waiting)

\* A callback message finds its handler set: CallbackIfNeeded always reads the
\* payload, whatever was registered when the message was pushed.
HandlerInstalled ==
    \A i \in DOMAIN pipe : pipe[i] \in CallbackCodes => pipe[i] \in handlers

(***************************************************************************)
(* Liveness.                                                               *)
(***************************************************************************)
\* A call whose reply is on its way returns.
CallsReturn == Replies # {} ~> Waiting = {}

\* A call that has missed the wake-up for its reply is freed by later traffic.
TrafficFreesCalls == []<><<Receive>>_vars => CallsReturn

\* WaitRead reads its message and returns to the emission it runs in.
SlotReturns == Emitting ~> ~Emitting

=============================================================================
