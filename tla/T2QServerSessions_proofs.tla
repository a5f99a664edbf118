----------------------- MODULE T2QServerSessions_proofs -----------------------
(***************************************************************************)
(* Proofs about T2QServer when clients come one after the other, all but   *)
(* one of them send whole requests the server knows, and the DLL calls     *)
(* back on the main thread: the server uses no socket that has gone, stays *)
(* at message boundaries, and does not go round in a loop that cannot wait.*)
(***************************************************************************)
EXTENDS T2QServer_proofs

\* The one rogue may be any of them.
Sessions == /\ DllThread = FALSE /\ Overlapping = FALSE
            /\ \A c, d \in Rogues : c = d

-----------------------------------------------------------------------------
(***************************************************************************)
(* The inductive invariant.  A frame is in turn while it reads the requests*)
(* of the client that is connected.  Only the rogue can have a frame that  *)
(* waits; it is at the bottom, it is woken only by the return of a frame   *)
(* above it, and finds nothing then, because that frame has read all.      *)
(***************************************************************************)
NothingThere == curConnection # Null /\ avail[curConnection] = 0

InTurn(f) ==
    /\ f.conn = curConnection /\ curConnection # Null
    /\ link[curConnection] = "open"
    /\ f.pc \in {"size", "body", "dll", "reply", "stray", "next"}
    /\ f.pc = "size" => avail[curConnection] > 0
    /\ rest[curConnection] = "body" <=> f.pc = "body"
    /\ IF f.conn \in Rogues
       THEN f.pc \notin {"size", "body"} => avail[curConnection] = 0
       ELSE /\ f.pc # "stray"
            /\ f.pc \in {"dll", "reply"} => ~Strays(f.request)

Left(f) ==
    /\ f.conn \in Rogues
    /\ f.pc = "execBody" \/ (f.pc = "body" /\ NothingThere)

Below ==
    \/ Len(stack) = 1
    \/ /\ Len(stack) = 2 /\ Top.conn \notin Rogues
       /\ stack[1].conn \in Rogues /\ stack[1].pc = "execBody"

TurnInv ==
    /\ stack # <<>> => Below /\ (InTurn(Top) \/ (Len(stack) = 1 /\ Left(Top)))
    /\ quit => Len(stack) = 1 /\ AtTop("execBody") /\ NothingThere

Known(r) == ~Strays(r) /\ r.code \notin Unanswered

WholeInv(c) ==
    /\ (avail[c] + (IF rest[c] = "none" THEN 0 ELSE 1)) % 2 = 0
    /\ rest[c] = "body" => AtTop("body") /\ c = curConnection
    /\ \A i \in DOMAIN pending[c] : Known(pending[c][i])

RogueInv(c) ==
    /\ Len(pending[c]) <= 1
    /\ rest[c] = "body" => Emitting(c)

ClientsInv ==
    \A c \in Connections :
        /\ link[c] = "open" => c = curConnection
        /\ c \notin Rogues => WholeInv(c)
        /\ c \in Rogues => RogueInv(c)

SessionInv ==
    /\ ServerInv
    /\ fault = "none"
    /\ Main.pc = "tested" => curConnection # Null
    /\ TurnInv
    /\ ClientsInv

-----------------------------------------------------------------------------
\* What the invariant says of the running frame.
LEMMA Turn ==
  ASSUME SessionInv, stack # <<>>
  PROVE  /\ Len(stack) \in {1, 2} /\ Top \in Frame /\ Below
         /\ curConnection # Null => curConnection \in Connections
         /\ InTurn(Top) \/ (Len(stack) = 1 /\ Left(Top))
         /\ Top.conn \in Rogues => Len(stack) = 1
  BY TopOfStack DEF SessionInv, ServerInv, SocketState, TurnInv, Below

LEMMA Sockets ==
  ASSUME SessionInv, NEW c \in Connections
  PROVE  /\ avail[c] \in Nat /\ rest[c] \in {"none", "body"}
         /\ pending[c] \in Seq(Request) /\ link[c] \in Links
         /\ Fits(avail[c], rest[c], pending[c]) /\ Len(pending[c]) \in Nat
         /\ link[c] = "open" => c = curConnection
         /\ c \notin Rogues => WholeInv(c)
         /\ c \in Rogues => RogueInv(c)
  BY SocketFacts DEF SessionInv, ServerInv, ClientsInv

\* A client that sends whole requests and is half way through one has the
\* rest of it in the buffer.
LEMMA HalfOfWhole ==
  ASSUME SessionInv, NEW c \in Connections, c \notin Rogues, rest[c] = "body"
  PROVE  avail[c] > 0
  <1>1. avail[c] \in Nat /\ (avail[c] + 1) % 2 = 0
    BY Sockets DEF WholeInv
  <1> QED BY <1>1

\* A frame that does not find what it waits for is the rogue's.
LEMMA WaitsAlone ==
  ASSUME SessionInv, stack # <<>>, Top.pc \in {"size", "body"}, ~BytesAvailable
  PROVE  /\ Top.pc = "body" /\ Top.conn \in Rogues /\ Len(stack) = 1 /\ NothingThere
         /\ \A c \in Connections \ Rogues : rest[c] = "none"
  <1>1. curConnection \in Connections /\ avail[curConnection] \in Nat
    BY Turn, Sockets DEF InTurn, Left, NothingThere
  <1>2. NothingThere
    BY <1>1, ServerAssumption DEF BytesAvailable, NothingThere
  <1>3. ASSUME InTurn(Top) PROVE Top.pc = "body" /\ Top.conn \in Rogues
    BY <1>1, <1>2, <1>3, HalfOfWhole DEF InTurn, NothingThere
  <1>4. Top.pc = "body" /\ Top.conn \in Rogues /\ Len(stack) = 1
    BY <1>3, Turn DEF Left
  <1>5. \A c \in Connections \ Rogues : rest[c] = "none"
    <2> SUFFICES ASSUME NEW c \in Connections, c \notin Rogues, rest[c] # "none" PROVE FALSE
      OBVIOUS
    <2>1. rest[c] = "body" /\ c = curConnection
      BY Sockets DEF WholeInv
    <2> QED BY <1>2, <2>1, HalfOfWhole DEF NothingThere
  <1> QED BY <1>2, <1>4, <1>5

LEMMA SessionSafe == SessionInv => ConnectionsAlive /\ fault # "misread" /\ NeverSpins
  <1> SUFFICES ASSUME SessionInv PROVE NeverSpins
    BY DEF SessionInv, ConnectionsAlive
  <1> SUFFICES ASSUME LoopRunning, curConnection # Null, avail[curConnection] = 0,
                      AtTop("size") \/ AtTop("body")
               PROVE  FALSE
    BY DEF NeverSpins
  <1>1. stack # <<>> /\ Top.pc \in {"size", "body"} /\ ~BytesAvailable
    BY DEF AtTop, BytesAvailable
  <1>2. Len(stack) = 1 /\ Top.pc = "body"
    BY <1>1, WaitsAlone
  <1>3. stack \in Seq(Frame)
    BY DEF SessionInv, ServerInv, StackInv
  <1> QED BY <1>2, <1>3 DEF LoopRunning, InExec, Top

-----------------------------------------------------------------------------
(***************************************************************************)
(* Steps that change the running frame only.                               *)
(***************************************************************************)
LEMMA TopReplaced ==
  ASSUME SessionInv, stack # <<>>, NEW f, f.conn = Top.conn,
         stack' = [stack EXCEPT ![Len(stack)] = f]
  PROVE  /\ stack' # <<>> /\ Len(stack') = Len(stack) /\ Top' = f
         /\ Len(stack) = 2 => stack'[1] = stack[1]
         /\ Below'
         /\ \A c \in Connections : Emitting(c)' <=> Emitting(c)
  <1>1. /\ stack \in Seq(Frame) /\ Len(stack) \in {1, 2} /\ Below
    BY Turn DEF SessionInv, ServerInv, StackInv
  <1>2. /\ stack' # <<>> /\ Len(stack') = Len(stack) /\ Top' = f
        /\ DOMAIN stack' = DOMAIN stack /\ Len(stack) \in DOMAIN stack
        /\ \A i \in DOMAIN stack : stack'[i] = IF i = Len(stack) THEN f ELSE stack[i]
    BY <1>1 DEF Top
  <1>3. Len(stack) = 2 => stack'[1] = stack[1]
    BY <1>1, <1>2
  <1>4. Below'
    BY <1>1, <1>2, <1>3 DEF Below
  <1>5. \A i \in DOMAIN stack : stack'[i].conn = stack[i].conn
    BY <1>2 DEF Top
  <1> QED BY <1>2, <1>3, <1>4, <1>5 DEF Emitting

LEMMA TopMoved ==
  ASSUME SessionInv, stack # <<>>, NEW p, Goto(p)
  PROVE  /\ stack' # <<>> /\ Len(stack') = Len(stack)
         /\ Top'.pc = p /\ Top'.conn = Top.conn /\ Top'.request = Top.request
         /\ Below'
         /\ \A c \in Connections : Emitting(c)' <=> Emitting(c)
  <1> DEFINE f == [Top EXCEPT !.pc = p]
  <1>1. f.pc = p /\ f.conn = Top.conn /\ f.request = Top.request
    BY Turn DEF Frame
  <1>2. stack' = [stack EXCEPT ![Len(stack)] = f]
    BY DEF Goto, Top
  <1> HIDE DEF f
  <1> QED BY <1>1, <1>2, TopReplaced

\* A running frame does not leave an earlier quit() behind.
LEMMA NotQuit ==
  ASSUME SessionInv, ~AtTop("execBody") PROVE ~quit
  BY DEF SessionInv, TurnInv

\* The clients see nothing of a step that leaves their sockets alone.
LEMMA ClientsKept ==
  ASSUME ClientsInv, UNCHANGED <<link, pending, avail, rest, curConnection>>,
         \A c \in Connections \ Rogues : rest[c] = "body" => AtTop("body")',
         \A c \in Connections : Emitting(c) => Emitting(c)'
  PROVE  ClientsInv'
  BY DEF ClientsInv, WholeInv, RogueInv

\* In a loop, or past the reading of a request, no whole request is half read.
LEMMA NoneHalfRead ==
  ASSUME SessionInv, ~AtTop("body"), NEW c \in Connections, c \notin Rogues
  PROVE  rest[c] = "none"
  BY Sockets DEF WholeInv

\* An event finds no frame, or the rogue's in the loop.
LEMMA AtEvent ==
  ASSUME SessionInv, InEventLoop
  PROVE  /\ ~quit /\ ~AtTop("body") /\ Main.pc = "idle"
         /\ stack # <<>> => /\ Len(stack) = 1 /\ Top.conn \in Rogues
                            /\ Top.pc = "execBody"
  <1>1. stack # <<>> => Top.pc \in {"execSize", "execBody"} /\ ~quit
    BY DEF InEventLoop, AtTop
  <1>2. stack # <<>> => Len(stack) = 1 /\ Top.conn \in Rogues /\ Top.pc = "execBody"
    BY <1>1, Turn DEF InTurn, Left
  <1>3. ~quit
    BY <1>1 DEF SessionInv, TurnInv, AtTop
  <1> QED BY <1>2, <1>3 DEF InEventLoop, ThreadIdle, AtStep, Main, AtTop

-----------------------------------------------------------------------------
(***************************************************************************)
(* The clients and the network.                                            *)
(***************************************************************************)
\* An event that leaves the stack alone.
LEMMA EventTurn ==
  ASSUME SessionInv, InEventLoop, UNCHANGED <<stack, quit>>
  PROVE  TurnInv'
  BY AtEvent DEF TurnInv, SessionInv, Below, Left, Top

LEMMA AskSession ==
  ASSUME SessionInv, ServerInv', NEW c \in Connections, Ask(c)
  PROVE  SessionInv'
  <1>1. PICK r \in Request :
           /\ (r.isSet = "none") <=> (r.code \in Functions)
           /\ Strays(r) => c \in Rogues
           /\ pending' = [pending EXCEPT ![c] = Append(@, r)]
    BY DEF Ask
  <1>2. /\ UNCHANGED <<link, avail, rest, curConnection, down, stack, quit, fault, job>>
        /\ c \in Rogues => Awaiting(c) = <<>>
    BY DEF Ask, frameVars, sendVars
  <1>3. c \notin Rogues => Known(r)
    BY <1>1, ServerAssumption DEF Known, Strays, Unanswered, SetConnStatus, CallbackCodes,
       ConnStatus, TransReply, OrderStatus, TradeStatus
  <1>4. c \in Rogues => pending[c] = <<>>
    <2>1. pending[c] \in Seq(Request)
      BY Sockets
    <2>2. Executing(c) = <<>> \/ Executing(c) = <<Top.request>>
      BY DEF Executing
    <2> QED BY <1>2, <2>1, <2>2 DEF Awaiting
  <1>5. TurnInv'
    BY <1>2 DEF SessionInv, TurnInv, Below, InTurn, Left, NothingThere, Top, AtTop
  <1>6. ClientsInv'
    <2> SUFFICES ASSUME NEW d \in Connections
                 PROVE  /\ link'[d] = "open" => d = curConnection'
                        /\ d \notin Rogues => WholeInv(d)'
                        /\ d \in Rogues => RogueInv(d)'
      BY DEF ClientsInv
    <2>1. /\ pending[d] \in Seq(Request)
          /\ d \notin Rogues => WholeInv(d)
          /\ d \in Rogues => RogueInv(d)
          /\ link[d] = "open" => d = curConnection
      BY Sockets
    <2>2. pending \in [Connections -> Seq(Request)]
      BY DEF SessionInv, ServerInv, SocketState
    <2>3. pending'[d] = IF d = c THEN Append(pending[d], r) ELSE pending[d]
      BY <1>1, <2>2
    <2>4. d \notin Rogues => \A i \in DOMAIN pending'[d] : Known(pending'[d][i])
      BY <1>3, <2>1, <2>3 DEF WholeInv
    <2>5. d \in Rogues => Len(pending'[d]) <= 1
      BY <1>4, <2>1, <2>3 DEF RogueInv
    <2>6. (AtTop("body") <=> AtTop("body")') /\ (Emitting(d) <=> Emitting(d)')
      BY <1>2 DEF AtTop, Top, Emitting
    <2> QED BY <1>2, <2>1, <2>4, <2>5, <2>6 DEF WholeInv, RogueInv
  <1>7. Main' = Main
    BY <1>2 DEF Main
  <1> QED BY <1>2, <1>5, <1>6, <1>7 DEF SessionInv

LEMMA ReadSession ==
  ASSUME SessionInv, ServerInv', NEW c \in Connections, Read(c)
  PROVE  SessionInv'
  <1>1. UNCHANGED <<link, pending, avail, rest, curConnection, stack, quit, fault, job>>
    BY DEF Read, socketVars, frameVars, sendVars
  <1>2. TurnInv'
    BY <1>1 DEF SessionInv, TurnInv, Below, InTurn, Left, NothingThere, Top, AtTop
  <1>3. ClientsInv'
    BY <1>1 DEF SessionInv, ClientsInv, WholeInv, RogueInv, AtTop, Top, Emitting
  <1> QED BY <1>1, <1>2, <1>3 DEF SessionInv, Main

LEMMA ConnectedSession ==
  ASSUME Sessions, SessionInv, ServerInv', NEW c \in Connections, ClientConnected(c)
  PROVE  SessionInv'
  <1>1. /\ InEventLoop /\ \A d \in Connections : link[d] # "open"
        /\ curConnection' = c /\ c # Null
        /\ link' = [link EXCEPT ![c] = "open"]
        /\ UNCHANGED <<pending, avail, rest, stack, quit, fault, job>>
    BY ServerAssumption DEF ClientConnected, Sessions, frameVars, sendVars
  <1>2. TurnInv'
    BY <1>1, EventTurn
  <1>3. ClientsInv'
    <2> SUFFICES ASSUME NEW d \in Connections
                 PROVE  /\ link'[d] = "open" => d = curConnection'
                        /\ d \notin Rogues => WholeInv(d)'
                        /\ d \in Rogues => RogueInv(d)'
      BY DEF ClientsInv
    <2>1. link'[d] = "open" => d = c
      BY <1>1 DEF SessionInv, ServerInv, SocketState
    <2>2. d \notin Rogues => rest[d] = "none" /\ WholeInv(d)
      BY <1>1, AtEvent, NoneHalfRead, Sockets
    <2>3. d \in Rogues => RogueInv(d)
      BY Sockets
    <2> QED BY <1>1, <2>1, <2>2, <2>3 DEF WholeInv, RogueInv, Emitting
  <1> QED BY <1>1, <1>2, <1>3 DEF SessionInv, Main

LEMMA DisconnectedSession ==
  ASSUME SessionInv, ServerInv', NEW c \in Connections, Disconnected(c)
  PROVE  SessionInv'
  <1> DEFINE p == SubSeq(pending[c], 1, Received(c))
             l == IF stack = <<>> THEN "closing" ELSE "closingInLoop"
  <1>1. /\ InEventLoop /\ link' = [link EXCEPT ![c] = l] /\ l # "open"
        /\ pending' = [pending EXCEPT ![c] = p]
        /\ UNCHANGED <<avail, rest, curConnection, stack, quit, fault, job>>
    BY DEF Disconnected, frameVars, sendVars
  <1>2. TurnInv'
    BY <1>1, EventTurn
  <1>3. /\ Len(p) <= Len(pending[c])
        /\ \A i \in DOMAIN p : i \in DOMAIN pending[c] /\ p[i] = pending[c][i]
    <2>1. Received(c) \in 0 .. Len(pending[c]) /\ pending[c] \in Seq(Request)
      BY ReceivedPart, Sockets DEF SessionInv, ServerInv
    <2> QED BY <2>1, Front
  <1> HIDE DEF p, l
  <1>4. ClientsInv'
    <2> SUFFICES ASSUME NEW d \in Connections
                 PROVE  /\ link'[d] = "open" => d = curConnection'
                        /\ d \notin Rogues => WholeInv(d)'
                        /\ d \in Rogues => RogueInv(d)'
      BY DEF ClientsInv
    <2>1. /\ link'[d] = IF d = c THEN l ELSE link[d]
          /\ pending'[d] = IF d = c THEN p ELSE pending[d]
      BY <1>1 DEF SessionInv, ServerInv, SocketState
    <2>2. link'[d] = "open" => d = curConnection
      BY <1>1, <2>1, Sockets
    <2>3. d \notin Rogues => rest[d] = "none" /\ WholeInv(d)
      BY <1>1, AtEvent, NoneHalfRead, Sockets
    <2>4. d \notin Rogues => \A i \in DOMAIN pending'[d] : Known(pending'[d][i])
      BY <1>3, <2>1, <2>3 DEF WholeInv
    <2>5. d \in Rogues => RogueInv(d)
      BY Sockets
    <2>6. d \in Rogues => Len(pending'[d]) <= 1
      <3>1. d = c => Len(p) \in Nat /\ Len(pending[c]) \in Nat
        BY Sockets, ReceivedPart DEF SessionInv, ServerInv, p
      <3> QED BY <1>3, <2>1, <2>5, <3>1 DEF RogueInv
    <2> QED BY <1>1, <2>2, <2>3, <2>4, <2>5, <2>6 DEF WholeInv, RogueInv, Emitting
  <1> QED BY <1>1, <1>2, <1>4 DEF SessionInv, Main

LEMMA DeletedSession ==
  ASSUME SessionInv, ServerInv', NEW c \in Connections, Deleted(c)
  PROVE  SessionInv'
  <1>1. /\ InEventLoop /\ link[c] # "open"
        /\ link' = [link EXCEPT ![c] = "deleted"]
        /\ curConnection' = IF curConnection = c THEN Null ELSE curConnection
        /\ pending' = [pending EXCEPT ![c] = <<>>]
        /\ avail' = [avail EXCEPT ![c] = 0]
        /\ rest' = [rest EXCEPT ![c] = "none"]
        /\ UNCHANGED <<stack, quit, fault, job>>
    BY DEF Deleted, frameVars, sendVars
  <1>2. TurnInv'
    BY <1>1, EventTurn
  <1>3. ClientsInv'
    <2> SUFFICES ASSUME NEW d \in Connections
                 PROVE  /\ link'[d] = "open" => d = curConnection'
                        /\ d \notin Rogues => WholeInv(d)'
                        /\ d \in Rogues => RogueInv(d)'
      BY DEF ClientsInv
    <2>1. /\ link'[d] = IF d = c THEN "deleted" ELSE link[d]
          /\ pending'[d] = IF d = c THEN <<>> ELSE pending[d]
          /\ avail'[d] = IF d = c THEN 0 ELSE avail[d]
          /\ rest'[d] = IF d = c THEN "none" ELSE rest[d]
      BY <1>1 DEF SessionInv, ServerInv, SocketState
    <2>2. link'[d] = "open" => d = curConnection'
      BY <1>1, <2>1, Sockets
    <2>3. d \notin Rogues => rest[d] = "none" /\ WholeInv(d)
      BY <1>1, AtEvent, NoneHalfRead, Sockets
    <2>4. d \in Rogues => RogueInv(d)
      BY Sockets
    <2>5. d \notin Rogues => WholeInv(d)'
      BY <2>1, <2>3 DEF WholeInv
    <2>6. d \in Rogues => RogueInv(d)'
      BY <1>1, <2>1, <2>4 DEF RogueInv, Emitting
    <2> QED BY <2>2, <2>5, <2>6
  <1>4. Main'.pc # "tested"
    BY <1>1, AtEvent DEF Main
  <1> QED BY <1>1, <1>2, <1>3, <1>4 DEF SessionInv

LEMMA ReceiveSession ==
  ASSUME Sessions, SessionInv, ServerInv', NEW c \in Connections, Receive(c)
  PROVE  SessionInv'
  <1> DEFINE f == [conn |-> c, request |-> NoRequest, pc |-> "size"]
  <1>1. PICK n \in 1 .. (Unread(c) - avail[c]) :
           /\ c \notin Rogues => (Unread(c) - avail[c] - n) % 2 = 0
           /\ avail' = [avail EXCEPT ![c] = @ + n]
    BY DEF Receive
  <1>2. /\ InEventLoop /\ link[c] = "open"
        /\ stack' = IF Emitting(c) THEN stack ELSE Append(stack, f)
        /\ UNCHANGED <<link, pending, rest, curConnection, quit, fault, job>>
    BY DEF Receive, sendVars
  <1>3. /\ c = curConnection /\ c # Null
        /\ avail[c] \in Nat /\ rest[c] \in {"none", "body"} /\ Len(pending[c]) \in Nat
        /\ avail'[c] = avail[c] + n /\ n \in Nat /\ n > 0
        /\ \A d \in Connections : d # c => avail'[d] = avail[d]
    <2>1. Unread(c) \in Int
      BY Sockets DEF Unread
    <2> QED BY <1>1, <1>2, <2>1, Sockets, ServerAssumption
        DEF SessionInv, ServerInv, SocketState
  <1>4. /\ f.conn = c /\ f.pc = "size"
    OBVIOUS
  <1> HIDE DEF f
  <1>5. /\ stack \in Seq(Frame) /\ Len(stack) \in {0, 1}
        /\ stack # <<>> => stack[1].conn \in Rogues /\ stack[1].pc = "execBody"
    BY <1>2, AtEvent DEF SessionInv, ServerInv, StackInv, Top
  <1>6. CASE Emitting(c)
    <2>1. stack # <<>> /\ stack' = stack
      BY <1>2, <1>6 DEF Emitting, SessionInv, ServerInv, StackInv
    <2>2. TurnInv'
      BY <1>2, <2>1, EventTurn
    <2>3. c \in Rogues
      BY <1>5, <1>6 DEF Emitting
    <2>4. ClientsInv'
      BY <1>2, <1>3, <2>1, <2>3, Sockets DEF ClientsInv, WholeInv, RogueInv, Emitting, AtTop, Top
    <2> QED BY <1>2, <2>2, <2>4 DEF SessionInv, Main
  <1>7. CASE ~Emitting(c)
    <2>1. /\ stack' = Append(stack, f) /\ Top' = f /\ stack' # <<>>
          /\ Len(stack') = Len(stack) + 1
          /\ \A i \in DOMAIN stack : i \in DOMAIN stack' /\ stack'[i] = stack[i]
      BY <1>2, <1>5, <1>7 DEF Top
    <2>2. stack # <<>> => c \notin Rogues
      BY <1>5, <1>7 DEF Emitting, Sessions
    <2>3. Below'
      BY <1>4, <1>5, <2>1, <2>2 DEF Below
    <2>4. rest[c] = "none"
      BY <1>2, <1>3, <1>7, AtEvent, Sockets DEF WholeInv, RogueInv
    <2>5. InTurn(f)'
      BY <1>2, <1>3, <1>4, <2>4 DEF InTurn
    <2>6. TurnInv'
      BY <1>2, <2>1, <2>3, <2>5, AtEvent DEF TurnInv
    <2>7. c \notin Rogues => (avail[c] + n) % 2 = 0
      BY <1>1, <1>3, <2>4, Sockets DEF Unread
    <2>8. ClientsInv'
      <3> SUFFICES ASSUME NEW d \in Connections
                   PROVE  /\ link'[d] = "open" => d = curConnection'
                          /\ d \notin Rogues => WholeInv(d)'
                          /\ d \in Rogues => RogueInv(d)'
        BY DEF ClientsInv
      <3>1. d \notin Rogues => rest[d] = "none" /\ WholeInv(d)
        BY <1>2, AtEvent, NoneHalfRead, Sockets
      <3>4. d \notin Rogues => (avail'[d] + 0) % 2 = 0
        <4>1. CASE d = c
          <5>1. avail'[d] + 0 = avail[c] + n
            BY <1>3, <4>1
          <5> QED BY <2>7, <4>1, <5>1
        <4>2. CASE d # c
          BY <1>3, <3>1, <4>2 DEF WholeInv
        <4> QED BY <4>1, <4>2
      <3>2. d \notin Rogues => WholeInv(d)'
        BY <1>2, <3>1, <3>4 DEF WholeInv
      <3>3. d \in Rogues => RogueInv(d)'
        BY <1>2, <2>1, Sockets DEF RogueInv, Emitting
      <3> QED BY <1>2, <3>2, <3>3, Sockets
    <2> QED BY <1>2, <2>6, <2>8 DEF SessionInv, Main
  <1> QED BY <1>6, <1>7

-----------------------------------------------------------------------------
(***************************************************************************)
(* processMessages.                                                        *)
(***************************************************************************)
\* A step of a frame that leaves the sockets alone, and is in turn after it.
LEMMA StaysInTurn ==
  ASSUME SessionInv, ServerInv', stack # <<>>, ~AtTop("body"), ~AtTop("execBody"),
         UNCHANGED socketVars, UNCHANGED <<quit, fault>>,
         Main'.pc = "tested" => curConnection # Null,
         NEW p, Goto(p), InTurn(Top)'
  PROVE  SessionInv'
  <1>1. /\ stack' # <<>> /\ Below' /\ \A c \in Connections : Emitting(c)' <=> Emitting(c)
    BY TopMoved
  <1>2. TurnInv'
    BY <1>1, NotQuit DEF TurnInv
  <1>3. ClientsInv'
    <2>1. \A c \in Connections \ Rogues : rest[c] = "none"
      BY NoneHalfRead
    <2> QED BY <1>1, <2>1, ClientsKept DEF SessionInv, socketVars
  <1> QED BY <1>2, <1>3 DEF SessionInv, socketVars

LEMMA RunningFrame ==
  ASSUME SessionInv, stack # <<>>, Top.pc \notin {"execSize", "execBody", "body"}
  PROVE  InTurn(Top) /\ ~AtTop("body") /\ ~AtTop("execBody")
  BY Turn DEF Left, AtTop

LEMMA ExecReturnsSession ==
  ASSUME SessionInv, ServerInv', ExecReturns
  PROVE  SessionInv'
  <1>1. /\ quit /\ stack # <<>> /\ quit' = FALSE
        /\ UNCHANGED <<fault, job>> /\ UNCHANGED socketVars
    BY DEF ExecReturns, Running, sendVars
  <1>2. /\ Len(stack) = 1 /\ Top.pc = "execBody" /\ NothingThere /\ Goto("body")
    BY <1>1 DEF ExecReturns, SessionInv, TurnInv, AtTop
  <1>3. Top.conn \in Rogues
    BY <1>1, <1>2, Turn DEF InTurn, Left
  <1>4. /\ stack' # <<>> /\ Len(stack') = 1 /\ Top'.pc = "body" /\ Top'.conn \in Rogues
        /\ Below' /\ \A c \in Connections : Emitting(c)' <=> Emitting(c)
    BY <1>1, <1>2, <1>3, TopMoved
  <1>5. NothingThere'
    BY <1>1, <1>2 DEF NothingThere, socketVars
  <1>6. TurnInv'
    BY <1>1, <1>4, <1>5 DEF TurnInv, Left
  <1>7. ClientsInv'
    <2>1. \A c \in Connections \ Rogues : rest[c] = "none"
      BY <1>2, NoneHalfRead DEF AtTop
    <2> QED BY <1>1, <1>4, <2>1, ClientsKept DEF SessionInv, socketVars
  <1> QED BY <1>1, <1>6, <1>7 DEF SessionInv, Main, socketVars

LEMMA WaitSession ==
  ASSUME SessionInv, ServerInv', WaitForBytes
  PROVE  SessionInv'
  <1>1. PICK p \in {"size", "body"} : AtTop(p) /\ ~BytesAvailable
                                      /\ Goto(Entered(p)) /\ quit' = QuitOnEntry
    BY DEF WaitForBytes
  <1>2. /\ stack # <<>> /\ Top.pc = "body" /\ p = "body" /\ Top.conn \in Rogues
        /\ Len(stack) = 1 /\ NothingThere
        /\ \A c \in Connections \ Rogues : rest[c] = "none"
    BY <1>1, WaitsAlone DEF AtTop
  <1>3. ~LoopRunning
    BY <1>2 DEF LoopRunning, InExec, Top, SessionInv, ServerInv, StackInv
  <1>4. Goto("execBody") /\ ~quit'
    BY <1>1, <1>2, <1>3 DEF Entered, QuitOnEntry
  <1>5. fault' = fault /\ UNCHANGED socketVars /\ UNCHANGED job
    BY <1>2 DEF WaitForBytes, NothingThere, sendVars
  <1>6. /\ stack' # <<>> /\ Len(stack') = 1 /\ Top'.pc = "execBody" /\ Top'.conn \in Rogues
        /\ Below' /\ \A c \in Connections : Emitting(c)' <=> Emitting(c)
    BY <1>2, <1>4, TopMoved
  <1>7. TurnInv'
    BY <1>4, <1>6 DEF TurnInv, Left
  <1>8. ClientsInv'
    BY <1>2, <1>5, <1>6, ClientsKept DEF SessionInv, socketVars
  <1> QED BY <1>5, <1>7, <1>8 DEF SessionInv, Main, socketVars

LEMMA ReadSizeSession ==
  ASSUME SessionInv, ServerInv', ReadSize
  PROVE  SessionInv'
  <1> DEFINE c == curConnection
  <1>1. /\ stack # <<>> /\ Top.pc = "size" /\ BytesAvailable /\ Goto("body")
        /\ rest' = [rest EXCEPT ![c] = "body"] /\ avail' = [avail EXCEPT ![c] = @ - 1]
        /\ UNCHANGED <<link, pending, curConnection, quit, job>>
    BY DEF ReadSize, AtTop, sendVars
  <1>2. /\ InTurn(Top) /\ c \in Connections /\ ~AtTop("body") /\ ~AtTop("execBody")
        /\ rest[c] = "none" /\ avail[c] \in Nat
    BY <1>1, RunningFrame, Turn, Sockets DEF InTurn
  <1>3. fault' = fault
    BY <1>2 DEF ReadSize
  <1>4. /\ stack' # <<>> /\ Top'.pc = "body" /\ Top'.conn = c /\ Below'
        /\ \A d \in Connections : Emitting(d)' <=> Emitting(d)
    BY <1>1, <1>2, TopMoved DEF InTurn
  <1>5. \A d \in Connections : /\ rest'[d] = IF d = c THEN "body" ELSE rest[d]
                               /\ avail'[d] = IF d = c THEN avail[d] - 1 ELSE avail[d]
    BY <1>1, <1>2 DEF SessionInv, ServerInv, SocketState
  <1>6. InTurn(Top)'
    BY <1>1, <1>2, <1>4, <1>5 DEF InTurn
  <1>7. TurnInv'
    BY <1>1, <1>2, <1>4, <1>6, NotQuit DEF TurnInv
  <1>8. Emitting(c)
    BY <1>1, <1>2, TopOfStack DEF InTurn, Emitting, SessionInv, ServerInv, Top
  <1>9. ClientsInv'
    <2> SUFFICES ASSUME NEW d \in Connections
                 PROVE  /\ link'[d] = "open" => d = curConnection'
                        /\ d \notin Rogues => WholeInv(d)'
                        /\ d \in Rogues => RogueInv(d)'
      BY DEF ClientsInv
    <2>1. ASSUME d \notin Rogues PROVE WholeInv(d)'
      <3>1. WholeInv(d) /\ rest[d] = "none" /\ avail[d] \in Nat
        BY <1>2, <2>1, NoneHalfRead, Sockets
      <3>2. avail[d] % 2 = 0
        BY <3>1 DEF WholeInv
      <3>3. (avail'[d] + (IF rest'[d] = "none" THEN 0 ELSE 1)) % 2 = 0
        <4>1. CASE d = c
          BY <1>5, <3>1, <3>2, <4>1
        <4>2. CASE d # c
          BY <1>5, <3>1, <3>2, <4>2
        <4> QED BY <4>1, <4>2
      <3>4. rest'[d] = "body" => AtTop("body")' /\ d = curConnection'
        BY <1>1, <1>4, <1>5, <3>1 DEF AtTop
      <3> QED BY <1>1, <3>1, <3>3, <3>4 DEF WholeInv
    <2>2. ASSUME d \in Rogues PROVE RogueInv(d)'
      BY <1>1, <1>4, <1>5, <1>8, <2>2, Sockets DEF RogueInv
    <2> QED BY <1>1, <2>1, <2>2, Sockets
  <1> QED BY <1>1, <1>3, <1>7, <1>9 DEF SessionInv, Main

LEMMA ReadRequestSession ==
  ASSUME SessionInv, ServerInv', ReadRequest
  PROVE  SessionInv'
  <1> DEFINE c == curConnection
             r == Head(pending[c])
             p == IF r.code \in Unanswered THEN "stray" ELSE "dll"
             f == [Top EXCEPT !.request = r, !.pc = p]
  <1>1. /\ stack # <<>> /\ Top.pc = "body" /\ BytesAvailable
        /\ UNCHANGED <<link, curConnection, quit, job>>
    BY DEF ReadRequest, Running, AtTop, sendVars
  <1>2. /\ InTurn(Top) /\ c \in Connections /\ rest[c] = "body"
    BY <1>1, Turn DEF InTurn, Left, NothingThere, BytesAvailable
  <1>3. Consume(c) /\ stack' = [stack EXCEPT ![Len(stack)] = f] /\ fault' = fault
    BY <1>2 DEF ReadRequest, Top
  <1>4. /\ pending[c] \in Seq(Request) /\ Len(pending[c]) \in Nat /\ pending[c] # <<>>
        /\ avail[c] \in Nat /\ avail[c] > 0 /\ avail[c] <= 2 * Len(pending[c]) - 1
    BY <1>1, <1>2, Sockets, FitsRule DEF Fits, BytesAvailable
  <1>5. /\ f.pc = p /\ f.conn = c /\ f.request = r
    BY <1>1, <1>2, Turn DEF Frame, InTurn
  <1>6. \A d \in Connections :
           /\ pending'[d] = IF d = c THEN Tail(pending[d]) ELSE pending[d]
           /\ avail'[d] = IF d = c THEN avail[d] - 1 ELSE avail[d]
           /\ rest'[d] = IF d = c THEN "none" ELSE rest[d]
    BY <1>2, <1>3 DEF Consume, SessionInv, ServerInv, SocketState
  <1>7. c \notin Rogues => Known(r)
    <2>1. r = pending[c][1] /\ 1 \in DOMAIN pending[c]
      BY <1>4
    <2> QED BY <1>2, <2>1, Sockets DEF WholeInv
  <1>8. c \in Rogues => avail'[c] = 0
    <2>1. c \in Rogues => Len(pending[c]) <= 1
      BY <1>2, Sockets DEF RogueInv
    <2> QED BY <1>2, <1>4, <1>6, <2>1
  <1> HIDE DEF f
  <1>9. /\ stack' # <<>> /\ Top' = f /\ Below'
        /\ \A d \in Connections : Emitting(d)' <=> Emitting(d)
    BY <1>1, <1>2, <1>3, <1>5, TopReplaced DEF InTurn
  <1>10. InTurn(Top)'
    <2>1. f.conn \notin Rogues => f.pc = "dll" /\ ~Strays(f.request)
      BY <1>5, <1>7 DEF Known
    <2>2. /\ f.conn = curConnection' /\ curConnection' # Null /\ f.pc \in {"dll", "stray"}
          /\ link'[curConnection'] = "open" /\ rest'[curConnection'] = "none"
      BY <1>1, <1>2, <1>5, <1>6 DEF InTurn
    <2>3. f.conn \in Rogues => avail'[curConnection'] = 0
      BY <1>1, <1>5, <1>8
    <2> QED BY <1>9, <2>1, <2>2, <2>3 DEF InTurn
  <1>11. TurnInv'
    BY <1>1, <1>9, <1>10, NotQuit DEF TurnInv, AtTop
  <1>12. ClientsInv'
    <2> SUFFICES ASSUME NEW d \in Connections
                 PROVE  /\ link'[d] = "open" => d = curConnection'
                        /\ d \notin Rogues => WholeInv(d)'
                        /\ d \in Rogues => RogueInv(d)'
      BY DEF ClientsInv
    <2>1. ASSUME d \notin Rogues PROVE WholeInv(d)'
      <3>1. WholeInv(d) /\ avail[d] \in Nat /\ pending[d] \in Seq(Request)
        BY <2>1, Sockets
      <3>2. rest'[d] = "none"
        BY <1>6, <3>1, Sockets DEF WholeInv
      <3>3. (avail'[d] + 0) % 2 = 0
        <4>1. CASE d = c
          <5>1. (avail[c] + 1) % 2 = 0
            BY <1>2, <3>1, <4>1 DEF WholeInv
          <5> QED BY <1>4, <1>6, <4>1, <5>1
        <4>2. CASE d # c
          <5>1. rest[d] = "none"
            BY <3>1, <4>2, Sockets DEF WholeInv
          <5> QED BY <1>6, <3>1, <4>2, <5>1 DEF WholeInv
        <4> QED BY <4>1, <4>2
      <3>4. \A i \in DOMAIN pending'[d] : Known(pending'[d][i])
        <4>1. CASE d = c
          <5>1. \A i \in DOMAIN Tail(pending[c]) :
                   i + 1 \in DOMAIN pending[c] /\ Tail(pending[c])[i] = pending[c][i + 1]
            BY <1>4
          <5> QED BY <1>6, <3>1, <4>1, <5>1 DEF WholeInv
        <4>2. CASE d # c
          BY <1>6, <3>1, <4>2 DEF WholeInv
        <4> QED BY <4>1, <4>2
      <3> QED BY <3>2, <3>3, <3>4 DEF WholeInv
    <2>2. ASSUME d \in Rogues PROVE RogueInv(d)'
      <3>1. RogueInv(d) /\ Len(pending[d]) \in Nat
        BY <2>2, Sockets
      <3>2. Len(pending'[d]) <= 1
        <4>1. CASE d = c
          <5>1. Len(Tail(pending[c])) = Len(pending[c]) - 1
            BY <1>4
          <5>2. pending'[d] = Tail(pending[c]) /\ Len(pending[c]) <= 1
            BY <1>6, <3>1, <4>1 DEF RogueInv
          <5> QED BY <1>4, <5>1, <5>2
        <4>2. CASE d # c
          BY <1>6, <3>1, <4>2 DEF RogueInv
        <4> QED BY <4>1, <4>2
      <3> QED BY <1>6, <1>9, <3>1, <3>2 DEF RogueInv
    <2> QED BY <1>1, <2>1, <2>2, Sockets
  <1> QED BY <1>1, <1>3, <1>11, <1>12 DEF SessionInv, Main

LEMMA DllReturnsSession ==
  ASSUME SessionInv, ServerInv', DllReturns
  PROVE  SessionInv'
  <1>1. /\ stack # <<>> /\ Top.pc = "dll" /\ Goto("reply")
        /\ UNCHANGED <<quit, fault>> /\ UNCHANGED socketVars
    BY DEF DllReturns, Running, AtTop
  <1>2. InTurn(Top) /\ ~AtTop("body") /\ ~AtTop("execBody")
    BY <1>1, RunningFrame
  <1>3. InTurn(Top)'
    BY <1>1, <1>2, TopMoved DEF InTurn, socketVars
  <1>4. Main'.pc # "tested"
    BY MainTyped DEF DllReturns, Begin, Main, Idle, SessionInv, ServerInv
  <1> QED BY <1>1, <1>2, <1>3, <1>4, StaysInTurn

LEMMA WriteReplySession ==
  ASSUME SessionInv, ServerInv', WriteReply
  PROVE  SessionInv'
  <1> DEFINE p == IF Strays(Top.request) THEN "stray" ELSE "next"
  <1>1. /\ stack # <<>> /\ Top.pc = "reply" /\ Goto(p) /\ Write /\ End("main")
        /\ quit' = quit /\ UNCHANGED socketVars
    BY DEF WriteReply, AtTop
  <1>2. InTurn(Top) /\ ~AtTop("body") /\ ~AtTop("execBody")
    BY <1>1, RunningFrame
  <1>3. fault' = fault
    BY <1>1, <1>2 DEF Write, InTurn
  <1>4. InTurn(Top)'
    <2>1. Top'.pc = p /\ Top'.conn = Top.conn
      BY <1>1, TopMoved
    <2> QED BY <1>1, <1>2, <2>1 DEF InTurn, socketVars
  <1>5. Main'.pc # "tested"
    BY <1>1, MainTyped DEF End, Main, Idle, SessionInv, ServerInv
  <1> QED BY <1>1, <1>2, <1>3, <1>4, <1>5, StaysInTurn

LEMMA ReadStraySession ==
  ASSUME SessionInv, ServerInv', ReadStray
  PROVE  SessionInv'
  <1>1. /\ stack # <<>> /\ Top.pc = "stray" /\ (Goto("body") \/ Goto("next"))
        /\ quit' = quit /\ UNCHANGED socketVars /\ UNCHANGED job
    BY DEF ReadStray, Running, AtTop, sendVars
  <1>2. InTurn(Top) /\ ~AtTop("body") /\ ~AtTop("execBody")
    BY <1>1, RunningFrame
  <1>3. Top.conn \in Rogues /\ NothingThere /\ ~BytesAvailable
    BY <1>1, <1>2 DEF InTurn, NothingThere, BytesAvailable
  <1>4. fault' = fault /\ Main' = Main
    BY <1>1, <1>3 DEF ReadStray, Main
  <1>5. CASE Goto("next")
    <2>1. InTurn(Top)'
      BY <1>1, <1>2, <1>3, <1>5, TopMoved DEF InTurn, socketVars
    <2> QED BY <1>1, <1>2, <1>4, <1>5, <2>1, StaysInTurn DEF SessionInv
  <1>6. CASE Goto("body")
    <2>1. /\ stack' # <<>> /\ Len(stack') = 1 /\ Top'.pc = "body" /\ Top'.conn \in Rogues
          /\ Below' /\ \A c \in Connections : Emitting(c)' <=> Emitting(c)
      BY <1>1, <1>3, <1>6, TopMoved, Turn
    <2>2. NothingThere'
      BY <1>1, <1>3 DEF NothingThere, socketVars
    <2>3. TurnInv'
      BY <1>1, <1>2, <2>1, <2>2, NotQuit DEF TurnInv, Left
    <2>4. \A c \in Connections \ Rogues : rest[c] = "none"
      BY <1>2, NoneHalfRead
    <2>5. ClientsInv'
      BY <1>1, <2>1, <2>4, ClientsKept DEF SessionInv, socketVars
    <2> QED BY <1>1, <1>4, <2>3, <2>5 DEF SessionInv, socketVars
  <1> QED BY <1>1, <1>5, <1>6

LEMMA NextMessageSession ==
  ASSUME SessionInv, ServerInv', NextMessage
  PROVE  SessionInv'
  <1>1. /\ stack # <<>> /\ Top.pc = "next" /\ Goto("size") /\ BytesAvailable
        /\ UNCHANGED <<quit, fault, job>> /\ UNCHANGED socketVars
    BY DEF NextMessage, Running, AtTop, sendVars
  <1>2. InTurn(Top) /\ ~AtTop("body") /\ ~AtTop("execBody")
    BY <1>1, RunningFrame
  <1>3. InTurn(Top)'
    BY <1>1, <1>2, TopMoved DEF InTurn, socketVars, BytesAvailable
  <1> QED BY <1>1, <1>2, <1>3, StaysInTurn DEF SessionInv, Main

LEMMA ReturnSession ==
  ASSUME SessionInv, ServerInv', Return
  PROVE  SessionInv'
  <1>1. /\ stack # <<>> /\ Top.pc = "next" /\ ~BytesAvailable /\ stack' = Popped
        /\ quit' = (quit \/ InExec(Popped))
        /\ UNCHANGED socketVars /\ UNCHANGED job
    BY DEF Return, Running, AtTop, sendVars
  <1>2. InTurn(Top) /\ ~AtTop("body") /\ ~AtTop("execBody") /\ ~quit
    BY <1>1, RunningFrame, NotQuit
  <1>3. NothingThere
    <2>1. curConnection \in Connections
      BY <1>1, <1>2, Turn DEF InTurn
    <2> QED BY <1>1, <1>2, <2>1, Sockets DEF InTurn, NothingThere, BytesAvailable
  <1>4. fault' = fault /\ Main' = Main
    BY <1>1, <1>2 DEF Return, InTurn, Main
  <1>5. \A c \in Connections \ Rogues : rest[c] = "none"
    BY <1>2, NoneHalfRead
  <1>6. stack \in Seq(Frame) /\ Len(stack) \in {1, 2} /\ Below
    BY <1>1, Turn DEF SessionInv, ServerInv, StackInv
  <1>7. /\ Len(stack') = Len(stack) - 1
        /\ Len(stack) = 2 => stack'[1] = stack[1]
    <2> DEFINE n == Len(stack) - 1
    <2>1. n \in 0 .. Len(stack)
      BY <1>6
    <2>2. stack' = SubSeq(stack, 1, n)
      BY <1>1 DEF Popped
    <2>3. Len(stack') = n /\ \A i \in 1 .. n : stack'[i] = stack[i]
      BY <1>6, <2>1, <2>2, Front
    <2> QED BY <2>3
  <1>8. NothingThere'
    BY <1>1, <1>3 DEF NothingThere, socketVars
  <1>9. CASE Len(stack) = 1
    <2>1. stack' = <<>> /\ Popped = <<>>
      BY <1>1, <1>6, <1>7, <1>9 DEF Popped
    <2>4. ~InExec(<<>>)
      BY DEF InExec
    <2>2. ~quit'
      BY <1>1, <1>2, <2>1, <2>4
    <2>3. TurnInv'
      BY <2>1, <2>2 DEF TurnInv
    <2>6. \A c \in Connections : rest[c] = "none"
      <3> SUFFICES ASSUME NEW c \in Connections, c \in Rogues, rest[c] # "none" PROVE FALSE
        BY <1>5
      <3>1. Emitting(c)
        BY Sockets DEF RogueInv
      <3>2. Top.conn = c
        BY <1>6, <1>9, <3>1 DEF Emitting, Top
      <3> QED BY <1>1, <1>2, <3>2, Sockets DEF InTurn
    <2>5. ClientsInv'
      BY <1>1, <2>6 DEF SessionInv, ClientsInv, WholeInv, RogueInv, socketVars
    <2> QED BY <1>1, <1>4, <2>3, <2>5 DEF SessionInv, socketVars
  <1>10. CASE Len(stack) = 2
    <2>1. /\ stack' # <<>> /\ Len(stack') = 1 /\ Top' = stack[1]
          /\ Top.conn \notin Rogues /\ stack[1].conn \in Rogues
          /\ stack[1].pc = "execBody"
      BY <1>6, <1>7, <1>10 DEF Below, Top
    <2>2. TurnInv'
      BY <1>8, <2>1 DEF TurnInv, Below, Left, AtTop
    <2>3. \A c \in Rogues : Emitting(c) => Emitting(c)'
      <3> SUFFICES ASSUME NEW c \in Rogues, NEW i \in DOMAIN stack, stack[i].conn = c
                   PROVE  Emitting(c)'
        BY DEF Emitting
      <3>1. i = 1
        BY <1>6, <1>10, <2>1 DEF Top
      <3>2. stack'[1].conn = c /\ 1 \in DOMAIN stack'
        BY <1>7, <1>10, <2>1, <3>1
      <3> QED BY <3>2 DEF Emitting
    <2>4. ClientsInv'
      BY <1>1, <1>5, <2>3 DEF SessionInv, ClientsInv, WholeInv, RogueInv, socketVars
    <2> QED BY <1>1, <1>4, <2>2, <2>4 DEF SessionInv, socketVars
  <1> QED BY <1>6, <1>9, <1>10

-----------------------------------------------------------------------------
(***************************************************************************)
(* The DLL's callback, and what is left alone altogether.                  *)
(***************************************************************************)
LEMMA UntouchedSession ==
  ASSUME SessionInv, ServerInv', UNCHANGED socketVars, UNCHANGED <<stack, quit, fault>>,
         Main'.pc = "tested" => curConnection # Null
  PROVE  SessionInv'
  <1>1. TurnInv'
    BY DEF SessionInv, TurnInv, Below, InTurn, Left, NothingThere, Top, AtTop, socketVars
  <1>2. ClientsInv'
    BY DEF SessionInv, ClientsInv, WholeInv, RogueInv, AtTop, Top, Emitting, socketVars
  <1> QED BY <1>1, <1>2 DEF SessionInv, socketVars

LEMMA OtherIdle ==
  ASSUME SendInv
  PROVE  /\ \A m : Begin("main", m) => Main'.pc # "tested"
         /\ End("main") => Main'.pc # "tested"
  <1>1. ASSUME NEW m, Begin("main", m) PROVE Main'.pc # "tested"
    <2>1. Main' = [Idle EXCEPT !.pc = "clear", !.message = m]
      BY <1>1, MainTyped DEF Begin, Main
    <2> QED BY <2>1 DEF Idle
  <1>2. End("main") => Main'.pc # "tested"
    BY MainTyped DEF End, Main, Idle
  <1> QED BY <1>1, <1>2

LEMMA PreparesUntested ==
  ASSUME SendInv, Prepare("main") PROVE Main'.pc # "tested"
  <1>0. /\ job \in [Threads -> [pc: Steps, message: Messages \cup {"none"},
                                start: Nat, size: Nat]]
        /\ "main" \in Threads
    BY MainThread DEF SendInv, SendTypeOK
  <1>1. \A p : Advance("main", p) => Main'.pc = p
    BY <1>0 DEF Advance, Main
  <1>2. CASE PutZero("main") \/ Measure("main")
    BY <1>0, <1>2 DEF PutZero, Measure, Main
  <1>3. CASE ~(PutZero("main") \/ Measure("main"))
    BY <1>1, <1>3 DEF Prepare, Clear, Rewind, PutCode, PutPayload, PutSize
  <1> QED BY <1>2, <1>3

LEMMA ReportSession ==
  ASSUME SessionInv, ServerInv', Report("main") \/ Send("main")
  PROVE  SessionInv'
  <1>0. SendInv
    BY DEF SessionInv, ServerInv
  <1>1. CASE Report("main")
    <2>1. Main'.pc # "tested"
      BY <1>0, <1>1, OtherIdle DEF Report
    <2> QED BY <1>1, <2>1, UntouchedSession DEF Report
  <1>2. CASE Prepare("main") /\ UNCHANGED socketVars /\ UNCHANGED frameVars
    BY <1>0, <1>2, PreparesUntested, UntouchedSession DEF frameVars
  <1>3. CASE TestConnection("main")
    <2>1. Main'.pc = "tested" => curConnection # Null
      BY <1>0, <1>3, OtherIdle DEF TestConnection
    <2> QED BY <1>3, <2>1, UntouchedSession DEF TestConnection, frameVars
  <1>4. CASE WriteReport("main")
    <2>1. curConnection # Null /\ Main'.pc # "tested"
      BY <1>0, <1>4, OtherIdle DEF WriteReport, AtStep, Main, SessionInv
    <2>2. fault' = fault
      BY <1>4, <2>1 DEF WriteReport, Write
    <2> QED BY <1>4, <2>1, <2>2, UntouchedSession DEF WriteReport
  <1> QED BY <1>1, <1>2, <1>3, <1>4 DEF Send

-----------------------------------------------------------------------------
LEMMA InitSession == Init => SessionInv
  <1> SUFFICES ASSUME Init PROVE SessionInv
    OBVIOUS
  <1>1. ServerInv /\ fault = "none"
    BY InitServer DEF Init
  <1>2. Main.pc = "idle"
    BY MainThread DEF Init, SendInit, Main, Idle
  <1>3. TurnInv
    BY DEF Init, TurnInv
  <1>4. ClientsInv
    <2> SUFFICES ASSUME NEW c \in Connections
                 PROVE  link[c] # "open" /\ WholeInv(c) /\ RogueInv(c)
      BY DEF ClientsInv
    <2>1. avail[c] = 0 /\ rest[c] = "none" /\ pending[c] = <<>> /\ link[c] = "new"
      BY DEF Init
    <2> QED BY <2>1 DEF WholeInv, RogueInv
  <1> QED BY <1>1, <1>2, <1>3, <1>4 DEF SessionInv

LEMMA NextSession == Sessions /\ SessionInv /\ [Next]_vars => SessionInv'
  <1> SUFFICES ASSUME Sessions, SessionInv, [Next]_vars PROVE SessionInv'
    OBVIOUS
  <1>0. ServerInv'
    BY NextServer DEF SessionInv
  <1>1. CASE UNCHANGED vars
    <2>1. UNCHANGED socketVars /\ UNCHANGED <<stack, quit, fault>> /\ Main' = Main
      BY <1>1 DEF vars, socketVars, Main
    <2> QED BY <1>0, <2>1, UntouchedSession DEF SessionInv
  <1>2. ASSUME NEW c \in Connections,
               \/ Ask(c) \/ Read(c) \/ ClientConnected(c) \/ Disconnected(c)
               \/ Deleted(c) \/ Receive(c)
        PROVE  SessionInv'
    BY <1>0, <1>2, AskSession, ReadSession, ConnectedSession, DisconnectedSession,
       DeletedSession, ReceiveSession
  <1>3. CASE Step
    BY <1>0, <1>3, ExecReturnsSession, WaitSession, ReadSizeSession, ReadRequestSession,
       DllReturnsSession, WriteReplySession, ReadStraySession, NextMessageSession,
       ReturnSession DEF Step
  <1>4. CASE \E t \in Threads : Report(t) \/ Send(t)
    BY <1>0, <1>4, OnlyMain, ReportSession DEF Sessions
  <1> QED BY <1>1, <1>2, <1>3, <1>4 DEF Next

\* A frame of any other client meets no stray word.
LEMMA MisreadSession ==
  ASSUME SessionInv, misread \subseteq Rogues, [Next]_vars
  PROVE  misread' \subseteq Rogues
  <1>1. ASSUME ReadStray PROVE misread' \subseteq Rogues
    <2>1. stack # <<>> /\ Top.pc = "stray" /\ misread' = misread \cup {curConnection}
      BY <1>1 DEF ReadStray, Running, AtTop
    <2>2. Top.conn = curConnection /\ Top.conn \in Rogues
      BY <2>1, Turn DEF InTurn, Left
    <2> QED BY <2>1, <2>2
  <1>2. ASSUME ~ReadStray PROVE misread' = misread
    <2>1. UNCHANGED vars => misread' = misread
      BY DEF vars
    <2>2. \A c \in Connections :
             (\/ Ask(c) \/ Read(c) \/ ClientConnected(c) \/ Disconnected(c)
              \/ Deleted(c) \/ Receive(c)) => misread' = misread
      BY DEF Ask, Read, ClientConnected, Disconnected, Deleted, Receive, frameVars
    <2>3. Step => misread' = misread
      BY <1>2 DEF Step, ExecReturns, WaitForBytes, ReadSize, ReadRequest, DllReturns,
             WriteReply, NextMessage, Return
    <2>4. \A t \in Threads : Report(t) \/ Send(t) => misread' = misread
      BY DEF Report, Send, TestConnection, WriteReport, frameVars
    <2> QED BY <2>1, <2>2, <2>3, <2>4 DEF Next
  <1> QED BY <1>1, <1>2

\* Clients that come one after the other, all but one of them sending whole
\* requests: curConnection and the sockets are not used when they have gone,
\* processMessages takes sizes for sizes and codes for codes, payload for a
\* message only on the connection of that one, and it does not go round in an
\* exec() that returns at once.
THEOREM SessionsSafe ==
    Sessions => (Spec => [](ConnectionsAlive /\ MessagesInStep /\ NeverSpins))
  <1> SUFFICES ASSUME Sessions
               PROVE  Spec => [](ConnectionsAlive /\ MessagesInStep /\ NeverSpins)
    OBVIOUS
  <1>1. Init => SessionInv
    BY InitSession
  <1>2. SessionInv /\ [Next]_vars => SessionInv'
    BY NextSession
  <1>3. Init => misread \subseteq Rogues
    BY DEF Init
  <1>4. SessionInv /\ misread \subseteq Rogues /\ [Next]_vars => (misread \subseteq Rogues)'
    BY MisreadSession
  <1>5. SessionInv /\ misread \subseteq Rogues
            => ConnectionsAlive /\ MessagesInStep /\ NeverSpins
    BY SessionSafe DEF MessagesInStep
  <1> QED BY <1>1, <1>2, <1>3, <1>4, <1>5, PTL DEF Spec

=============================================================================
