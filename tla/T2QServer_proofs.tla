--------------------------- MODULE T2QServer_proofs ---------------------------
(***************************************************************************)
(* Proofs about T2QServer, for every value of its constants.               *)
(*                                                                         *)
(* Part 1 holds of any clients and threads: the types.  Part 2 assumes     *)
(* that the DLL calls back on the main thread: what the server writes.     *)
(***************************************************************************)
EXTENDS T2QServer, TLAPS

-----------------------------------------------------------------------------
(***************************************************************************)
(* Part 1.  The types need that a socket holds no more than was sent, that *)
(* a frame past the reading of a request has one, and that a thread which  *)
(* prepares a message has one.                                             *)
(***************************************************************************)
SocketInv ==
    \A c \in Connections : /\ avail[c] <= Unread(c)
                           /\ rest[c] = "body" => pending[c] # <<>>

InLoop(f) == f.pc \in {"execSize", "execBody"}

Fit(f) ==
    /\ f.pc \in {"dll", "reply", "stray"} => f.request \in Request
    /\ f.pc \in {"dll", "reply"} => f.request.code \notin Unanswered

FrameInv ==
    \A i \in DOMAIN stack : Fit(stack[i]) /\ (i # Len(stack) => InLoop(stack[i]))

JobInv == \A t \in Threads : ~ThreadIdle(t) => job[t].message \in Messages

SocketState ==
    /\ link \in [Connections -> Links]
    /\ pending \in [Connections -> Seq(Request)]
    /\ avail \in [Connections -> Nat]
    /\ rest \in [Connections -> {"none", "body"}]
    /\ curConnection \in Connections \cup {Null}
    /\ SocketInv

StackInv == stack \in Seq(Frame) /\ FrameInv

SendInv == SendTypeOK(Messages) /\ JobInv

OthersTyped ==
    /\ down \in [Connections -> Seq(Seq(Word(Messages)))]
    /\ quit \in BOOLEAN /\ registered \in BOOLEAN
    /\ misread \subseteq Connections \cup {Null}
    /\ fault \in {"none", "null", "misread", "freed"}

ServerInv == SocketState /\ StackInv /\ SendInv /\ OthersTyped

LEMMA InvTyped == ServerInv => TypeOK
  BY DEF ServerInv, SocketState, StackInv, SendInv, OthersTyped, TypeOK

-----------------------------------------------------------------------------
(***************************************************************************)
(* The send buffer.                                                        *)
(***************************************************************************)
LEMMA Words ==
  /\ \A n \in Int : Size(n) \in Word(Messages)
  /\ \A m \in Messages : CodeOf(m) \in Word(Messages) /\ PayloadOf(m) \in Word(Messages)
  /\ Gap \in Word(Messages)
  BY DEF Size, CodeOf, PayloadOf, Gap, Word

LEMMA PutTyped ==
  ASSUME buf \in Seq(Word(Messages)), pos \in Nat,
         NEW w \in Word(Messages), Put(w)
  PROVE  buf' \in Seq(Word(Messages)) /\ pos' \in Nat
  <1> DEFINE n == IF pos < Len(buf) THEN Len(buf) ELSE pos + 1
             W == Word(Messages)
  <1>1. n \in Nat
    OBVIOUS
  <1>2. \A i \in 1 .. n : (IF i = pos + 1 THEN w
                           ELSE IF i <= Len(buf) THEN buf[i] ELSE Gap) \in W
    BY Words
  <1>3. buf' = [i \in 1 .. n |-> IF i = pos + 1 THEN w
                                 ELSE IF i <= Len(buf) THEN buf[i] ELSE Gap]
    BY DEF Put
  <1> HIDE DEF n, W
  <1>4. buf' \in [1 .. n -> W]
    BY <1>2, <1>3
  <1>5. buf' \in Seq(W)
    BY <1>1, <1>4
  <1> QED BY <1>5 DEF Put, W

LEMMA SendStep ==
  ASSUME SendInv, NEW t \in Threads,
         \/ \E m \in Messages : Begin(t, m)
         \/ Prepare(t)
         \/ End(t)
         \/ Advance(t, "tested") /\ ~ThreadIdle(t) /\ UNCHANGED <<buf, pos>>
  PROVE  SendInv'
  <1> DEFINE Job == [pc: Steps, message: Messages \cup {"none"}, start: Nat, size: Nat]
  <1>0. /\ buf \in Seq(Word(Messages)) /\ pos \in Nat
        /\ job \in [Threads -> Job] /\ JobInv
        /\ job[t] \in Job
    BY DEF SendInv, SendTypeOK
  <1> DEFINE Typed == buf' \in Seq(Word(Messages)) /\ pos' \in Nat
  <1>1. ASSUME Typed, NEW j \in Job, job' = [job EXCEPT ![t] = j],
               j.pc # "idle" => j.message \in Messages
        PROVE  SendInv'
    <2>1. job' \in [Threads -> Job]
      BY <1>0, <1>1
    <2>2. \A u \in Threads : job'[u] = IF u = t THEN j ELSE job[u]
      BY <1>0, <1>1
    <2>3. JobInv'
      BY <1>0, <1>1, <2>2 DEF JobInv, ThreadIdle, AtStep
    <2> QED BY <1>1, <2>1, <2>3 DEF SendInv, SendTypeOK
  <1>2. Idle \in Job /\ Idle.pc = "idle"
    BY DEF Idle, Steps
  <1>3. ASSUME Typed, NEW p \in Steps, NEW s \in Nat, NEW z \in Nat, ~ThreadIdle(t),
               job' = [job EXCEPT ![t] = [@ EXCEPT !.pc = p, !.start = s, !.size = z]]
        PROVE  SendInv'
    <2> DEFINE j == [job[t] EXCEPT !.pc = p, !.start = s, !.size = z]
    <2>1. j \in Job /\ j.message = job[t].message
      BY <1>0
    <2>2. j.message \in Messages
      BY <1>0, <1>3, <2>1 DEF JobInv
    <2>3. job' = [job EXCEPT ![t] = j]
      BY <1>3
    <2> HIDE DEF j
    <2> QED BY <1>1, <1>3, <2>1, <2>2, <2>3
  <1>4. ASSUME Typed, NEW p \in Steps, Advance(t, p), ~ThreadIdle(t)
        PROVE  SendInv'
    <2>1. job' = [job EXCEPT ![t] = [@ EXCEPT !.pc = p, !.start = job[t].start,
                                                !.size = job[t].size]]
      BY <1>0, <1>4 DEF Advance
    <2>2. job[t].start \in Nat /\ job[t].size \in Nat
      BY <1>0
    <2> QED BY <1>3, <1>4, <2>1, <2>2
  <1>5. \A p \in {"clear", "rewind", "zero", "code", "payload", "measure", "size",
                  "prepared", "tested"} : p \in Steps /\ (AtStep(t, p) => ~ThreadIdle(t))
    BY DEF Steps, AtStep, ThreadIdle
  <1>6. AtStep(t, "code") \/ AtStep(t, "payload") => job[t].message \in Messages
    BY <1>0, <1>5 DEF JobInv
  <1>7. CASE \E m \in Messages : Begin(t, m)
    <2>1. PICK m \in Messages : Begin(t, m)
      BY <1>7
    <2> DEFINE j == [Idle EXCEPT !.pc = "clear", !.message = m]
    <2>2. j \in Job /\ j.message \in Messages
      BY DEF Idle, Steps
    <2>3. job' = [job EXCEPT ![t] = j] /\ Typed
      BY <1>0, <2>1 DEF Begin
    <2> HIDE DEF j
    <2> QED BY <1>1, <2>2, <2>3
  <1>8. CASE End(t)
    <2>1. job' = [job EXCEPT ![t] = Idle] /\ Typed
      BY <1>0, <1>8 DEF End
    <2> QED BY <1>1, <1>2, <2>1
  <1>9. CASE Advance(t, "tested") /\ ~ThreadIdle(t) /\ UNCHANGED <<buf, pos>>
    BY <1>0, <1>4, <1>5, <1>9
  <1>10. CASE Prepare(t)
    <2>1. CASE Clear(t)
      <3>1. Typed
        BY <1>0, <2>1 DEF Clear
      <3> QED BY <1>4, <1>5, <2>1, <3>1 DEF Clear
    <2>2. CASE Rewind(t)
      <3>1. Typed
        BY <1>0, <2>2 DEF Rewind
      <3> QED BY <1>4, <1>5, <2>2, <3>1 DEF Rewind
    <2>3. CASE PutZero(t)
      <3>1. Typed
        BY <1>0, <2>3, Words, PutTyped DEF PutZero
      <3>2. job' = [job EXCEPT ![t] = [@ EXCEPT !.pc = "code", !.start = pos,
                                                  !.size = job[t].size]]
        BY <1>0, <2>3 DEF PutZero
      <3>3. job[t].size \in Nat /\ pos \in Nat
        BY <1>0
      <3>4. "code" \in Steps /\ ~ThreadIdle(t)
        BY <1>5, <2>3 DEF PutZero
      <3> QED BY <1>3, <3>1, <3>2, <3>3, <3>4
    <2>4. CASE PutCode(t)
      <3>1. Typed
        BY <1>0, <1>6, <2>4, Words, PutTyped DEF PutCode
      <3> QED BY <1>4, <1>5, <2>4, <3>1 DEF PutCode
    <2>5. CASE PutPayload(t)
      <3>1. Typed
        BY <1>0, <1>6, <2>5, Words, PutTyped DEF PutPayload
      <3> QED BY <1>4, <1>5, <2>5, <3>1 DEF PutPayload
    <2>6. CASE Measure(t)
      <3>1. Typed /\ Len(buf) \in Nat
        BY <1>0, <2>6 DEF Measure
      <3>2. job' = [job EXCEPT ![t] = [@ EXCEPT !.pc = "size", !.start = job[t].start,
                                                  !.size = Len(buf)]]
        BY <1>0, <2>6 DEF Measure
      <3>3. job[t].start \in Nat
        BY <1>0
      <3>4. "size" \in Steps /\ ~ThreadIdle(t)
        BY <1>5, <2>6 DEF Measure
      <3> QED BY <1>3, <3>1, <3>2, <3>3, <3>4
    <2>7. CASE PutSize(t)
      <3>1. job[t].size - 1 \in Int
        BY <1>0
      <3>2. Typed
        BY <1>0, <2>7, <3>1, Words, PutTyped DEF PutSize
      <3> QED BY <1>4, <1>5, <2>7, <3>2 DEF PutSize
    <2> QED BY <1>10, <2>1, <2>2, <2>3, <2>4, <2>5, <2>6, <2>7 DEF Prepare
  <1> QED BY <1>7, <1>8, <1>9, <1>10

-----------------------------------------------------------------------------
(***************************************************************************)
(* The stack.                                                              *)
(***************************************************************************)
LEMMA LastIndex ==
  ASSUME NEW S, NEW s \in Seq(S), s # <<>>
  PROVE  Len(s) \in DOMAIN s /\ Len(s) \in Nat \ {0}
  OBVIOUS

LEMMA Front ==
  ASSUME NEW S, NEW s \in Seq(S), NEW n \in 0 .. Len(s)
  PROVE  LET q == SubSeq(s, 1, n)
         IN  /\ q \in Seq(S) /\ Len(q) = n /\ DOMAIN q = 1 .. n
             /\ \A i \in 1 .. n : q[i] = s[i]
  OBVIOUS

LEMMA TopOfStack ==
  ASSUME StackInv, stack # <<>>
  PROVE  Len(stack) \in DOMAIN stack /\ Top \in Frame /\ Fit(Top)
  <1>1. Len(stack) \in DOMAIN stack
    BY DEF StackInv
  <1> QED BY <1>1 DEF StackInv, FrameInv, Top

LEMMA ReplacedTop ==
  ASSUME StackInv, stack # <<>>, NEW f \in Frame, Fit(f),
         stack' = [stack EXCEPT ![Len(stack)] = f]
  PROVE  /\ StackInv'
         /\ Len(stack') = Len(stack) /\ Top' = f
  <1>1. /\ stack' \in Seq(Frame) /\ Len(stack') = Len(stack)
        /\ DOMAIN stack' = DOMAIN stack /\ Len(stack) \in DOMAIN stack
        /\ \A i \in DOMAIN stack : stack'[i] = IF i = Len(stack) THEN f ELSE stack[i]
    BY DEF StackInv
  <1> QED BY <1>1 DEF StackInv, FrameInv, Top

\* Wherever a frame goes but to the DLL and the reply, it fits.
LEMMA Moved ==
  ASSUME StackInv, stack # <<>>,
         NEW p \in {"size", "execSize", "body", "execBody", "next"}, Goto(p)
  PROVE  StackInv' /\ Top' = [Top EXCEPT !.pc = p]
  <1> DEFINE f == [Top EXCEPT !.pc = p]
  <1>1. f \in Frame /\ f.pc = p
    BY TopOfStack DEF Frame
  <1>2. stack' = [stack EXCEPT ![Len(stack)] = f]
    BY DEF Goto, Top
  <1>3. Fit(f)
    BY <1>1 DEF Fit
  <1> HIDE DEF f
  <1>4. StackInv' /\ Top' = f
    BY <1>1, <1>2, <1>3, ReplacedTop
  <1> QED BY <1>4 DEF f

\* From the DLL to the reply, and from the reply to what follows it.
LEMMA MovedOn ==
  ASSUME StackInv, stack # <<>>,
         NEW p \in {"reply", "stray", "next"}, Goto(p),
         AtTop("dll") \/ (AtTop("reply") /\ p # "reply")
  PROVE  StackInv' /\ Top' = [Top EXCEPT !.pc = p]
  <1> DEFINE f == [Top EXCEPT !.pc = p]
  <1>1. f \in Frame /\ f.pc = p /\ f.request = Top.request
    BY TopOfStack DEF Frame
  <1>2. stack' = [stack EXCEPT ![Len(stack)] = f]
    BY DEF Goto, Top
  <1>3. Top.pc \in {"dll", "reply"} /\ Fit(Top)
    BY TopOfStack DEF AtTop
  <1>4. Fit(f)
    BY <1>1, <1>3 DEF Fit
  <1> HIDE DEF f
  <1>5. StackInv' /\ Top' = f
    BY <1>1, <1>2, <1>4, ReplacedTop
  <1> QED BY <1>5 DEF f

LEMMA PoppedStack ==
  ASSUME StackInv, stack # <<>>, stack' = Popped
  PROVE  /\ StackInv'
         /\ stack' # <<>> => InLoop(Top')
  <1>1. /\ stack' \in Seq(Frame) /\ Len(stack') = Len(stack) - 1
        /\ Len(stack) \in Nat
        /\ \A i \in DOMAIN stack' : /\ i \in DOMAIN stack /\ i # Len(stack)
                                   /\ stack'[i] = stack[i]
    <2>1. stack \in Seq(Frame) /\ Len(stack) \in Nat \ {0} /\ DOMAIN stack = 1 .. Len(stack)
      BY LastIndex DEF StackInv
    <2>2. Len(stack) - 1 \in 0 .. Len(stack)
      BY <2>1
    <2> QED BY <2>1, <2>2, Front DEF Popped
  <1>2. StackInv'
    BY <1>1 DEF StackInv, FrameInv
  <1>3. stack' # <<>> => Len(stack') \in DOMAIN stack'
    BY <1>1, LastIndex
  <1> QED BY <1>1, <1>2, <1>3 DEF StackInv, FrameInv, Top

LEMMA PushedStack ==
  ASSUME StackInv, stack # <<>> => InLoop(Top), NEW f \in Frame, f.pc = "size",
         stack' = Append(stack, f)
  PROVE  StackInv' /\ Top' = f
  <1>1. /\ stack' \in Seq(Frame) /\ Len(stack') = Len(stack) + 1
        /\ Len(stack) \in Nat /\ DOMAIN stack = 1 .. Len(stack)
        /\ stack'[Len(stack')] = f
        /\ \A i \in DOMAIN stack' : i # Len(stack') =>
                                       i \in DOMAIN stack /\ stack'[i] = stack[i]
    BY DEF StackInv
  <1>2. \A i \in DOMAIN stack : InLoop(stack[i]) /\ Fit(stack[i])
    BY <1>1 DEF StackInv, FrameInv, Top
  <1>3. Fit(f)
    BY DEF Fit
  <1> QED BY <1>1, <1>2, <1>3 DEF StackInv, FrameInv, Top

\* Events are handled while no frame is ahead of its loop.
LEMMA EventsInLoop ==
  InEventLoop => stack = <<>> \/ (stack # <<>> /\ InLoop(Top))
  BY DEF InEventLoop, AtTop, InLoop

-----------------------------------------------------------------------------
(***************************************************************************)
(* The sockets.                                                            *)
(***************************************************************************)
Fits(n, r, p) == n <= 2 * Len(p) - (IF r = "none" THEN 0 ELSE 1)
                 /\ (r = "body" => p # <<>>)

LEMMA OneSocket ==
  ASSUME SocketState, NEW c \in Connections,
         NEW n \in Nat, NEW r \in {"none", "body"}, NEW p \in Seq(Request), Fits(n, r, p),
         avail' = [avail EXCEPT ![c] = n], rest' = [rest EXCEPT ![c] = r],
         pending' = [pending EXCEPT ![c] = p],
         NEW l \in Links, link' = [link EXCEPT ![c] = l],
         curConnection' \in Connections \cup {Null}
  PROVE  SocketState'
  <1>1. /\ link' \in [Connections -> Links] /\ pending' \in [Connections -> Seq(Request)]
        /\ avail' \in [Connections -> Nat] /\ rest' \in [Connections -> {"none", "body"}]
    BY DEF SocketState
  <1>2. \A d \in Connections :
           /\ avail'[d] = IF d = c THEN n ELSE avail[d]
           /\ rest'[d] = IF d = c THEN r ELSE rest[d]
           /\ pending'[d] = IF d = c THEN p ELSE pending[d]
    BY DEF SocketState
  <1>3. SocketInv'
    <2> SUFFICES ASSUME NEW d \in Connections
                 PROVE  /\ avail'[d] <= Unread(d)'
                        /\ rest'[d] = "body" => pending'[d] # <<>>
      BY DEF SocketInv
    <2>1. CASE d = c
      BY <1>2, <2>1 DEF Fits, Unread
    <2>2. CASE d # c
      BY <1>2, <2>2 DEF SocketState, SocketInv, Unread
    <2> QED BY <2>1, <2>2
  <1> QED BY <1>1, <1>3 DEF SocketState

LEMMA Halves ==
  ASSUME NEW a \in Nat, NEW b \in Nat
  PROVE  /\ (a + 1) \div 2 \in Nat /\ (a + 2) \div 2 \in Nat \ {0}
         /\ a <= 2 * ((a + 1) \div 2) /\ a <= 2 * ((a + 2) \div 2) - 1
         /\ a <= 2 * b => (a + 1) \div 2 <= b
         /\ a <= 2 * b - 1 => (a + 2) \div 2 <= b
  OBVIOUS

\* A socket half way through a request holds at most one unit less.
LEMMA FitsRule ==
  ASSUME NEW n \in Nat, NEW r \in {"none", "body"}, NEW p \in Seq(Request)
  PROVE  /\ r = "none" => (Fits(n, r, p) <=> n <= 2 * Len(p))
         /\ r = "body" => (Fits(n, r, p) <=> n <= 2 * Len(p) - 1)
         /\ Len(p) \in Nat
  BY DEF Fits

LEMMA SocketFacts ==
  ASSUME SocketState, NEW c \in Connections
  PROVE  /\ avail[c] \in Nat /\ rest[c] \in {"none", "body"}
         /\ pending[c] \in Seq(Request) /\ Len(pending[c]) \in Nat /\ link[c] \in Links
         /\ Fits(avail[c], rest[c], pending[c])
         /\ avail = [avail EXCEPT ![c] = avail[c]] /\ rest = [rest EXCEPT ![c] = rest[c]]
         /\ pending = [pending EXCEPT ![c] = pending[c]]
         /\ link = [link EXCEPT ![c] = link[c]]
  BY DEF SocketState, SocketInv, Fits, Unread

\* What a socket that has disconnected may still hold are whole requests and
\* the first half of one.
LEMMA ReceivedPart ==
  ASSUME SocketState, NEW c \in Connections
  PROVE  /\ Received(c) \in 0 .. Len(pending[c])
         /\ LET p == SubSeq(pending[c], 1, Received(c))
            IN  p \in Seq(Request) /\ Fits(avail[c], rest[c], p)
  <1>1. /\ avail[c] \in Nat /\ rest[c] \in {"none", "body"} /\ Len(pending[c]) \in Nat
        /\ pending[c] \in Seq(Request) /\ Fits(avail[c], rest[c], pending[c])
    BY SocketFacts
  <1> DEFINE n == Received(c)
  <1>2. /\ n \in Nat
        /\ avail[c] <= 2 * n - (IF rest[c] = "none" THEN 0 ELSE 1)
        /\ n <= Len(pending[c]) /\ (rest[c] = "body" => n > 0)
    <2>1. CASE rest[c] = "none"
      <3>1. n = (avail[c] + 1) \div 2 /\ avail[c] <= 2 * Len(pending[c])
        BY <1>1, <2>1 DEF Received, Fits
      <3> QED BY <1>1, <2>1, <3>1, Halves
    <2>2. CASE rest[c] = "body"
      <3>1. n = (avail[c] + 2) \div 2 /\ avail[c] <= 2 * Len(pending[c]) - 1
        BY <1>1, <2>2 DEF Received, Fits
      <3> QED BY <1>1, <2>2, <3>1, Halves
    <2> QED BY <1>1, <2>1, <2>2
  <1> HIDE DEF n
  <1>3. n \in 0 .. Len(pending[c])
    BY <1>1, <1>2
  <1>4. /\ SubSeq(pending[c], 1, n) \in Seq(Request)
        /\ Len(SubSeq(pending[c], 1, n)) = n
    BY <1>1, <1>3, Front
  <1>5. Fits(avail[c], rest[c], SubSeq(pending[c], 1, n))
    BY <1>2, <1>4 DEF Fits
  <1> QED BY <1>3, <1>4, <1>5 DEF n

-----------------------------------------------------------------------------
(***************************************************************************)
(* The invariant of part 1, action by action.                              *)
(***************************************************************************)
LEMMA Consumed ==
  ASSUME SocketState, NEW c \in Connections, rest[c] = "body", avail[c] > 0,
         Consume(c), UNCHANGED <<link, curConnection>>
  PROVE  SocketState' /\ Head(pending[c]) \in Request /\ pending[c] # <<>>
  <1>1. /\ avail[c] \in Nat /\ rest[c] \in {"none", "body"} /\ link[c] \in Links
        /\ pending[c] \in Seq(Request) /\ Fits(avail[c], rest[c], pending[c])
        /\ link = [link EXCEPT ![c] = link[c]]
    BY SocketFacts
  <1>2. pending[c] # <<>>
    BY <1>1 DEF Fits
  <1> DEFINE p == Tail(pending[c])
  <1>3. /\ p \in Seq(Request) /\ Len(p) = Len(pending[c]) - 1
        /\ Len(pending[c]) \in Nat /\ Head(pending[c]) \in Request
    BY <1>1, <1>2
  <1>4. Fits(avail[c] - 1, "none", p) /\ avail[c] - 1 \in Nat
    BY <1>1, <1>3 DEF Fits
  <1>5. /\ avail' = [avail EXCEPT ![c] = avail[c] - 1]
        /\ rest' = [rest EXCEPT ![c] = "none"] /\ pending' = [pending EXCEPT ![c] = p]
        /\ link' = [link EXCEPT ![c] = link[c]]
    BY <1>1 DEF Consume
  <1>6. curConnection' \in Connections \cup {Null}
    BY DEF SocketState
  <1> HIDE DEF p
  <1> QED BY <1>1, <1>2, <1>3, <1>4, <1>5, <1>6, OneSocket

LEMMA AskState ==
  ASSUME ServerInv, NEW c \in Connections, Ask(c)
  PROVE  SocketState'
  <1>1. PICK r \in Request : pending' = [pending EXCEPT ![c] = Append(@, r)]
    BY DEF Ask
  <1>2. /\ avail[c] \in Nat /\ rest[c] \in {"none", "body"} /\ link[c] \in Links
        /\ pending[c] \in Seq(Request) /\ Fits(avail[c], rest[c], pending[c])
        /\ avail = [avail EXCEPT ![c] = avail[c]] /\ rest = [rest EXCEPT ![c] = rest[c]]
        /\ link = [link EXCEPT ![c] = link[c]]
    BY SocketFacts DEF ServerInv
  <1> DEFINE p == Append(pending[c], r)
  <1>3. p \in Seq(Request) /\ Len(p) = Len(pending[c]) + 1 /\ Len(pending[c]) \in Nat
    BY <1>2
  <1>4. pending' = [pending EXCEPT ![c] = p]
    BY <1>1
  <1> HIDE DEF p
  <1>5. Fits(avail[c], rest[c], p)
    BY <1>2, <1>3, FitsRule
  <1>6. /\ avail' = [avail EXCEPT ![c] = avail[c]] /\ rest' = [rest EXCEPT ![c] = rest[c]]
        /\ link' = [link EXCEPT ![c] = link[c]]
    BY <1>2 DEF Ask
  <1>7. curConnection' \in Connections \cup {Null} /\ SocketState
    BY DEF ServerInv, SocketState, Ask
  <1> QED BY <1>2, <1>3, <1>4, <1>5, <1>6, <1>7, OneSocket

LEMMA LinkState ==
  ASSUME ServerInv, NEW c \in Connections, NEW l \in Links,
         link' = [link EXCEPT ![c] = l], UNCHANGED <<pending, avail, rest>>,
         curConnection' \in Connections \cup {Null}
  PROVE  SocketState'
  <1>1. link' \in [Connections -> Links]
    BY DEF ServerInv, SocketState
  <1>2. SocketInv'
    BY DEF ServerInv, SocketState, SocketInv, Unread
  <1> QED BY <1>1, <1>2 DEF ServerInv, SocketState

LEMMA DisconnectedState ==
  ASSUME ServerInv, NEW c \in Connections, Disconnected(c)
  PROVE  SocketState'
  <1> DEFINE p == SubSeq(pending[c], 1, Received(c))
             l == IF stack = <<>> THEN "closing" ELSE "closingInLoop"
  <1>1. p \in Seq(Request) /\ Fits(avail[c], rest[c], p)
    BY ReceivedPart DEF ServerInv
  <1>2. /\ avail[c] \in Nat /\ rest[c] \in {"none", "body"} /\ l \in Links
        /\ avail = [avail EXCEPT ![c] = avail[c]] /\ rest = [rest EXCEPT ![c] = rest[c]]
    BY SocketFacts DEF ServerInv, Links
  <1>3. /\ pending' = [pending EXCEPT ![c] = p] /\ link' = [link EXCEPT ![c] = l]
        /\ UNCHANGED <<avail, rest, curConnection>>
    BY DEF Disconnected
  <1>4. curConnection' \in Connections \cup {Null}
    BY <1>3 DEF ServerInv, SocketState
  <1> HIDE DEF p, l
  <1> QED BY <1>1, <1>2, <1>3, <1>4, OneSocket DEF ServerInv

LEMMA DeletedState ==
  ASSUME ServerInv, NEW c \in Connections, Deleted(c)
  PROVE  SocketState'
  <1>1. <<>> \in Seq(Request) /\ Fits(0, "none", <<>>) /\ "deleted" \in Links
    BY DEF Fits, Links
  <1>2. curConnection' \in Connections \cup {Null}
    BY DEF ServerInv, SocketState, Deleted
  <1> QED BY <1>1, <1>2, OneSocket DEF Deleted, ServerInv

LEMMA ReceiveState ==
  ASSUME ServerInv, NEW c \in Connections, Receive(c)
  PROVE  SocketState'
  <1>1. PICK n \in 1 .. (Unread(c) - avail[c]) : avail' = [avail EXCEPT ![c] = @ + n]
    BY DEF Receive
  <1>2. /\ avail[c] \in Nat /\ rest[c] \in {"none", "body"} /\ link[c] \in Links
        /\ pending[c] \in Seq(Request) /\ Len(pending[c]) \in Nat
        /\ Fits(avail[c], rest[c], pending[c])
        /\ rest = [rest EXCEPT ![c] = rest[c]]
        /\ pending = [pending EXCEPT ![c] = pending[c]]
        /\ link = [link EXCEPT ![c] = link[c]]
    BY SocketFacts DEF ServerInv
  <1>3. avail[c] + n \in Nat
    BY <1>2 DEF Unread
  <1>4. Fits(avail[c] + n, rest[c], pending[c])
    <2>1. avail[c] + n <= Unread(c)
      <3>1. Unread(c) \in Int
        BY <1>2 DEF Unread
      <3>2. n \in Int /\ n <= Unread(c) - avail[c]
        BY <1>2, <3>1
      <3> QED BY <1>2, <3>1, <3>2
    <2>2. CASE rest[c] = "none"
      <3>1. avail[c] + n <= 2 * Len(pending[c])
        BY <1>2, <2>1, <2>2 DEF Unread
      <3> QED BY <1>2, <1>3, <2>2, <3>1, FitsRule
    <2>3. CASE rest[c] = "body"
      <3>1. avail[c] + n <= 2 * Len(pending[c]) - 1
        BY <1>2, <2>1, <2>3 DEF Unread
      <3> QED BY <1>2, <1>3, <2>3, <3>1, FitsRule
    <2> QED BY <1>2, <2>2, <2>3
  <1>5. /\ avail' = [avail EXCEPT ![c] = avail[c] + n]
        /\ rest' = [rest EXCEPT ![c] = rest[c]]
        /\ pending' = [pending EXCEPT ![c] = pending[c]]
        /\ link' = [link EXCEPT ![c] = link[c]]
    BY <1>1, <1>2 DEF Receive
  <1>6. curConnection' \in Connections \cup {Null} /\ SocketState
    BY DEF ServerInv, SocketState, Receive
  <1> QED BY <1>2, <1>3, <1>4, <1>5, <1>6, OneSocket

LEMMA ReadSizeState ==
  ASSUME ServerInv, ReadSize
  PROVE  SocketState'
  <1> DEFINE c == curConnection
  <1>1. c \in Connections /\ avail[c] > 0
    BY DEF ReadSize, BytesAvailable, ServerInv, SocketState
  <1>2. /\ avail[c] \in Nat /\ rest[c] \in {"none", "body"} /\ link[c] \in Links
        /\ pending[c] \in Seq(Request) /\ Len(pending[c]) \in Nat
        /\ Fits(avail[c], rest[c], pending[c])
        /\ pending = [pending EXCEPT ![c] = pending[c]]
        /\ link = [link EXCEPT ![c] = link[c]]
    BY <1>1, SocketFacts DEF ServerInv
  <1> DEFINE n == avail[c] - 1
  <1>3. n \in Nat
    BY <1>1, <1>2
  <1>6. n <= 2 * Len(pending[c]) - 1
    BY <1>2, FitsRule
  <1>7. Fits(n, "body", pending[c])
    BY <1>2, <1>3, <1>6, FitsRule
  <1>4. avail' = [avail EXCEPT ![c] = avail[c] - 1] /\ rest' = [rest EXCEPT ![c] = "body"]
    BY DEF ReadSize
  <1>5. curConnection' \in Connections \cup {Null} /\ SocketState
    BY <1>1 DEF ReadSize, ServerInv
  <1>8. pending' = [pending EXCEPT ![c] = pending[c]] /\ link' = [link EXCEPT ![c] = link[c]]
    BY <1>2 DEF ReadSize
  <1> HIDE DEF n
  <1> QED BY <1>1, <1>2, <1>3, <1>4, <1>5, <1>7, <1>8, OneSocket DEF n

\* What leaves a part of the state alone leaves its invariant alone.
LEMMA Unchanged ==
  /\ SocketState /\ UNCHANGED socketVars => SocketState'
  /\ StackInv /\ UNCHANGED stack => StackInv'
  /\ SendInv /\ UNCHANGED sendVars => SendInv'
  /\ OthersTyped /\ UNCHANGED <<down, quit, registered, misread, fault>> => OthersTyped'
  <1>1. SocketState /\ UNCHANGED socketVars => SocketState'
    BY DEF SocketState, SocketInv, Unread, socketVars
  <1>2. StackInv /\ UNCHANGED stack => StackInv'
    BY DEF StackInv, FrameInv
  <1>3. SendInv /\ UNCHANGED sendVars => SendInv'
    BY DEF SendInv, SendTypeOK, JobInv, ThreadIdle, AtStep, sendVars
  <1>4. OthersTyped /\ UNCHANGED <<down, quit, registered, misread, fault>> => OthersTyped'
    BY DEF OthersTyped
  <1> QED BY <1>1, <1>2, <1>3, <1>4

LEMMA InitServer == Init => ServerInv
  <1> SUFFICES ASSUME Init PROVE ServerInv
    OBVIOUS
  <1> USE DEF Init
  <1>1. SocketState
    BY DEF SocketState, SocketInv, Unread, Links
  <1>2. StackInv
    BY DEF StackInv, FrameInv
  <1>3. SendInv
    <2>1. Idle \in [pc: Steps, message: Messages \cup {"none"}, start: Nat, size: Nat]
      BY DEF Idle, Steps
    <2>2. \A t \in Threads : ThreadIdle(t)
      BY DEF SendInit, ThreadIdle, AtStep, Idle
    <2> QED BY <2>1, <2>2 DEF SendInv, SendTypeOK, JobInv, SendInit
  <1>4. OthersTyped
    <2>1. down \in [Connections -> Seq(Seq(Word(Messages)))]
      OBVIOUS
    <2>2. quit \in BOOLEAN /\ registered \in BOOLEAN
      BY Zenon
    <2> QED BY <2>1, <2>2 DEF OthersTyped
  <1> QED BY <1>1, <1>2, <1>3, <1>4 DEF ServerInv

\* The network and the clients.
LEMMA ConnectionSteps ==
  ASSUME ServerInv, NEW c \in Connections,
         Ask(c) \/ Read(c) \/ ClientConnected(c) \/ Disconnected(c) \/ Deleted(c) \/ Receive(c)
  PROVE  ServerInv'
  <1>0. SocketState /\ StackInv /\ SendInv /\ OthersTyped /\ down[c] \in Seq(Seq(Word(Messages)))
    BY DEF ServerInv, OthersTyped
  <1>1. CASE Ask(c)
    BY <1>0, <1>1, AskState, Unchanged DEF Ask, frameVars, ServerInv
  <1>2. CASE Read(c)
    <2>1. Tail(down[c]) \in Seq(Seq(Word(Messages)))
      BY <1>0, <1>2 DEF Read
    <2>2. OthersTyped'
      BY <1>0, <1>2, <2>1 DEF Read, OthersTyped, frameVars
    <2> QED BY <1>0, <1>2, <2>2, Unchanged DEF Read, frameVars, ServerInv
  <1>3. CASE ClientConnected(c)
    <2>1. /\ link' = [link EXCEPT ![c] = "open"] /\ curConnection' \in Connections \cup {Null}
          /\ "open" \in Links /\ UNCHANGED <<pending, avail, rest>>
      BY <1>3 DEF ClientConnected, Links
    <2>2. SocketState'
      BY <2>1, LinkState
    <2> QED BY <1>0, <1>3, <2>2, Unchanged DEF ClientConnected, frameVars, ServerInv
  <1>4. CASE Disconnected(c)
    <2>1. OthersTyped'
      BY <1>0, <1>4 DEF Disconnected, OthersTyped, frameVars
    <2> QED BY <1>0, <1>4, <2>1, DisconnectedState, Unchanged
        DEF Disconnected, frameVars, ServerInv
  <1>5. CASE Deleted(c)
    BY <1>0, <1>5, DeletedState, Unchanged DEF Deleted, frameVars, ServerInv
  <1>6. CASE Receive(c)
    <2> DEFINE f == [conn |-> c, request |-> NoRequest, pc |-> "size"]
    <2>1. f \in Frame /\ f.pc = "size"
      BY DEF Frame
    <2>2. stack' = stack \/ stack' = Append(stack, f)
      BY <1>6 DEF Receive
    <2>3. stack # <<>> => InLoop(Top)
      BY <1>6, EventsInLoop DEF Receive
    <2> HIDE DEF f
    <2>4. StackInv'
      BY <1>0, <2>1, <2>2, <2>3, PushedStack, Unchanged
    <2> QED BY <1>0, <1>6, <2>4, ReceiveState, Unchanged DEF Receive, ServerInv
  <1> QED BY <1>1, <1>2, <1>3, <1>4, <1>5, <1>6

\* The steps of processMessages.
LEMMA ReadRequestFrame ==
  ASSUME ServerInv, ReadRequest, rest[curConnection] = "body"
  PROVE  /\ StackInv' /\ SocketState'
         /\ curConnection \in Connections /\ stack # <<>>
         /\ pending[curConnection] # <<>> /\ Head(pending[curConnection]) \in Request
         /\ Top' = [Top EXCEPT !.request = Head(pending[curConnection]),
                               !.pc = IF Head(pending[curConnection]).code \in Unanswered
                                      THEN "stray" ELSE "dll"]
  <1> DEFINE c == curConnection
             r == Head(pending[c])
             p == IF r.code \in Unanswered THEN "stray" ELSE "dll"
             f == [Top EXCEPT !.request = r, !.pc = p]
  <1>1. c \in Connections /\ avail[c] > 0 /\ stack # <<>> /\ Consume(c)
    BY DEF ReadRequest, Running, BytesAvailable, ServerInv, SocketState
  <1>2. SocketState' /\ r \in Request /\ pending[c] # <<>>
    BY <1>1, Consumed DEF ReadRequest, ServerInv
  <1>3. f \in Frame /\ f.pc = p /\ f.request = r
    BY <1>1, <1>2, TopOfStack DEF ServerInv, Frame
  <1>4. Fit(f)
    BY <1>2, <1>3 DEF Fit
  <1>5. stack' = [stack EXCEPT ![Len(stack)] = f]
    BY DEF ReadRequest, Top
  <1> HIDE DEF f
  <1>6. StackInv' /\ Top' = f
    BY <1>1, <1>3, <1>4, <1>5, ReplacedTop DEF ServerInv
  <1> QED BY <1>1, <1>2, <1>6 DEF f

LEMMA MainThread == "main" \in Threads
  BY ServerAssumption

\* The code of a reply is that of a message to a client.
LEMMA ReplyMessage ==
  ASSUME NEW r \in Request PROVE ReplyCode(r.code) \in Messages
  BY DEF Request, Messages

LEMMA WriteTyped ==
  ASSUME ServerInv, Write, UNCHANGED <<quit, registered, misread>>
  PROVE  OthersTyped'
  <1>1. /\ down \in [Connections -> Seq(Seq(Word(Messages)))]
        /\ buf \in Seq(Word(Messages))
    BY DEF ServerInv, OthersTyped, SendInv, SendTypeOK
  <1>2. down' \in [Connections -> Seq(Seq(Word(Messages)))]
    <2>1. CASE curConnection # Null /\ link[curConnection] = "open"
      <3>1. curConnection \in Connections
        BY <2>1 DEF ServerInv, SocketState
      <3>2. Append(down[curConnection], buf) \in Seq(Seq(Word(Messages)))
        BY <1>1, <3>1
      <3>3. down' = [down EXCEPT ![curConnection] = Append(down[curConnection], buf)]
        BY <2>1 DEF Write
      <3> QED BY <1>1, <3>1, <3>2, <3>3
    <2>2. CASE ~(curConnection # Null /\ link[curConnection] = "open")
      BY <1>1, <2>2 DEF Write
    <2> QED BY <2>1, <2>2
  <1>3. fault' \in {"none", "null", "misread", "freed"}
    BY DEF Write, ServerInv, OthersTyped
  <1> QED BY <1>2, <1>3 DEF ServerInv, OthersTyped

LEMMA FrameSteps ==
  ASSUME ServerInv, Step
  PROVE  ServerInv'
  <1>0. /\ SocketState /\ StackInv /\ SendInv /\ OthersTyped
        /\ stack # <<>>
    BY DEF ServerInv, Step, Running, AtTop, ExecReturns, WaitForBytes, ReadSize, ReadRequest,
           DllReturns, WriteReply, ReadStray, NextMessage, Return
  <1>1. CASE ExecReturns
    <2>1. StackInv'
      BY <1>0, <1>1, Moved DEF ExecReturns
    <2>2. OthersTyped'
      BY <1>0, <1>1 DEF ExecReturns, OthersTyped
    <2> QED BY <1>0, <1>1, <2>1, <2>2, Unchanged DEF ExecReturns, ServerInv
  <1>2. CASE WaitForBytes
    <2>1. PICK p \in {"size", "body"} : Goto(Entered(p)) /\ quit' = QuitOnEntry
      BY <1>2 DEF WaitForBytes
    <2>2. Entered(p) \in {"size", "execSize", "body", "execBody"}
      BY DEF Entered
    <2>3. StackInv'
      BY <1>0, <2>1, <2>2, Moved
    <2>4. quit' \in BOOLEAN
      BY <1>0, <2>1 DEF QuitOnEntry, OthersTyped
    <2>5. OthersTyped'
      BY <1>0, <1>2, <2>4 DEF WaitForBytes, OthersTyped
    <2> QED BY <1>0, <1>2, <2>3, <2>5, Unchanged DEF WaitForBytes, ServerInv
  <1>3. CASE ReadSize
    <2>1. StackInv'
      BY <1>0, <1>3, Moved DEF ReadSize
    <2>2. OthersTyped'
      BY <1>0, <1>3 DEF ReadSize, OthersTyped
    <2> QED BY <1>0, <1>3, <2>1, <2>2, ReadSizeState, Unchanged DEF ReadSize, ServerInv
  <1>4. CASE ReadRequest
    <2>1. CASE rest[curConnection] = "body"
      <3>1. SetCallback(Head(pending[curConnection])) /\ UNCHANGED <<down, quit, misread, fault>>
            /\ UNCHANGED sendVars
        BY <1>4, <2>1 DEF ReadRequest
      <3>2. registered' \in BOOLEAN
        BY <1>0, <3>1 DEF SetCallback, OthersTyped
      <3>3. OthersTyped'
        BY <1>0, <3>1, <3>2 DEF OthersTyped
      <3> QED BY <1>0, <1>4, <2>1, <3>1, <3>3, ReadRequestFrame, Unchanged DEF ServerInv
    <2>2. CASE rest[curConnection] # "body"
      <3>1. /\ fault' = "misread" /\ UNCHANGED <<stack, down, quit, registered, misread>>
            /\ UNCHANGED socketVars /\ UNCHANGED sendVars
        BY <1>4, <2>2 DEF ReadRequest, socketVars
      <3>2. OthersTyped'
        BY <1>0, <3>1 DEF OthersTyped
      <3> QED BY <1>0, <3>1, <3>2, Unchanged DEF ServerInv
    <2> QED BY <2>1, <2>2
  <1>5. CASE DllReturns
    <2>1. Top.request \in Request /\ Goto("reply") /\ AtTop("dll")
      BY <1>0, <1>5, TopOfStack DEF DllReturns, AtTop, Fit
    <2>2. StackInv'
      BY <1>0, <2>1, MovedOn
    <2>3. SendInv'
      BY <1>0, <1>5, <2>1, ReplyMessage, MainThread, SendStep DEF DllReturns
    <2> QED BY <1>0, <1>5, <2>2, <2>3, Unchanged DEF DllReturns, ServerInv
  <1>6. CASE WriteReply
    <2>1. PICK p \in {"stray", "next"} : Goto(p)
      BY <1>6 DEF WriteReply
    <2>2. StackInv'
      BY <1>0, <1>6, <2>1, MovedOn DEF WriteReply
    <2>3. SendInv'
      BY <1>0, <1>6, MainThread, SendStep DEF WriteReply
    <2>4. OthersTyped'
      BY <1>6, WriteTyped DEF WriteReply
    <2> QED BY <1>0, <1>6, <2>2, <2>3, <2>4, Unchanged DEF WriteReply, ServerInv
  <1>7. CASE ReadStray
    <2>1. PICK p \in {"body", "next"} : Goto(p)
      BY <1>7 DEF ReadStray
    <2>2. StackInv'
      BY <1>0, <2>1, Moved
    <2>3. OthersTyped'
      <3>1. misread' \subseteq Connections \cup {Null}
        BY <1>0, <1>7 DEF ReadStray, OthersTyped, SocketState
      <3>2. down' = down /\ quit' = quit /\ registered' = registered
        BY <1>7 DEF ReadStray
      <3>3. fault' \in {"none", "null", "misread", "freed"}
        BY <1>0, <1>7 DEF ReadStray, OthersTyped
      <3> QED BY <1>0, <3>1, <3>2, <3>3 DEF OthersTyped
    <2> QED BY <1>0, <1>7, <2>2, <2>3, Unchanged DEF ReadStray, ServerInv
  <1>8. CASE NextMessage
    <2>1. StackInv'
      BY <1>0, <1>8, Moved DEF NextMessage
    <2> QED BY <1>0, <1>8, <2>1, Unchanged DEF NextMessage, ServerInv
  <1>9. CASE Return
    <2>1. StackInv'
      BY <1>0, <1>9, PoppedStack DEF Return
    <2>2. quit' \in BOOLEAN
      BY <1>0, <1>9 DEF Return, OthersTyped, InExec
    <2>3. fault' \in {"none", "null", "misread", "freed"}
      BY <1>0, <1>9 DEF Return, OthersTyped
    <2>4. OthersTyped'
      BY <1>0, <1>9, <2>2, <2>3 DEF Return, OthersTyped
    <2> QED BY <1>0, <1>9, <2>1, <2>4, Unchanged DEF Return, ServerInv
  <1> QED BY <1>1, <1>2, <1>3, <1>4, <1>5, <1>6, <1>7, <1>8, <1>9 DEF Step

\* The threads that send.
LEMMA ThreadSteps ==
  ASSUME ServerInv, NEW t \in Threads, Report(t) \/ Send(t)
  PROVE  ServerInv'
  <1>0. SocketState /\ StackInv /\ SendInv /\ OthersTyped
    BY DEF ServerInv
  <1>1. CASE Report(t)
    <2>1. SendInv'
      BY <1>0, <1>1, SendStep DEF Report, Messages
    <2> QED BY <1>0, <1>1, <2>1, Unchanged DEF Report, ServerInv
  <1>2. ASSUME fault = "none", Prepare(t), UNCHANGED down, UNCHANGED socketVars,
               UNCHANGED frameVars
        PROVE  ServerInv'
    <2>1. SendInv'
      BY <1>0, <1>2, SendStep
    <2> QED BY <1>0, <1>2, <2>1, Unchanged DEF frameVars, ServerInv
  <1>3. CASE TestConnection(t)
    <2>1. ~ThreadIdle(t)
      BY <1>3 DEF TestConnection, ThreadIdle, AtStep
    <2>2. SendInv'
      BY <1>0, <1>3, <2>1, SendStep DEF TestConnection
    <2> QED BY <1>0, <1>3, <2>2, Unchanged DEF TestConnection, frameVars, ServerInv
  <1>4. CASE WriteReport(t)
    <2>1. SendInv'
      BY <1>0, <1>4, SendStep DEF WriteReport
    <2>2. OthersTyped'
      BY <1>4, WriteTyped DEF WriteReport
    <2> QED BY <1>0, <1>4, <2>1, <2>2, Unchanged DEF WriteReport, ServerInv
  <1> QED BY <1>1, <1>2, <1>3, <1>4 DEF Send

LEMMA NextServer == ServerInv /\ [Next]_vars => ServerInv'
  <1> SUFFICES ASSUME ServerInv, [Next]_vars PROVE ServerInv'
    OBVIOUS
  <1>1. CASE UNCHANGED vars
    BY <1>1, Unchanged DEF vars, socketVars, sendVars, ServerInv
  <1>2. CASE Next
    BY <1>2, ConnectionSteps, FrameSteps, ThreadSteps DEF Next
  <1> QED BY <1>1, <1>2

\* Every reachable state has its type, and keeps the bookkeeping it needs.
THEOREM ServerBookkeeping == Spec => []ServerInv
  BY InitServer, NextServer, PTL DEF Spec

\* Every reachable state of the server has its type, whatever its clients send
\* and whichever threads the DLL calls back on.
THEOREM TypeCorrect == Spec => []TypeOK
  BY ServerBookkeeping, InvTyped, PTL

-----------------------------------------------------------------------------
(***************************************************************************)
(* Part 2.  The DLL calls back on the main thread: one thread prepares     *)
(* messages.  At each of its steps the buffer holds what it has put there, *)
(* so what write() copies is one message.                                  *)
(***************************************************************************)
Main == job["main"]

BufferInv ==
    /\ Main.pc = "rewind" => buf = <<>>
    /\ Main.pc = "zero" => buf = <<>> /\ pos = 0
    /\ Main.pc = "code" => buf = <<Size(0)>> /\ pos = 1 /\ Main.start = 0
    /\ Main.pc = "payload" => /\ buf = <<Size(0), CodeOf(Main.message)>>
                              /\ pos = 2 /\ Main.start = 0
    /\ Main.pc = "measure" =>
           /\ buf = <<Size(0), CodeOf(Main.message), PayloadOf(Main.message)>>
           /\ pos = 3 /\ Main.start = 0
    /\ Main.pc = "size" =>
           /\ buf = <<Size(0), CodeOf(Main.message), PayloadOf(Main.message)>>
           /\ pos = 0 /\ Main.size = 3
    /\ Main.pc \in {"prepared", "tested"} => buf = Encoded(Main.message)

\* What is put at the end of the buffer, and over its first word.
LEMMA PutAtEnd ==
  ASSUME NEW w, Put(w)
  PROVE  /\ buf = <<>> /\ pos = 0 => buf' = <<w>> /\ pos' = 1
         /\ \A a : buf = <<a>> /\ pos = 1 => buf' = <<a, w>> /\ pos' = 2
         /\ \A a, b : buf = <<a, b>> /\ pos = 2 => buf' = <<a, b, w>> /\ pos' = 3
         /\ \A a, b, c : buf = <<a, b, c>> /\ pos = 0 => buf' = <<w, b, c>> /\ pos' = 1
  <1> USE DEF Put
  <1>1. buf = <<>> /\ pos = 0 => buf' = <<w>> /\ pos' = 1
    OBVIOUS
  <1>2. \A a : buf = <<a>> /\ pos = 1 => buf' = <<a, w>> /\ pos' = 2
    OBVIOUS
  <1>3. \A a, b : buf = <<a, b>> /\ pos = 2 => buf' = <<a, b, w>> /\ pos' = 3
    OBVIOUS
  <1>4. \A a, b, c : buf = <<a, b, c>> /\ pos = 0 => buf' = <<w, b, c>> /\ pos' = 1
    OBVIOUS
  <1> QED BY <1>1, <1>2, <1>3, <1>4

LEMMA MainTyped ==
  ASSUME SendInv
  PROVE  /\ "main" \in DOMAIN job
         /\ Main \in [pc: Steps, message: Messages \cup {"none"}, start: Nat, size: Nat]
         /\ Main.pc # "idle" => Main.message \in Messages
  BY MainThread DEF SendInv, SendTypeOK, JobInv, ThreadIdle, AtStep, Main

LEMMA MainAdvances ==
  ASSUME SendInv, NEW p, Advance("main", p)
  PROVE  Main' = [Main EXCEPT !.pc = p]
  BY MainTyped DEF Advance, Main

LEMMA PreparedBuffer ==
  ASSUME SendInv, BufferInv, Prepare("main")
  PROVE  BufferInv' /\ Main'.message = Main.message /\ Main'.pc # "idle" /\ Main'.pc # "tested"
  <1>0. Main \in [pc: Steps, message: Messages \cup {"none"}, start: Nat, size: Nat]
    BY MainTyped
  <1>1. CASE Clear("main")
    <2>1. Main' = [Main EXCEPT !.pc = "rewind"] /\ buf' = <<>>
      BY <1>1, MainAdvances DEF Clear
    <2> QED BY <1>0, <2>1 DEF BufferInv
  <1>2. CASE Rewind("main")
    <2>1. Main' = [Main EXCEPT !.pc = "zero"] /\ pos' = 0 /\ buf' = buf /\ Main.pc = "rewind"
      BY <1>2, MainAdvances DEF Rewind, AtStep, Main
    <2> QED BY <1>0, <2>1 DEF BufferInv
  <1>3. CASE PutZero("main")
    <2>1. Main.pc = "zero" /\ Put(Size(0))
      BY <1>3 DEF PutZero, AtStep, Main
    <2>2. Main' = [Main EXCEPT !.pc = "code", !.start = pos]
      BY <1>3, MainTyped DEF PutZero, Main
    <2>3. buf' = <<Size(0)>> /\ pos' = 1 /\ pos = 0
      BY <2>1, PutAtEnd DEF BufferInv
    <2> QED BY <1>0, <2>2, <2>3 DEF BufferInv
  <1>4. CASE PutCode("main")
    <2>1. Main.pc = "code" /\ Put(CodeOf(Main.message))
      BY <1>4 DEF PutCode, AtStep, Main
    <2>2. Main' = [Main EXCEPT !.pc = "payload"]
      BY <1>4, MainAdvances DEF PutCode
    <2>3. buf' = <<Size(0), CodeOf(Main.message)>> /\ pos' = 2 /\ Main.start = 0
      BY <2>1, PutAtEnd DEF BufferInv
    <2> QED BY <1>0, <2>2, <2>3 DEF BufferInv
  <1>5. CASE PutPayload("main")
    <2>1. Main.pc = "payload" /\ Put(PayloadOf(Main.message))
      BY <1>5 DEF PutPayload, AtStep, Main
    <2>2. Main' = [Main EXCEPT !.pc = "measure"]
      BY <1>5, MainAdvances DEF PutPayload
    <2>3. /\ buf' = <<Size(0), CodeOf(Main.message), PayloadOf(Main.message)>> /\ pos' = 3
          /\ Main.start = 0
      BY <2>1, PutAtEnd DEF BufferInv
    <2> QED BY <1>0, <2>2, <2>3 DEF BufferInv
  <1>6. CASE Measure("main")
    <2>1. /\ Main.pc = "measure" /\ pos' = Main.start /\ buf' = buf
          /\ Main' = [Main EXCEPT !.pc = "size", !.size = Len(buf)]
      BY <1>6, MainTyped DEF Measure, AtStep, Main
    <2>2. /\ buf = <<Size(0), CodeOf(Main.message), PayloadOf(Main.message)>>
          /\ Main.start = 0
      BY <2>1 DEF BufferInv
    <2>3. Len(buf) = 3
      BY <2>2
    <2> QED BY <1>0, <2>1, <2>2, <2>3 DEF BufferInv
  <1>7. CASE PutSize("main")
    <2>1. Main.pc = "size" /\ Put(Size(Main.size - 1))
      BY <1>7 DEF PutSize, AtStep, Main
    <2>2. Main' = [Main EXCEPT !.pc = "prepared"]
      BY <1>7, MainAdvances DEF PutSize
    <2>3. /\ buf = <<Size(0), CodeOf(Main.message), PayloadOf(Main.message)>>
          /\ pos = 0 /\ Main.size - 1 = 2
      BY <2>1 DEF BufferInv
    <2>4. buf' = Encoded(Main.message)
      BY <2>1, <2>3, PutAtEnd DEF Encoded
    <2> QED BY <1>0, <2>2, <2>4 DEF BufferInv
  <1> QED BY <1>1, <1>2, <1>3, <1>4, <1>5, <1>6, <1>7 DEF Prepare

\* The other steps of a thread do not touch what is prepared.
LEMMA OtherBuffer ==
  ASSUME SendInv, BufferInv
  PROVE  /\ \A m : Begin("main", m) => /\ BufferInv' /\ Main.pc = "idle"
                                      /\ Main'.message = m /\ Main'.pc = "clear"
         /\ End("main") => BufferInv' /\ Main'.pc = "idle"
         /\ AtStep("main", "prepared") /\ Advance("main", "tested") /\ UNCHANGED <<buf, pos>>
              => BufferInv' /\ Main'.message = Main.message /\ Main'.pc = "tested"
         /\ UNCHANGED sendVars => BufferInv' /\ Main' = Main
  <1>0. Main \in [pc: Steps, message: Messages \cup {"none"}, start: Nat, size: Nat]
    BY MainTyped
  <1>1. ASSUME NEW m, Begin("main", m)
        PROVE  BufferInv' /\ Main.pc = "idle" /\ Main'.message = m /\ Main'.pc = "clear"
    <2>1. Main' = [Idle EXCEPT !.pc = "clear", !.message = m] /\ Main.pc = "idle"
      BY <1>1, MainTyped DEF Begin, Main, ThreadIdle, AtStep
    <2>2. Main'.pc = "clear" /\ Main'.message = m
      BY <2>1 DEF Idle
    <2> QED BY <2>1, <2>2 DEF BufferInv
  <1>2. ASSUME End("main") PROVE BufferInv' /\ Main'.pc = "idle"
    <2>1. Main'.pc = "idle"
      BY <1>2, MainTyped DEF End, Main, Idle
    <2> QED BY <2>1 DEF BufferInv
  <1>3. ASSUME AtStep("main", "prepared"), Advance("main", "tested"), UNCHANGED <<buf, pos>>
        PROVE  BufferInv' /\ Main'.message = Main.message /\ Main'.pc = "tested"
    <2>1. Main.pc = "prepared" /\ Main' = [Main EXCEPT !.pc = "tested"] /\ buf' = buf
      BY <1>3, MainAdvances DEF AtStep, Main
    <2> QED BY <1>0, <2>1 DEF BufferInv
  <1>4. UNCHANGED sendVars => BufferInv' /\ Main' = Main
    BY DEF sendVars, BufferInv, Main
  <1> QED BY <1>1, <1>2, <1>3, <1>4

-----------------------------------------------------------------------------
(***************************************************************************)
(* Who prepares what: a frame that replies has the reply of its request in *)
(* hand, anything else in hand is a report, and the callback it is made    *)
(* for is still registered, because the one thread that could drop it is   *)
(* the one that reports.                                                   *)
(***************************************************************************)
AtReply == stack # <<>> /\ Top.pc = "reply"
Executed(f) == f.request.code = SetConnStatus => registered = (f.request.isSet = "yes")

HandInv ==
    fault = "none" =>
        /\ AtReply => Main.pc # "idle" /\ Main.message = ReplyCode(Top.request.code)
        /\ ~AtReply /\ Main.pc # "idle" => Main.message = ConnStatus /\ registered
        /\ Main.pc = "tested" => ~AtReply
        /\ stack # <<>> /\ Top.pc \in {"dll", "reply"} => Executed(Top)

OneThread == ServerInv /\ BufferInv /\ HandInv /\ WholeMessages

LEMMA RepliesAreNoReports ==
  ASSUME NEW c, c \notin Unanswered PROVE ReplyCode(c) # ConnStatus
  BY DEF ReplyCode, Unanswered, CallbackCodes, ConnStatus, TransReply, OrderStatus, TradeStatus

LEMMA OnlyMain == DllThread = FALSE => \A t \in Threads : t = "main"
  BY ServerAssumption

\* What is copied to a socket is whole, and only what is copied counts.
LEMMA WholeWrite ==
  ASSUME ServerInv, BufferInv, WholeMessages, Main.pc \in {"prepared", "tested"}, Write
  PROVE  WholeMessages'
  <1>1. Main.message \in Messages /\ buf = Encoded(Main.message)
    BY MainTyped DEF BufferInv, ServerInv
  <1>2. down \in [Connections -> Seq(Seq(Word(Messages)))]
    BY DEF ServerInv, OthersTyped
  <1>3. CASE curConnection # Null /\ link[curConnection] = "open"
    <2> DEFINE d == Append(down[curConnection], buf)
    <2>1. curConnection \in Connections
      BY <1>3 DEF ServerInv, SocketState
    <2>2. down' = [down EXCEPT ![curConnection] = d]
      BY <1>3 DEF Write
    <2>3. \A i \in DOMAIN d : \E m \in Messages : d[i] = Encoded(m)
      <3>1. \A i \in DOMAIN d : d[i] = buf \/ (/\ i \in DOMAIN down[curConnection]
                                              /\ d[i] = down[curConnection][i])
        BY <1>2, <2>1
      <3> HIDE DEF d
      <3> QED BY <1>1, <2>1, <3>1 DEF WholeMessages
    <2> HIDE DEF d
    <2> QED BY <1>2, <2>1, <2>2, <2>3 DEF WholeMessages
  <1>4. CASE ~(curConnection # Null /\ link[curConnection] = "open")
    BY <1>4 DEF Write, WholeMessages
  <1> QED BY <1>3, <1>4

LEMMA WholeUnchanged == WholeMessages /\ UNCHANGED down => WholeMessages'
  BY DEF WholeMessages

\* While the main thread sends nothing, a step to another frame, or of the
\* running one to somewhere else than the DLL, keeps HandInv.
LEMMA IdleHand ==
  ASSUME Main.pc = "idle", Main' = Main,
         stack' = <<>> \/ Top'.pc \notin {"dll", "reply"}
  PROVE  HandInv'
  BY DEF HandInv, AtReply

LEMMA KeptHand ==
  ASSUME HandInv, UNCHANGED <<stack, registered, job, fault>>
  PROVE  HandInv'
  BY DEF HandInv, AtReply, Executed, Top, Main

LEMMA InitOneThread == Init => OneThread
  <1> SUFFICES ASSUME Init PROVE OneThread
    OBVIOUS
  <1>1. Main.pc = "idle"
    BY MainThread DEF Init, SendInit, Main, Idle
  <1>2. stack = <<>> /\ \A c \in Connections : down[c] = <<>>
    BY DEF Init
  <1> QED BY <1>1, <1>2, InitServer
      DEF OneThread, BufferInv, HandInv, AtReply, WholeMessages

LEMMA MainIdle ==
  /\ InEventLoop => Main.pc = "idle"
  /\ Running => Main.pc = "idle" /\ stack # <<>>
  /\ ThreadIdle("main") <=> Main.pc = "idle"
  BY DEF InEventLoop, Running, ThreadIdle, AtStep, Main

LEMMA ConnectionKeepsHand ==
  ASSUME OneThread, NEW c \in Connections,
         Ask(c) \/ Read(c) \/ ClientConnected(c) \/ Disconnected(c) \/ Deleted(c) \/ Receive(c)
  PROVE  BufferInv' /\ HandInv' /\ WholeMessages'
  <1>0. SendInv /\ StackInv /\ BufferInv /\ HandInv /\ WholeMessages
    BY DEF OneThread, ServerInv
  <1>1. UNCHANGED sendVars
    BY DEF Ask, Read, ClientConnected, Disconnected, Deleted, Receive
  <1>2. BufferInv' /\ Main' = Main
    BY <1>0, <1>1, OtherBuffer
  <1>3. HandInv'
    <2>1. CASE UNCHANGED frameVars
      BY <1>0, <1>1, <2>1, KeptHand DEF frameVars, sendVars
    <2>2. CASE Receive(c)
      <3> DEFINE f == [conn |-> c, request |-> NoRequest, pc |-> "size"]
      <3>1. f \in Frame /\ f.pc = "size"
        BY DEF Frame
      <3>2. UNCHANGED <<stack, registered, fault>> \/ stack' = Append(stack, f)
        BY <2>2 DEF Receive
      <3>3. InEventLoop /\ (stack # <<>> => InLoop(Top))
        BY <2>2, EventsInLoop DEF Receive
      <3> HIDE DEF f
      <3>4. CASE UNCHANGED <<stack, registered, fault>>
        BY <1>0, <1>1, <3>4, KeptHand DEF sendVars
      <3>5. CASE stack' = Append(stack, f)
        <4>1. Top' = f
          BY <1>0, <3>1, <3>3, <3>5, PushedStack
        <4> QED BY <1>2, <3>1, <3>3, <4>1, MainIdle, IdleHand
      <3> QED BY <3>2, <3>4, <3>5
    <2> QED BY <2>1, <2>2 DEF Ask, Read, ClientConnected, Disconnected, Deleted
  <1>4. WholeMessages'
    <2>1. down \in [Connections -> Seq(Seq(Word(Messages)))]
      BY DEF OneThread, ServerInv, OthersTyped
    <2>2. CASE Read(c)
      <3>1. down' = [down EXCEPT ![c] = Tail(down[c])] /\ down[c] # <<>>
        BY <2>2 DEF Read
      <3>2. \A i \in DOMAIN Tail(down[c]) : i + 1 \in DOMAIN down[c]
                                          /\ Tail(down[c])[i] = down[c][i + 1]
        BY <2>1, <3>1
      <3> QED BY <1>0, <2>1, <3>1, <3>2 DEF WholeMessages
    <2>3. CASE Disconnected(c)
      BY <1>0, <2>1, <2>3 DEF Disconnected, WholeMessages
    <2> QED BY <1>0, <2>2, <2>3, WholeUnchanged
            DEF Ask, ClientConnected, Deleted, Receive
  <1> QED BY <1>2, <1>3, <1>4

LEMMA FrameKeepsHand ==
  ASSUME OneThread, Step
  PROVE  BufferInv' /\ HandInv' /\ WholeMessages'
  <1>0. /\ ServerInv /\ SocketState /\ SendInv /\ StackInv
        /\ BufferInv /\ HandInv /\ WholeMessages /\ stack # <<>> /\ fault = "none"
    BY DEF OneThread, ServerInv, Step, Running, AtTop, ExecReturns, WaitForBytes, ReadSize,
           ReadRequest, DllReturns, WriteReply, ReadStray, NextMessage, Return
  <1>a. Top \in Frame
    BY <1>0, TopOfStack
  <1>1. ASSUME Running, UNCHANGED sendVars, UNCHANGED down,
               stack' = <<>> \/ Top'.pc \notin {"dll", "reply"}
        PROVE  BufferInv' /\ HandInv' /\ WholeMessages'
    BY <1>0, <1>1, OtherBuffer, MainIdle, IdleHand, WholeUnchanged
  <1>2. ASSUME Running, UNCHANGED sendVars, UNCHANGED down,
               NEW p \in {"size", "execSize", "body", "execBody", "next"}, Goto(p)
        PROVE  BufferInv' /\ HandInv' /\ WholeMessages'
    <2>1. Top'.pc = p
      BY <1>0, <1>a, <1>2, Moved DEF Frame
    <2> QED BY <1>1, <1>2, <2>1
  <1>3. CASE ExecReturns
    BY <1>2, <1>3 DEF ExecReturns
  <1>4. CASE WaitForBytes
    <2>1. PICK p \in {"size", "body"} : Goto(Entered(p))
      BY <1>4 DEF WaitForBytes
    <2>2. Entered(p) \in {"size", "execSize", "body", "execBody", "next"}
      BY DEF Entered
    <2> QED BY <1>2, <1>4, <2>1, <2>2 DEF WaitForBytes
  <1>5. CASE ReadSize
    BY <1>2, <1>5 DEF ReadSize
  <1>6. CASE ReadRequest
    <2>1. CASE rest[curConnection] = "body"
      <3> DEFINE r == Head(pending[curConnection])
                 p == IF r.code \in Unanswered THEN "stray" ELSE "dll"
      <3>1. Top' = [Top EXCEPT !.request = r, !.pc = p]
        BY <1>0, <1>6, <2>1, ReadRequestFrame
      <3>2. Top'.request = r /\ Top'.pc = p
        BY <1>a, <3>1 DEF Frame
      <3>3. r.code = SetConnStatus => registered' = (r.isSet = "yes")
        BY <1>6, <2>1 DEF ReadRequest, SetCallback
      <3> HIDE DEF r
      <3>4. Executed(Top)'
        BY <3>2, <3>3, Zenon DEF Executed
      <3>5. BufferInv' /\ Main' = Main /\ Main.pc = "idle"
        BY <1>0, <1>6, OtherBuffer, MainIdle DEF ReadRequest
      <3>6. Top'.pc # "reply"
        BY <3>2
      <3>7. HandInv'
        BY <3>4, <3>5, <3>6 DEF HandInv, AtReply
      <3> QED BY <1>0, <1>6, <3>5, <3>7, WholeUnchanged DEF ReadRequest
    <2>2. CASE rest[curConnection] # "body"
      <3>1. UNCHANGED stack /\ Running /\ AtTop("body") /\ UNCHANGED sendVars /\ UNCHANGED down
        BY <1>6, <2>2 DEF ReadRequest
      <3>2. Top'.pc = "body"
        BY <3>1 DEF AtTop, Top
      <3> QED BY <1>1, <3>1, <3>2
    <2> QED BY <2>1, <2>2
  <1>7. CASE DllReturns
    <2>1. AtTop("dll") /\ Goto("reply") /\ Begin("main", ReplyCode(Top.request.code))
          /\ UNCHANGED <<registered, fault, down>>
      BY <1>7 DEF DllReturns
    <2>2. BufferInv' /\ Main'.message = ReplyCode(Top.request.code) /\ Main'.pc = "clear"
      BY <1>0, <2>1, OtherBuffer
    <2>3. Top' = [Top EXCEPT !.pc = "reply"]
      BY <1>0, <2>1, MovedOn
    <2>4. Top'.pc = "reply" /\ Top'.request = Top.request
      BY <1>a, <2>3 DEF Frame
    <2>5. Executed(Top)
      BY <1>0, <2>1 DEF HandInv, AtTop
    <2>6. Executed(Top)'
      BY <2>1, <2>4, <2>5 DEF Executed
    <2>7. stack' # <<>>
      BY <1>0, <2>1 DEF Goto, StackInv
    <2>8. HandInv'
      BY <2>2, <2>4, <2>6, <2>7 DEF HandInv, AtReply
    <2> QED BY <1>0, <2>1, <2>2, <2>8, WholeUnchanged
  <1>8. CASE WriteReply
    <2>1. PICK p \in {"stray", "next"} : Goto(p)
      BY <1>8 DEF WriteReply
    <2>2. Top'.pc = p
      BY <1>0, <1>a, <1>8, <2>1, MovedOn DEF WriteReply, Frame
    <2>3. Main.pc = "prepared" /\ End("main") /\ Write
      BY <1>8 DEF WriteReply, AtStep, Main
    <2>4. BufferInv' /\ Main'.pc = "idle"
      BY <1>0, <2>3, OtherBuffer
    <2>5. HandInv'
      BY <2>2, <2>4 DEF HandInv, AtReply
    <2> QED BY <1>0, <2>3, <2>4, <2>5, WholeWrite
  <1>9. CASE ReadStray
    <2>1. PICK p \in {"body", "next"} : Goto(p)
      BY <1>9 DEF ReadStray
    <2> QED BY <1>2, <1>9, <2>1 DEF ReadStray
  <1>10. CASE NextMessage
    BY <1>2, <1>10 DEF NextMessage
  <1>11. CASE Return
    <2>1. stack' # <<>> => Top'.pc \in {"execSize", "execBody"}
      BY <1>0, <1>11, PoppedStack DEF Return, InLoop
    <2> QED BY <1>1, <1>11, <2>1 DEF Return
  <1> QED BY <1>3, <1>4, <1>5, <1>6, <1>7, <1>8, <1>9, <1>10, <1>11 DEF Step

LEMMA ThreadKeepsHand ==
  ASSUME OneThread, Report("main") \/ Send("main")
  PROVE  BufferInv' /\ HandInv' /\ WholeMessages'
  <1>0. /\ ServerInv /\ SendInv /\ BufferInv /\ HandInv /\ WholeMessages /\ fault = "none"
    BY DEF OneThread, ServerInv, Report, Send, TestConnection, WriteReport
  <1>1. CASE Report("main")
    <2>1. Begin("main", ConnStatus) /\ registered /\ UNCHANGED <<registered, fault, stack, down>>
      BY <1>1 DEF Report
    <2>2. BufferInv' /\ Main.pc = "idle" /\ Main'.message = ConnStatus /\ Main'.pc = "clear"
      BY <1>0, <2>1, OtherBuffer
    <2>3. ~AtReply
      BY <1>0, <2>2 DEF HandInv
    <2>4. HandInv'
      BY <1>0, <2>1, <2>2, <2>3 DEF HandInv, AtReply, Executed, Top
    <2> QED BY <1>0, <2>1, <2>2, <2>4, WholeUnchanged
  <1>2. ASSUME Prepare("main"), UNCHANGED down, UNCHANGED frameVars
        PROVE  BufferInv' /\ HandInv' /\ WholeMessages'
    <2>1. /\ BufferInv' /\ Main'.message = Main.message
          /\ Main'.pc # "idle" /\ Main'.pc # "tested"
      BY <1>0, <1>2, PreparedBuffer
    <2>2. Main.pc # "idle"
      BY <1>2 DEF Prepare, Clear, Rewind, PutZero, PutCode, PutPayload, Measure, PutSize,
                  AtStep, Main
    <2>3. HandInv'
      BY <1>0, <1>2, <2>1, <2>2 DEF HandInv, AtReply, Executed, Top, frameVars
    <2> QED BY <1>0, <1>2, <2>1, <2>3, WholeUnchanged
  <1>3. CASE TestConnection("main")
    <2>1. /\ Main.pc = "prepared" /\ Main.message = ConnStatus
          /\ UNCHANGED down /\ UNCHANGED <<stack, registered, fault>>
      BY <1>3 DEF TestConnection, AtStep, Main, frameVars
    <2>2. ~AtReply
      <3> SUFFICES ASSUME AtReply PROVE FALSE
        OBVIOUS
      <3>1. Top.request.code \notin Unanswered
        BY <1>0, TopOfStack DEF ServerInv, AtReply, Fit
      <3>2. ReplyCode(Top.request.code) = ConnStatus
        BY <1>0, <2>1 DEF HandInv
      <3> QED BY <3>1, <3>2, RepliesAreNoReports
    <2>3. \/ BufferInv' /\ Main'.pc = "idle"
          \/ BufferInv' /\ Main'.message = Main.message /\ Main'.pc = "tested"
      BY <1>0, <1>3, OtherBuffer DEF TestConnection
    <2>4. HandInv'
      BY <1>0, <2>1, <2>2, <2>3 DEF HandInv, AtReply, Executed, Top
    <2> QED BY <1>0, <2>1, <2>3, <2>4, WholeUnchanged
  <1>4. CASE WriteReport("main")
    <2>1. Main.pc = "tested" /\ End("main") /\ Write /\ UNCHANGED <<stack, registered>>
      BY <1>4 DEF WriteReport, AtStep, Main
    <2>2. BufferInv' /\ Main'.pc = "idle"
      BY <1>0, <2>1, OtherBuffer
    <2>3. ~AtReply
      BY <1>0, <2>1 DEF HandInv
    <2>4. HandInv'
      BY <1>0, <2>1, <2>2, <2>3 DEF HandInv, AtReply, Executed, Top
    <2> QED BY <1>0, <2>1, <2>2, <2>4, WholeWrite
  <1> QED BY <1>1, <1>2, <1>3, <1>4 DEF Send

LEMMA NextOneThread ==
  ASSUME DllThread = FALSE, OneThread, [Next]_vars
  PROVE  OneThread'
  <1>1. ServerInv'
    BY NextServer DEF OneThread
  <1>2. BufferInv' /\ HandInv' /\ WholeMessages'
    <2>1. CASE UNCHANGED vars
      <3>1. UNCHANGED sendVars /\ UNCHANGED down /\ UNCHANGED <<stack, registered, job, fault>>
        BY <2>1 DEF vars, sendVars
      <3> QED BY <3>1, OtherBuffer, KeptHand, WholeUnchanged DEF OneThread, ServerInv
    <2>2. CASE Next
      BY <2>2, OnlyMain, ConnectionKeepsHand, FrameKeepsHand, ThreadKeepsHand DEF Next
    <2> QED BY <2>1, <2>2
  <1> QED BY <1>1, <1>2 DEF OneThread

THEOREM OneThreadBookkeeping == DllThread = FALSE => (Spec => []OneThread)
  <1> SUFFICES ASSUME DllThread = FALSE PROVE Spec => []OneThread
    OBVIOUS
  <1> QED BY InitOneThread, NextOneThread, PTL DEF Spec

\* Called back on the main thread, the server never hands a socket anything but
\* whole messages, though it prepares replies and reports in one buffer.
THEOREM MessagesWhole == DllThread = FALSE => (Spec => []WholeMessages)
  <1>1. OneThread => WholeMessages
    BY DEF OneThread
  <1> QED BY <1>1, OneThreadBookkeeping, PTL

=============================================================================
