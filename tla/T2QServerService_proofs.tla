------------------------ MODULE T2QServerService_proofs ------------------------
(***************************************************************************)
(* T2QServer keeps the promise of T2QService for every value of its        *)
(* constants, provided the DLL calls back on the main thread: whatever the *)
(* clients send and in whichever pieces it arrives, however many connect   *)
(* and go, the server answers in order, once, and reports only while the   *)
(* callback is registered.                                                 *)
(***************************************************************************)
EXTENDS T2QServer_proofs

-----------------------------------------------------------------------------
(***************************************************************************)
(* The connection the server talks to has been made.                       *)
(***************************************************************************)
CurrentMade == curConnection # Null => link[curConnection] # "new"

LEMMA MadeStep ==
  ASSUME ServerInv, CurrentMade, [Next]_vars
  PROVE  CurrentMade'
  <1>0. link \in [Connections -> Links] /\ curConnection \in Connections \cup {Null}
    BY DEF ServerInv, SocketState
  <1>1. CASE UNCHANGED <<link, curConnection>>
    BY <1>1 DEF CurrentMade
  <1>2. ASSUME NEW c \in Connections, NEW l \in Links \ {"new"},
               link' = [link EXCEPT ![c] = l],
               curConnection' \in {curConnection, c, Null}
        PROVE  CurrentMade'
    BY <1>0, <1>2 DEF CurrentMade
  <1>3. ASSUME NEW c \in Connections, ClientConnected(c) \/ Disconnected(c) \/ Deleted(c)
        PROVE  CurrentMade'
    <2>1. \E l \in Links \ {"new"} : link' = [link EXCEPT ![c] = l]
      BY <1>3 DEF ClientConnected, Disconnected, Deleted, Links
    <2>2. curConnection' \in {curConnection, c, Null}
      BY <1>3 DEF ClientConnected, Disconnected, Deleted
    <2> QED BY <1>2, <2>1, <2>2
  <1>4. ASSUME NEW c \in Connections, Ask(c) \/ Read(c) \/ Receive(c)
        PROVE  UNCHANGED <<link, curConnection>>
    BY <1>4 DEF Ask, Read, Receive, socketVars
  <1>5. Step => UNCHANGED <<link, curConnection>>
    BY DEF Step, ExecReturns, WaitForBytes, ReadSize, ReadRequest, DllReturns, WriteReply,
           ReadStray, NextMessage, Return, socketVars
  <1>6. \A t \in Threads : Report(t) \/ Send(t) => UNCHANGED <<link, curConnection>>
    BY DEF Report, Send, TestConnection, WriteReport, socketVars
  <1>7. UNCHANGED vars => UNCHANGED <<link, curConnection>>
    BY DEF vars
  <1> QED BY <1>1, <1>3, <1>4, <1>5, <1>6, <1>7 DEF Next

-----------------------------------------------------------------------------
(***************************************************************************)
(* Sequences.                                                              *)
(***************************************************************************)
LEMMA Concat ==
  ASSUME NEW S, NEW p \in Seq(S), NEW r \in S
  PROVE  /\ <<>> \o p = p
         /\ <<r>> \o p \in Seq(S) /\ <<r>> \o p # <<>>
         /\ Head(<<r>> \o p) = r /\ Tail(<<r>> \o p) = p
         /\ p # <<>> => Head(p) \in S /\ <<Head(p)>> \o Tail(p) = p
         /\ p # <<>> => Tail(p) \in Seq(S)
  <1>1. <<>> \o p = p
    OBVIOUS
  <1>2. <<r>> \o p \in Seq(S) /\ <<r>> \o p # <<>>
    OBVIOUS
  <1>3. Head(<<r>> \o p) = r /\ Tail(<<r>> \o p) = p
    OBVIOUS
  <1>4. p # <<>> => Head(p) \in S /\ Tail(p) \in Seq(S) /\ <<Head(p)>> \o Tail(p) = p
    OBVIOUS
  <1> QED BY <1>1, <1>2, <1>3, <1>4

LEMMA ConcatAppend ==
  ASSUME NEW S, NEW e \in Seq(S), NEW p \in Seq(S), NEW r \in S
  PROVE  e \o Append(p, r) = Append(e \o p, r)
  OBVIOUS

\* The codes of what was written to a client.
Codes(d) == [i \in DOMAIN d |-> d[i][2][2]]

Whole(d) == \A i \in DOMAIN d : \E m \in Messages : d[i] = Encoded(m)

LEMMA FunctionIsSeq ==
  ASSUME NEW S, NEW n \in Nat, NEW f \in [1 .. n -> S]
  PROVE  f \in Seq(S) /\ Len(f) = n
  <1>1. f \in Seq(S)
    OBVIOUS
  <1>2. DOMAIN f = 1 .. n /\ DOMAIN f = 1 .. Len(f) /\ Len(f) \in Nat
    BY <1>1
  <1> QED BY <1>1, <1>2

LEMMA SameSeq ==
  ASSUME NEW S, NEW s \in Seq(S), NEW t \in Seq(S), Len(s) = Len(t),
         \A i \in 1 .. Len(s) : s[i] = t[i]
  PROVE  s = t
  OBVIOUS

LEMMA AppendTail ==
  ASSUME NEW S, NEW q \in Seq(S), NEW m \in S
  PROVE  /\ Append(q, m) \in Seq(S) /\ Len(Append(q, m)) = Len(q) + 1
         /\ Append(q, m)[Len(q) + 1] = m
         /\ \A i \in 1 .. Len(q) : Append(q, m)[i] = q[i]
         /\ q # <<>> => /\ Tail(q) \in Seq(S) /\ Len(Tail(q)) = Len(q) - 1
                        /\ \A i \in 1 .. Len(q) - 1 : Tail(q)[i] = q[i + 1]
  OBVIOUS

LEMMA CodesTyped ==
  ASSUME NEW d \in Seq(Seq(Word(Messages))), Whole(d)
  PROVE  /\ Codes(d) \in Seq(Messages) /\ Len(Codes(d)) = Len(d)
         /\ \A i \in 1 .. Len(d) : Codes(d)[i] = d[i][2][2]
  <1>1. DOMAIN d = 1 .. Len(d) /\ Len(d) \in Nat
    OBVIOUS
  <1>2. \A i \in 1 .. Len(d) : d[i][2][2] \in Messages
    BY <1>1 DEF Whole, Encoded, CodeOf
  <1>3. Codes(d) \in [1 .. Len(d) -> Messages]
    BY <1>1, <1>2 DEF Codes
  <1>4. \A i \in 1 .. Len(d) : Codes(d)[i] = d[i][2][2]
    BY <1>1 DEF Codes
  <1> QED BY <1>1, <1>3, <1>4, FunctionIsSeq

LEMMA CodesAppended ==
  ASSUME NEW d \in Seq(Seq(Word(Messages))), Whole(d), NEW e \in Seq(Word(Messages)),
         NEW m \in Messages, e = Encoded(m)
  PROVE  Codes(Append(d, e)) = Append(Codes(d), m)
  <1> DEFINE q == Codes(d)
             r == Append(d, e)
             s == Append(q, m)
  <1>1. q \in Seq(Messages) /\ Len(q) = Len(d) /\ \A i \in 1 .. Len(d) : q[i] = d[i][2][2]
    BY CodesTyped
  <1>2. /\ r \in Seq(Seq(Word(Messages))) /\ Len(r) = Len(d) + 1 /\ Len(d) \in Nat
        /\ r[Len(d) + 1] = e /\ \A i \in 1 .. Len(d) : r[i] = d[i]
    OBVIOUS
  <1>3. e[2][2] = m
    BY DEF Encoded, CodeOf
  <1>4. Whole(r)
    <2>1. \A i \in DOMAIN r : i = Len(d) + 1 \/ i \in 1 .. Len(d)
      BY <1>2
    <2>2. \A i \in 1 .. Len(d) : i \in DOMAIN d
      OBVIOUS
    <2> HIDE DEF r
    <2> QED BY <1>2, <2>1, <2>2 DEF Whole
  <1> HIDE DEF q, r
  <1>5. /\ Codes(r) \in Seq(Messages) /\ Len(Codes(r)) = Len(r)
        /\ \A i \in 1 .. Len(r) : Codes(r)[i] = r[i][2][2]
    BY <1>2, <1>4, CodesTyped
  <1>6. /\ s \in Seq(Messages) /\ Len(s) = Len(d) + 1 /\ s[Len(d) + 1] = m
        /\ \A i \in 1 .. Len(d) : s[i] = q[i]
    BY <1>1, AppendTail
  <1> HIDE DEF s
  <1>7. \A i \in 1 .. Len(d) + 1 : Codes(r)[i] = s[i]
    <2> TAKE i \in 1 .. Len(d) + 1
    <2>1. i \in 1 .. Len(r) /\ (i \in 1 .. Len(d) \/ i = Len(d) + 1)
      BY <1>2
    <2>2. Codes(r)[i] = r[i][2][2]
      BY <1>5, <2>1
    <2>3. CASE i \in 1 .. Len(d)
      <3>1. r[i] = d[i] /\ s[i] = q[i] /\ q[i] = d[i][2][2]
        BY <1>1, <1>2, <1>6, <2>3
      <3> QED BY <2>2, <3>1
    <2>4. CASE i = Len(d) + 1
      BY <1>2, <1>3, <1>6, <2>2, <2>4
    <2> QED BY <2>1, <2>3, <2>4
  <1>8. Codes(r) = s
    BY <1>2, <1>5, <1>6, <1>7, SameSeq
  <1> QED BY <1>8 DEF q, r, s

LEMMA CodesTail ==
  ASSUME NEW d \in Seq(Seq(Word(Messages))), Whole(d), d # <<>>
  PROVE  Codes(d) # <<>> /\ Codes(Tail(d)) = Tail(Codes(d))
  <1> DEFINE q == Codes(d)
             r == Tail(d)
             s == Tail(q)
  <1>1. q \in Seq(Messages) /\ Len(q) = Len(d) /\ \A i \in 1 .. Len(d) : q[i] = d[i][2][2]
    BY CodesTyped
  <1>2. /\ r \in Seq(Seq(Word(Messages))) /\ Len(r) = Len(d) - 1 /\ Len(d) \in Nat \ {0}
        /\ \A i \in 1 .. Len(d) - 1 : r[i] = d[i + 1]
    OBVIOUS
  <1>3. Whole(r)
    <2>1. \A i \in DOMAIN r : i + 1 \in DOMAIN d /\ r[i] = d[i + 1]
      BY <1>2
    <2> HIDE DEF r
    <2> QED BY <2>1 DEF Whole
  <1> HIDE DEF q, r
  <1>4. /\ Codes(r) \in Seq(Messages) /\ Len(Codes(r)) = Len(r)
        /\ \A i \in 1 .. Len(r) : Codes(r)[i] = r[i][2][2]
    BY <1>2, <1>3, CodesTyped
  <1>5. q # <<>>
    BY <1>1, <1>2
  <1>6. /\ s \in Seq(Messages) /\ Len(s) = Len(d) - 1
        /\ \A i \in 1 .. Len(d) - 1 : s[i] = q[i + 1]
    BY <1>1, <1>5, AppendTail
  <1> HIDE DEF s
  <1>7. \A i \in 1 .. Len(d) - 1 : Codes(r)[i] = s[i]
    <2> TAKE i \in 1 .. Len(d) - 1
    <2>1. i \in 1 .. Len(r) /\ i + 1 \in 1 .. Len(d)
      BY <1>2
    <2>2. Codes(r)[i] = r[i][2][2] /\ r[i] = d[i + 1]
      BY <1>2, <1>4, <2>1
    <2>3. s[i] = q[i + 1] /\ q[i + 1] = d[i + 1][2][2]
      BY <1>1, <1>6, <2>1
    <2> QED BY <2>2, <2>3
  <1>8. Codes(r) = s
    BY <1>2, <1>4, <1>6, <1>7, SameSeq
  <1> QED BY <1>5, <1>8 DEF q, r, s

LEMMA NoCodes == Codes(<<>>) = <<>>
  BY DEF Codes

LEMMA NoneOf ==
  ASSUME NEW S, NEW s \in Seq(S)
  PROVE  SubSeq(s, 1, 0) = <<>> /\ 0 \in 0 .. Len(s)
  <1>1. Len(s) \in Nat
    OBVIOUS
  <1>2. Len(SubSeq(s, 1, 0)) = 0 /\ SubSeq(s, 1, 0) \in Seq(S)
    BY <1>1
  <1> QED BY <1>1, <1>2

-----------------------------------------------------------------------------
(***************************************************************************)
(* The actions of the promise, in terms of the server's variables.         *)
(***************************************************************************)
Stream(c) == Codes(down[c])
Gone(c) == link[c] \notin {"new", "open"}

\* The promise has function codes of its own, and they are the server's.
LEMMA SameCodes ==
  /\ Service!SetConnStatus = SetConnStatus /\ Service!ConnStatus = ConnStatus
  /\ Service!Unanswered = Unanswered
  /\ \A c : Service!ReplyCode(c) = ReplyCode(c)
  BY DEF Service!SetConnStatus, SetConnStatus, Service!ConnStatus, ConnStatus,
         Service!Unanswered, Unanswered, Service!CallbackCodes, CallbackCodes,
         Service!TransReply, TransReply, Service!OrderStatus, OrderStatus,
         Service!TradeStatus, TradeStatus, Service!ReplyCode, ReplyCode

LEMMA Unseen ==
  ASSUME \A c \in Connections : /\ Awaiting(c)' = Awaiting(c) /\ Stream(c)' = Stream(c)
                                /\ Gone(c)' <=> Gone(c),
         registered' = registered
  PROVE  UNCHANGED Service!serviceVars
  <1>1. [c \in Connections |-> Awaiting(c)]' = [c \in Connections |-> Awaiting(c)]
    OBVIOUS
  <1>2. [c \in Connections |-> Stream(c)]' = [c \in Connections |-> Stream(c)]
    OBVIOUS
  <1>3. {c \in Connections : Gone(c)}' = {c \in Connections : Gone(c)}
    OBVIOUS
  <1> QED BY <1>1, <1>2, <1>3 DEF Service!serviceVars, Stream, Codes, Gone

\* One client sees a new queue of requests and a new stream, the others do not.
Seen(c, q, s) ==
    /\ [d \in Connections |-> Awaiting(d)]' =
           [[d \in Connections |-> Awaiting(d)] EXCEPT ![c] = q]
    /\ [d \in Connections |-> Stream(d)]' =
           [[d \in Connections |-> Stream(d)] EXCEPT ![c] = s]
    /\ {d \in Connections : Gone(d)}' = {d \in Connections : Gone(d)}

LEMMA SeenBy ==
  ASSUME NEW c \in Connections, NEW q, NEW s,
         Awaiting(c)' = q, Stream(c)' = s,
         \A d \in Connections : d # c => Awaiting(d)' = Awaiting(d) /\ Stream(d)' = Stream(d),
         \A d \in Connections : Gone(d)' <=> Gone(d)
  PROVE  Seen(c, q, s)
  <1>1. [d \in Connections |-> Awaiting(d)]' =
           [[d \in Connections |-> Awaiting(d)] EXCEPT ![c] = q]
    OBVIOUS
  <1>2. [d \in Connections |-> Stream(d)]' =
           [[d \in Connections |-> Stream(d)] EXCEPT ![c] = s]
    OBVIOUS
  <1>3. {d \in Connections : Gone(d)}' = {d \in Connections : Gone(d)}
    OBVIOUS
  <1> QED BY <1>1, <1>2, <1>3 DEF Seen

\* What a client sees unchanged is a function that is not changed there.
LEMMA SeenKept ==
  ASSUME NEW c \in Connections
  PROVE  /\ [[d \in Connections |-> Awaiting(d)] EXCEPT ![c] = Awaiting(c)]
               = [d \in Connections |-> Awaiting(d)]
         /\ [[d \in Connections |-> Stream(d)] EXCEPT ![c] = Stream(c)]
               = [d \in Connections |-> Stream(d)]
         /\ [d \in Connections |-> Awaiting(d)][c] = Awaiting(c)
         /\ [d \in Connections |-> Stream(d)][c] = Stream(c)
  OBVIOUS

First(c) == Head(Awaiting(c))

LEMMA Asked ==
  ASSUME NEW c \in Connections, NEW r \in Request,
         Seen(c, Append(Awaiting(c), r), Stream(c)), registered' = registered
  PROVE  Service!Next
  <1>1. Service!Ask(c)
    BY SeenKept DEF Service!Ask, Seen, Stream, Codes, Gone
  <1> QED BY <1>1 DEF Service!Next

LEMMA ReadOff ==
  ASSUME NEW c \in Connections, Stream(c) # <<>>,
         Seen(c, Awaiting(c), Tail(Stream(c))), registered' = registered
  PROVE  Service!Next
  <1>1. Service!Read(c)
    BY SeenKept DEF Service!Read, Seen, Stream, Codes, Gone
  <1> QED BY <1>1 DEF Service!Next

LEMMA RegisteredFirst ==
  ASSUME NEW c \in Connections, Awaiting(c) # <<>>, First(c).code = SetConnStatus,
         Seen(c, Awaiting(c), Stream(c)), registered' = (First(c).isSet = "yes")
  PROVE  Service!Next
  <1>1. Service!Register(c)
    BY SeenKept, SameCodes DEF Service!Register, Service!First, First, Seen, Stream, Codes, Gone
  <1> QED BY <1>1 DEF Service!Next

LEMMA Answered ==
  ASSUME NEW c \in Connections, ~Gone(c), Awaiting(c) # <<>>, First(c).code \notin Unanswered,
         Seen(c, Tail(Awaiting(c)), Append(Stream(c), ReplyCode(First(c).code))),
         registered' = IF First(c).code = SetConnStatus THEN First(c).isSet = "yes"
                       ELSE registered
  PROVE  Service!Next
  <1>1. Service!Answer(c)
    BY SeenKept, SameCodes DEF Service!Answer, Service!First, First, Seen, Stream, Codes, Gone
  <1> QED BY <1>1 DEF Service!Next

LEMMA Dropped ==
  ASSUME NEW c \in Connections, Awaiting(c) # <<>>, First(c).code \in Unanswered \/ Gone(c),
         Seen(c, Tail(Awaiting(c)), Stream(c)), registered' = registered
  PROVE  Service!Next
  <1>1. Service!Drop(c)
    BY SeenKept, SameCodes DEF Service!Drop, Service!First, First, Seen, Stream, Codes, Gone
  <1> QED BY <1>1 DEF Service!Next

LEMMA Reported ==
  ASSUME NEW c \in Connections, ~Gone(c), registered,
         Seen(c, Awaiting(c), Append(Stream(c), ConnStatus)), registered' = registered
  PROVE  Service!Next
  <1>1. Service!Report(c)
    BY SeenKept, SameCodes DEF Service!Report, Seen, Stream, Codes, Gone
  <1> QED BY <1>1 DEF Service!Next

LEMMA Lost ==
  ASSUME NEW c \in Connections, NEW m \in 0 .. Len(Awaiting(c)), NEW n \in 0 .. Len(Stream(c)),
         Awaiting(c)' = SubSeq(Awaiting(c), 1, m), Stream(c)' = SubSeq(Stream(c), 1, n),
         \A d \in Connections :
             d # c => Awaiting(d)' = Awaiting(d) /\ Stream(d)' = Stream(d),
         \A d \in Connections : Gone(d)' <=> Gone(d) \/ d = c,
         registered' = registered
  PROVE  Service!Next
  <1>1. [d \in Connections |-> Awaiting(d)]' =
           [[d \in Connections |-> Awaiting(d)] EXCEPT ![c] = SubSeq(Awaiting(c), 1, m)]
    OBVIOUS
  <1>2. [d \in Connections |-> Stream(d)]' =
           [[d \in Connections |-> Stream(d)] EXCEPT ![c] = SubSeq(Stream(c), 1, n)]
    OBVIOUS
  <1>3. {d \in Connections : Gone(d)}' = {d \in Connections : Gone(d)} \cup {c}
    OBVIOUS
  <1> DEFINE Q == [d \in Connections |-> Awaiting(d)]
             S == [d \in Connections |-> Stream(d)]
             L == {d \in Connections : Gone(d)}
  <1>4. Q[c] = Awaiting(c) /\ S[c] = Stream(c)
    OBVIOUS
  <1>5. Q' = [Q EXCEPT ![c] = SubSeq(Awaiting(c), 1, m)]
        /\ S' = [S EXCEPT ![c] = SubSeq(Stream(c), 1, n)] /\ L' = L \cup {c}
    BY <1>1, <1>2, <1>3
  <1> HIDE DEF Q, S, L
  <1>6. \E i \in 0 .. Len(Q[c]), j \in 0 .. Len(S[c]) :
            /\ Q' = [Q EXCEPT ![c] = SubSeq(@, 1, i)]
            /\ S' = [S EXCEPT ![c] = SubSeq(@, 1, j)]
    BY <1>4, <1>5
  <1>7. Service!Lose(c)
    BY <1>5, <1>6 DEF Service!Lose, Q, S, L, Stream, Codes, Gone
  <1> QED BY <1>7 DEF Service!Next

-----------------------------------------------------------------------------
(***************************************************************************)
(* What a client awaits.                                                   *)
(***************************************************************************)
Busy == AtTop("dll") \/ AtTop("reply")

LEMMA Quiet ==
  ASSUME SocketState, ~Busy
  PROVE  \A d \in Connections : Awaiting(d) = pending[d] /\ pending[d] \in Seq(Request)
  <1> TAKE d \in Connections
  <1>1. pending[d] \in Seq(Request) /\ Executing(d) = <<>>
    BY DEF SocketState, Executing, Busy
  <1> QED BY <1>1 DEF Awaiting

LEMMA QuietNext ==
  ASSUME SocketState', ~Busy'
  PROVE  \A d \in Connections : Awaiting(d)' = pending'[d]
  <1> TAKE d \in Connections
  <1>1. pending'[d] \in Seq(Request) /\ Executing(d)' = <<>>
    BY DEF SocketState, Executing, Busy
  <1> QED BY <1>1 DEF Awaiting

LEMMA BusyTop ==
  ASSUME SocketState, StackInv, Busy
  PROVE  /\ Top.request \in Request /\ Top.request.code \notin Unanswered
         /\ \A d \in Connections :
               /\ pending[d] \in Seq(Request)
               /\ Awaiting(d) = IF d = curConnection THEN <<Top.request>> \o pending[d]
                                ELSE pending[d]
  <1>1. Top.request \in Request /\ Top.request.code \notin Unanswered
    BY TopOfStack DEF Busy, AtTop, Fit
  <1>2. ASSUME NEW d \in Connections
        PROVE  /\ pending[d] \in Seq(Request)
               /\ Awaiting(d) = IF d = curConnection THEN <<Top.request>> \o pending[d]
                                ELSE pending[d]
    <2>1. pending[d] \in Seq(Request)
      BY DEF SocketState
    <2>2. Executing(d) = IF d = curConnection THEN <<Top.request>> ELSE <<>>
      BY DEF Executing, Busy
    <2>3. <<>> \o pending[d] = pending[d]
      BY <2>1
    <2> QED BY <2>1, <2>2, <2>3 DEF Awaiting
  <1> QED BY <1>1, <1>2

\* A request that is taken from the queue to be executed is awaited still.
LEMMA BusyNext ==
  ASSUME SocketState', StackInv', Busy'
  PROVE  \A d \in Connections :
             Awaiting(d)' = IF d = curConnection' THEN <<Top'.request>> \o pending'[d]
                            ELSE pending'[d]
  <1> TAKE d \in Connections
  <1>1. pending'[d] \in Seq(Request)
    BY DEF SocketState
  <1>2. Executing(d)' = IF d = curConnection' THEN <<Top'.request>> ELSE <<>>
    BY DEF Executing, Busy
  <1>3. Awaiting(d)' = Executing(d)' \o pending'[d]
    BY DEF Awaiting
  <1>4. <<>> \o pending'[d] = pending'[d]
    BY <1>1
  <1> QED BY <1>2, <1>3, <1>4

LEMMA EventsQuiet == InEventLoop => ~Busy
  BY DEF InEventLoop, Busy, AtTop

LEMMA RunningQuiet ==
  AtTop("size") \/ AtTop("execSize") \/ AtTop("body") \/ AtTop("execBody")
     \/ AtTop("stray") \/ AtTop("next") => ~Busy
  BY DEF Busy, AtTop

\* The invariant under which each step is one of the promise.
PromiseInv == OneThread /\ CurrentMade

LEMMA Streams ==
  ASSUME PromiseInv, NEW c \in Connections
  PROVE  /\ down[c] \in Seq(Seq(Word(Messages))) /\ Whole(down[c])
         /\ Stream(c) \in Seq(Messages)
  <1>1. down[c] \in Seq(Seq(Word(Messages))) /\ Whole(down[c])
    BY DEF PromiseInv, OneThread, ServerInv, OthersTyped, WholeMessages, Whole
  <1> QED BY <1>1, CodesTyped DEF Stream

LEMMA SameStreams ==
  /\ UNCHANGED down => \A c \in Connections : Stream(c)' = Stream(c)
  /\ UNCHANGED link => \A c \in Connections : Gone(c)' <=> Gone(c)
  BY DEF Stream, Codes, Gone

LEMMA SameAwaited ==
  UNCHANGED <<stack, pending, curConnection>> =>
      \A c \in Connections : Awaiting(c)' = Awaiting(c)
  BY DEF Awaiting, Executing, AtTop, Top

-----------------------------------------------------------------------------
(***************************************************************************)
(* Every step of the server is one of the promise, or changes nothing it   *)
(* sees.                                                                   *)
(***************************************************************************)
Kept == Service!Next \/ UNCHANGED Service!serviceVars

LEMMA QuietStep ==
  ASSUME PromiseInv, ServerInv', ~Busy, ~Busy',
         UNCHANGED <<pending, down, link, registered>>
  PROVE  Kept
  <1>1. \A d \in Connections : Awaiting(d) = pending[d] /\ Awaiting(d)' = pending'[d]
    BY Quiet, QuietNext DEF PromiseInv, OneThread, ServerInv
  <1> QED BY <1>1, Unseen, SameStreams DEF Kept

LEMMA StutterStep ==
  ASSUME UNCHANGED <<stack, pending, curConnection, down, link, registered>>
  PROVE  Kept
  BY SameAwaited, SameStreams, Unseen DEF Kept

LEMMA ConnectionKept ==
  ASSUME PromiseInv, ServerInv', NEW c \in Connections,
         Ask(c) \/ Read(c) \/ ClientConnected(c) \/ Disconnected(c) \/ Deleted(c) \/ Receive(c)
  PROVE  Kept
  <1>0. SocketState /\ StackInv /\ SocketState'
    BY DEF PromiseInv, OneThread, ServerInv
  <1>s. /\ down[c] \in Seq(Seq(Word(Messages))) /\ Whole(down[c]) /\ Stream(c) \in Seq(Messages)
        /\ down \in [Connections -> Seq(Seq(Word(Messages)))]
        /\ pending \in [Connections -> Seq(Request)] /\ link \in [Connections -> Links]
    BY <1>0, Streams DEF PromiseInv, OneThread, ServerInv, OthersTyped, SocketState
  <1>1. CASE Ask(c)
    <2>1. PICK r \in Request : pending' = [pending EXCEPT ![c] = Append(@, r)]
      BY <1>1 DEF Ask
    <2>2. \A d \in Connections : Executing(d)' = Executing(d)
      BY <1>1 DEF Ask, frameVars, Executing, AtTop, Top
    <2>3. Executing(c) \in Seq(Request)
      <3>1. CASE Busy
        <4>1. Top.request \in Request
          BY <1>0, <3>1, BusyTop
        <4> QED BY <4>1 DEF Executing
      <3>2. CASE ~Busy
        BY <3>2 DEF Executing, Busy
      <3> QED BY <3>1, <3>2
    <2>4. Awaiting(c)' = Append(Awaiting(c), r)
      <3>1. pending'[c] = Append(pending[c], r) /\ pending[c] \in Seq(Request)
        BY <1>s, <2>1
      <3>2. Awaiting(c)' = Executing(c) \o Append(pending[c], r)
        BY <2>2, <3>1 DEF Awaiting
      <3> QED BY <2>3, <3>1, <3>2, ConcatAppend DEF Awaiting
    <2>5. \A d \in Connections : d # c => Awaiting(d)' = Awaiting(d)
      BY <1>s, <2>1, <2>2 DEF Awaiting
    <2>6. UNCHANGED <<down, link, registered>>
      BY <1>1 DEF Ask, frameVars
    <2>7. Seen(c, Append(Awaiting(c), r), Stream(c))
      BY <2>4, <2>5, <2>6, SameStreams, SeenBy
    <2> QED BY <2>6, <2>7, Asked DEF Kept
  <1>2. CASE Read(c)
    <2>1. /\ down' = [down EXCEPT ![c] = Tail(down[c])] /\ down[c] # <<>>
          /\ UNCHANGED <<stack, pending, curConnection, link, registered>>
      BY <1>2 DEF Read, socketVars, frameVars
    <2>2. Stream(c) # <<>> /\ Stream(c)' = Tail(Stream(c))
      <3>1. down'[c] = Tail(down[c])
        BY <1>s, <2>1
      <3>2. Stream(c)' = Codes(Tail(down[c]))
        BY <3>1 DEF Stream, Codes
      <3> QED BY <1>s, <2>1, <3>2, CodesTail DEF Stream
    <2>3. \A d \in Connections : d # c => Stream(d)' = Stream(d)
      BY <1>s, <2>1 DEF Stream, Codes
    <2>4. Seen(c, Awaiting(c), Tail(Stream(c)))
      BY <2>1, <2>2, <2>3, SameAwaited, SameStreams, SeenBy
    <2> QED BY <2>1, <2>2, <2>4, ReadOff DEF Kept
  <1>3. CASE ClientConnected(c)
    <2>1. ~Busy /\ ~Busy'
      BY <1>3, EventsQuiet DEF ClientConnected, frameVars, Busy, AtTop, Top
    <2>2. /\ UNCHANGED <<pending, down, registered>>
          /\ link[c] = "new" /\ link' = [link EXCEPT ![c] = "open"]
      BY <1>3 DEF ClientConnected, frameVars
    <2>3. \A d \in Connections : Gone(d)' <=> Gone(d)
      BY <1>s, <2>2 DEF Gone
    <2>4. \A d \in Connections : Awaiting(d) = pending[d] /\ Awaiting(d)' = pending'[d]
      BY <1>0, <2>1, Quiet, QuietNext
    <2> QED BY <2>2, <2>3, <2>4, SameStreams, Unseen DEF Kept
  <1>4. CASE Disconnected(c)
    <2>1. ~Busy /\ ~Busy'
      BY <1>4, EventsQuiet DEF Disconnected, frameVars, Busy, AtTop, Top
    <2>2. \A d \in Connections : Awaiting(d) = pending[d] /\ Awaiting(d)' = pending'[d]
      BY <1>0, <2>1, Quiet, QuietNext
    <2>3. /\ pending' = [pending EXCEPT ![c] = SubSeq(pending[c], 1, Received(c))]
          /\ down' = [down EXCEPT ![c] = <<>>] /\ registered' = registered
          /\ \E l \in {"closing", "closingInLoop"} : link' = [link EXCEPT ![c] = l]
      BY <1>4 DEF Disconnected, frameVars
    <2>4. Received(c) \in 0 .. Len(Awaiting(c))
      BY <1>0, <2>2, ReceivedPart
    <2>5. Awaiting(c)' = SubSeq(Awaiting(c), 1, Received(c))
      BY <1>s, <2>2, <2>3
    <2>6. Stream(c)' = SubSeq(Stream(c), 1, 0) /\ 0 \in 0 .. Len(Stream(c))
      <3>1. down'[c] = <<>>
        BY <1>s, <2>3
      <3>2. Stream(c)' = Codes(<<>>)
        BY <3>1 DEF Stream, Codes
      <3> QED BY <1>s, <3>2, NoCodes, NoneOf
    <2>7. \A d \in Connections : d # c => Awaiting(d)' = Awaiting(d) /\ Stream(d)' = Stream(d)
      BY <1>s, <2>2, <2>3 DEF Stream, Codes
    <2>8. \A d \in Connections : Gone(d)' <=> Gone(d) \/ d = c
      BY <1>s, <2>3 DEF Gone
    <2> QED BY <2>3, <2>4, <2>5, <2>6, <2>7, <2>8, Lost DEF Kept
  <1>5. CASE Deleted(c)
    <2>1. ~Busy /\ ~Busy'
      BY <1>5, EventsQuiet DEF Deleted, frameVars, Busy, AtTop, Top
    <2>2. \A d \in Connections : Awaiting(d) = pending[d] /\ Awaiting(d)' = pending'[d]
      BY <1>0, <2>1, Quiet, QuietNext
    <2>3. /\ pending' = [pending EXCEPT ![c] = <<>>]
          /\ UNCHANGED <<down, registered>>
          /\ Gone(c) /\ link' = [link EXCEPT ![c] = "deleted"]
      BY <1>5 DEF Deleted, frameVars, Gone
    <2>4. Awaiting(c)' = SubSeq(Awaiting(c), 1, 0) /\ 0 \in 0 .. Len(Awaiting(c))
      <3>1. Awaiting(c)' = <<>> /\ Awaiting(c) \in Seq(Request)
        BY <1>s, <2>2, <2>3
      <3> QED BY <3>1, NoneOf
    <2>5. \A d \in Connections : d # c => Awaiting(d)' = Awaiting(d)
      BY <1>s, <2>2, <2>3
    <2>6. Stream(c)' = SubSeq(Stream(c), 1, Len(Stream(c)))
          /\ Len(Stream(c)) \in 0 .. Len(Stream(c))
      <3>1. Stream(c)' = Stream(c)
        BY <2>3, SameStreams
      <3>2. \A s \in Seq(Messages) : s = SubSeq(s, 1, Len(s)) /\ Len(s) \in 0 .. Len(s)
        OBVIOUS
      <3> QED BY <1>s, <3>1, <3>2
    <2>7. \A d \in Connections : Gone(d)' <=> Gone(d) \/ d = c
      BY <1>s, <2>3 DEF Gone
    <2> QED BY <2>3, <2>4, <2>5, <2>6, <2>7, SameStreams, Lost DEF Kept
  <1>6. CASE Receive(c)
    <2> DEFINE f == [conn |-> c, request |-> NoRequest, pc |-> "size"]
    <2>1. /\ ~Busy /\ (stack # <<>> => InLoop(Top)) /\ f \in Frame /\ f.pc = "size"
          /\ (UNCHANGED stack \/ stack' = Append(stack, f))
      BY <1>6, EventsQuiet, EventsInLoop DEF Receive, Frame
    <2> HIDE DEF f
    <2>2. ~Busy'
      <3>1. CASE UNCHANGED stack
        BY <2>1, <3>1 DEF Busy, AtTop, Top
      <3>2. CASE stack' = Append(stack, f)
        <4>1. Top' = f
          BY <1>0, <2>1, <3>2, PushedStack
        <4> QED BY <2>1, <4>1 DEF Busy, AtTop
      <3> QED BY <2>1, <3>1, <3>2
    <2> QED BY <1>6, <2>1, <2>2, QuietStep DEF Receive
  <1> QED BY <1>1, <1>2, <1>3, <1>4, <1>5, <1>6

\* What curConnection->write() of a prepared message does to the streams.
LEMMA Written ==
  ASSUME PromiseInv, Main.pc \in {"prepared", "tested"}, Write, NEW d \in Connections
  PROVE  Stream(d)' = IF d = curConnection /\ ~Gone(d) THEN Append(Stream(d), Main.message)
                      ELSE Stream(d)
  <1>1. /\ SendInv /\ BufferInv /\ CurrentMade /\ Null \notin Connections
        /\ down \in [Connections -> Seq(Seq(Word(Messages)))]
    BY ServerAssumption DEF PromiseInv, OneThread, ServerInv, OthersTyped, SocketState
  <1>2. buf = Encoded(Main.message) /\ Main.message \in Messages
        /\ buf \in Seq(Word(Messages))
    BY <1>1, MainTyped DEF BufferInv, SendInv, SendTypeOK
  <1>3. CASE d = curConnection /\ ~Gone(d)
    <2>1. link[d] = "open" /\ curConnection # Null
      BY <1>1, <1>3 DEF CurrentMade, Gone
    <2>2. down' = [down EXCEPT ![d] = Append(down[d], buf)]
      BY <1>3, <2>1 DEF Write
    <2>3. down'[d] = Append(down[d], buf)
      BY <1>1, <2>2
    <2>4. down[d] \in Seq(Seq(Word(Messages))) /\ Whole(down[d])
      BY Streams
    <2>5. Codes(Append(down[d], buf)) = Append(Codes(down[d]), Main.message)
      BY <1>2, <2>4, CodesAppended
    <2>6. Stream(d)' = Codes(Append(down[d], buf))
      BY <2>3 DEF Stream, Codes
    <2> QED BY <1>3, <2>5, <2>6 DEF Stream
  <1>4. CASE ~(d = curConnection /\ ~Gone(d))
    <2>1. down'[d] = down[d]
      BY <1>1, <1>4 DEF Write, Gone
    <2> QED BY <1>4, <2>1 DEF Stream, Codes
  <1> QED BY <1>3, <1>4

LEMMA FrameKept ==
  ASSUME PromiseInv, ServerInv', Step
  PROVE  Kept
  <1>0. /\ SocketState /\ StackInv /\ SocketState' /\ StackInv' /\ HandInv /\ fault = "none"
        /\ curConnection \in Connections \cup {Null} /\ stack # <<>> /\ UNCHANGED <<link, curConnection>>
    BY DEF PromiseInv, OneThread, ServerInv, SocketState, Step, Running, AtTop, ExecReturns,
           WaitForBytes, ReadSize, ReadRequest, DllReturns, WriteReply, ReadStray, NextMessage,
           Return, socketVars
  <1>a. Top \in Frame
    BY <1>0, TopOfStack
  <1>1. ASSUME ~Busy, UNCHANGED <<pending, down, registered>>,
               NEW p \in {"size", "execSize", "body", "execBody", "next"}, Goto(p)
        PROVE  Kept
    <2>1. Top'.pc = p
      BY <1>0, <1>a, <1>1, Moved DEF Frame
    <2>2. ~Busy'
      BY <2>1 DEF Busy, AtTop
    <2> QED BY <1>0, <1>1, <2>2, QuietStep
  <1>2. CASE ExecReturns
    BY <1>1, <1>2, RunningQuiet DEF ExecReturns, socketVars
  <1>3. CASE WaitForBytes
    <2>1. PICK p \in {"size", "body"} : Goto(Entered(p)) /\ AtTop(p)
      BY <1>3 DEF WaitForBytes
    <2>2. Entered(p) \in {"size", "execSize", "body", "execBody", "next"} /\ ~Busy
      BY <2>1, RunningQuiet DEF Entered
    <2> QED BY <1>1, <1>3, <2>1, <2>2 DEF WaitForBytes, socketVars
  <1>4. CASE ReadSize
    BY <1>1, <1>4, RunningQuiet DEF ReadSize
  <1>5. CASE ReadRequest
    <2>0. ~Busy /\ UNCHANGED down
      BY <1>5, RunningQuiet DEF ReadRequest
    <2>q. \A d \in Connections : Awaiting(d) = pending[d] /\ pending[d] \in Seq(Request)
      BY <1>0, <2>0, Quiet
    <2>1. CASE rest[curConnection] = "body"
      <3> DEFINE c == curConnection
                 r == Head(pending[c])
                 p == IF r.code \in Unanswered THEN "stray" ELSE "dll"
      <3>1. /\ c \in Connections /\ pending[c] # <<>> /\ r \in Request
            /\ Top' = [Top EXCEPT !.request = r, !.pc = p]
        BY <1>5, <2>1, ReadRequestFrame DEF PromiseInv, OneThread
      <3>2. Top'.request = r /\ Top'.pc = p
        BY <1>a, <3>1 DEF Frame
      <3>3. /\ pending' = [pending EXCEPT ![c] = Tail(pending[c])]
            /\ registered' = IF r.code = SetConnStatus THEN r.isSet = "yes" ELSE registered
        BY <1>5, <2>1 DEF ReadRequest, Consume, SetCallback
      <3>4. /\ pending'[c] = Tail(pending[c])
            /\ \A d \in Connections : d # c => pending'[d] = pending[d]
        BY <1>0, <3>1, <3>3 DEF SocketState
      <3>5. Awaiting(c) # <<>> /\ First(c) = r
        BY <2>q, <3>1 DEF First
      <3>s. stack' # <<>>
        BY <1>0, <1>5, <2>1 DEF ReadRequest, StackInv
      <3>6. CASE r.code \in Unanswered
        <4>1. ~Busy'
          BY <3>2, <3>6 DEF Busy, AtTop
        <4>2. \A d \in Connections : Awaiting(d)' = pending'[d]
          BY <1>0, <4>1, QuietNext
        <4>3. Seen(c, Tail(Awaiting(c)), Stream(c))
          BY <1>0, <2>0, <2>q, <3>1, <3>4, <4>2, SameStreams, SeenBy
        <4>4. registered' = registered
          BY <3>3, <3>6 DEF Unanswered, CallbackCodes, SetConnStatus, ConnStatus, TransReply,
             OrderStatus, TradeStatus
        <4> QED BY <3>1, <3>5, <3>6, <4>3, <4>4, Dropped DEF Kept
      <3>7. CASE r.code \notin Unanswered
        <4>1. Busy'
          BY <3>2, <3>7, <3>s DEF Busy, AtTop
        <4>2. \A d \in Connections : Awaiting(d)' = Awaiting(d)
          <5> TAKE d \in Connections
          <5>1. Awaiting(d)' = IF d = c THEN <<r>> \o pending'[d] ELSE pending'[d]
            BY <1>0, <3>2, <4>1, BusyNext
          <5>2. <<r>> \o Tail(pending[c]) = pending[c]
            BY <2>q, <3>1, Concat
          <5> QED BY <2>q, <3>4, <5>1, <5>2
        <4>3. CASE r.code = SetConnStatus
          <5>1. Seen(c, Awaiting(c), Stream(c))
            BY <1>0, <2>0, <3>1, <4>2, SameStreams, SeenBy
          <5> QED BY <3>1, <3>3, <3>5, <4>3, <5>1, RegisteredFirst DEF Kept
        <4>4. CASE r.code # SetConnStatus
          BY <1>0, <2>0, <3>3, <4>2, <4>4, SameStreams, Unseen DEF Kept
        <4> QED BY <4>3, <4>4
      <3> QED BY <3>6, <3>7
    <2>2. CASE rest[curConnection] # "body"
      BY <1>5, <2>2, StutterStep DEF ReadRequest
    <2> QED BY <2>1, <2>2
  <1>6. CASE DllReturns
    <2>1. AtTop("dll") /\ Goto("reply") /\ UNCHANGED <<registered, down, pending>>
      BY <1>6 DEF DllReturns, socketVars
    <2>2. Top' = [Top EXCEPT !.pc = "reply"]
      BY <1>0, <2>1, MovedOn
    <2>3. Top'.pc = "reply" /\ Top'.request = Top.request
      BY <1>a, <2>2 DEF Frame
    <2>4. stack' # <<>>
      BY <1>0, <2>1 DEF Goto, StackInv
    <2>5. Busy /\ Busy'
      BY <2>1, <2>3, <2>4 DEF Busy, AtTop
    <2>6. \A d \in Connections : Awaiting(d)' = Awaiting(d)
      BY <1>0, <2>1, <2>3, <2>5, BusyTop, BusyNext
    <2> QED BY <1>0, <2>1, <2>6, SameStreams, Unseen DEF Kept
  <1>7. CASE WriteReply
    <2> DEFINE c == curConnection
    <2>1. /\ AtTop("reply") /\ Main.pc = "prepared" /\ Write
          /\ UNCHANGED <<registered, pending>>
          /\ \E p \in {"stray", "next"} : Goto(p)
      BY <1>7 DEF WriteReply, AtStep, Main, socketVars
    <2>2. Busy /\ ~Busy'
      <3>1. PICK p \in {"stray", "next"} : Goto(p)
        BY <2>1
      <3>2. Top'.pc = p
        BY <1>0, <1>a, <2>1, <3>1, MovedOn DEF Frame
      <3> QED BY <2>1, <3>2 DEF Busy, AtTop
    <2>3. /\ Top.request \in Request /\ Top.request.code \notin Unanswered
          /\ \A d \in Connections :
                /\ pending[d] \in Seq(Request)
                /\ Awaiting(d) = IF d = c THEN <<Top.request>> \o pending[d] ELSE pending[d]
                /\ Awaiting(d)' = pending[d]
      BY <1>0, <2>1, <2>2, BusyTop, QuietNext
    <2>4. /\ Main.message = ReplyCode(Top.request.code)
          /\ Top.request.code = SetConnStatus => registered = (Top.request.isSet = "yes")
      BY <1>0, <2>1 DEF HandInv, AtReply, AtTop, Executed
    <2>5. \A d \in Connections :
             Stream(d)' = IF d = c /\ ~Gone(d) THEN Append(Stream(d), Main.message)
                          ELSE Stream(d)
      BY <2>1, Written
    <2>6. CASE c = Null
      <3>1. \A d \in Connections : d # c
        BY <2>6, ServerAssumption
      <3> QED BY <1>0, <2>1, <2>3, <2>5, <3>1, SameStreams, Unseen DEF Kept
    <2>7. CASE c # Null
      <3>1. c \in Connections
        BY <1>0, <2>7
      <3>2. Awaiting(c) # <<>> /\ First(c) = Top.request /\ Tail(Awaiting(c)) = pending[c]
        BY <2>3, <3>1, Concat DEF First
      <3>3. CASE Gone(c)
        <4>1. Seen(c, Tail(Awaiting(c)), Stream(c))
          BY <1>0, <2>3, <2>5, <2>7, <3>1, <3>2, <3>3, SameStreams, SeenBy
        <4> QED BY <2>1, <3>1, <3>2, <3>3, <4>1, Dropped DEF Kept
      <3>4. CASE ~Gone(c)
        <4>1. Seen(c, Tail(Awaiting(c)), Append(Stream(c), ReplyCode(First(c).code)))
          BY <1>0, <2>3, <2>4, <2>5, <2>7, <3>1, <3>2, <3>4, SameStreams, SeenBy
        <4>2. registered' = IF First(c).code = SetConnStatus THEN First(c).isSet = "yes"
                            ELSE registered
          BY <2>1, <2>4, <3>2
        <4> QED BY <2>3, <3>1, <3>2, <3>4, <4>1, <4>2, Answered DEF Kept
      <3> QED BY <3>3, <3>4
    <2> QED BY <2>6, <2>7
  <1>8. CASE ReadStray
    <2>1. PICK p \in {"body", "next"} : Goto(p)
      BY <1>8 DEF ReadStray
    <2> QED BY <1>1, <1>8, <2>1, RunningQuiet DEF ReadStray, socketVars
  <1>9. CASE NextMessage
    BY <1>1, <1>9, RunningQuiet DEF NextMessage, socketVars
  <1>10. CASE Return
    <2>1. stack' # <<>> => Top'.pc \in {"execSize", "execBody"}
      BY <1>0, <1>10, PoppedStack DEF Return, InLoop
    <2>2. ~Busy /\ ~Busy'
      BY <1>10, <2>1, RunningQuiet DEF Return, Busy, AtTop
    <2> QED BY <1>0, <1>10, <2>2, QuietStep DEF Return, socketVars
  <1> QED BY <1>2, <1>3, <1>4, <1>5, <1>6, <1>7, <1>8, <1>9, <1>10 DEF Step

LEMMA ThreadKept ==
  ASSUME PromiseInv, Report("main") \/ Send("main")
  PROVE  Kept
  <1>1. CASE Report("main")
    BY <1>1, StutterStep DEF Report, socketVars
  <1>2. CASE TestConnection("main")
    BY <1>2, StutterStep DEF TestConnection, socketVars, frameVars
  <1>3. ASSUME UNCHANGED down, UNCHANGED socketVars, UNCHANGED frameVars PROVE Kept
    BY <1>3, StutterStep DEF socketVars, frameVars
  <1>4. CASE WriteReport("main")
    <2> DEFINE c == curConnection
    <2>1. /\ Main.pc = "tested" /\ Write /\ fault = "none"
          /\ UNCHANGED <<stack, registered, link, pending, curConnection>>
      BY <1>4 DEF WriteReport, AtStep, Main, socketVars
    <2>2. Main.message = ConnStatus /\ registered
      BY <2>1 DEF PromiseInv, OneThread, HandInv
    <2>3. \A d \in Connections :
             Stream(d)' = IF d = c /\ ~Gone(d) THEN Append(Stream(d), Main.message)
                          ELSE Stream(d)
      BY <2>1, Written
    <2>4. \A d \in Connections : Awaiting(d)' = Awaiting(d) /\ (Gone(d)' <=> Gone(d))
      BY <2>1, SameAwaited, SameStreams
    <2>5. CASE c = Null \/ Gone(c)
      <3>1. \A d \in Connections : Stream(d)' = Stream(d)
        BY <2>3, <2>5, ServerAssumption
      <3> QED BY <2>1, <2>4, <3>1, Unseen DEF Kept
    <2>6. CASE c # Null /\ ~Gone(c)
      <3>1. c \in Connections
        BY <2>6 DEF PromiseInv, OneThread, ServerInv, SocketState
      <3>2. Seen(c, Awaiting(c), Append(Stream(c), ConnStatus))
        BY <2>2, <2>3, <2>4, <2>6, <3>1, SeenBy
      <3> QED BY <2>1, <2>2, <2>6, <3>1, <3>2, Reported DEF Kept
    <2> QED BY <2>5, <2>6
  <1> QED BY <1>1, <1>2, <1>3, <1>4 DEF Send

LEMMA InitKept == Init => Service!Init
  <1> SUFFICES ASSUME Init PROVE Service!Init
    OBVIOUS
  <1>1. \A c \in Connections :
           pending[c] = <<>> /\ down[c] = <<>> /\ link[c] = "new" /\ Executing(c) = <<>>
    BY DEF Init, Executing, AtTop
  <1>2. \A c \in Connections : Awaiting(c) = <<>>
    BY <1>1 DEF Awaiting
  <1>3. [c \in Connections |-> [i \in DOMAIN down[c] |-> down[c][i][2][2]]]
           = [c \in Connections |-> <<>>]
    BY <1>1
  <1>4. {c \in Connections : link[c] \notin {"new", "open"}} = {}
    BY <1>1
  <1>5. registered \in BOOLEAN
    BY Zenon DEF Init
  <1> QED BY <1>2, <1>3, <1>4, <1>5 DEF Service!Init

\* Called back on the main thread, the server answers the requests of each
\* connection in their order, at most once and under the promised code, and
\* reports only while the connection status callback is registered.
THEOREM PromiseOfServer == DllThread = FALSE => (Spec => Implements)
  <1> SUFFICES ASSUME DllThread = FALSE PROVE Spec => Implements
    OBVIOUS
  <1>1. Init => PromiseInv /\ Service!Init
    BY InitOneThread, InitKept DEF PromiseInv, CurrentMade, Init
  <1>2. PromiseInv /\ [Next]_vars => PromiseInv' /\ [Service!Next]_Service!serviceVars
    <2> SUFFICES ASSUME PromiseInv, [Next]_vars
                 PROVE  PromiseInv' /\ Kept
      BY DEF Kept
    <2>1. PromiseInv' /\ ServerInv'
      BY NextOneThread, MadeStep DEF PromiseInv, OneThread
    <2>2. CASE UNCHANGED vars
      <3>1. UNCHANGED <<link, pending, curConnection, down, stack, registered>>
        BY <2>2 DEF vars
      <3> QED BY <2>1, <3>1, StutterStep
    <2>3. CASE Next
      BY <2>1, <2>3, OnlyMain, ConnectionKept, FrameKept, ThreadKept DEF Next
    <2> QED BY <2>1, <2>2, <2>3
  <1> QED BY <1>1, <1>2, PTL DEF Spec, Implements, Service!Spec

=============================================================================
