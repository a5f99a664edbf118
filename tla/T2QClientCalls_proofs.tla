------------------------ MODULE T2QClientCalls_proofs ------------------------
(***************************************************************************)
(* Proofs about the calls of T2QClient that hold wherever the application  *)
(* calls from and whatever it sets: every request and reply under way is   *)
(* owed to a call on the stack, and the flag is up only while one is.      *)
(***************************************************************************)
EXTENDS T2QClient_proofs, FiniteSetTheorems

-----------------------------------------------------------------------------
(***************************************************************************)
(* How a step changes the set of calls on the stack.                       *)
(***************************************************************************)
LEMMA WaitingOfGoto ==
  ASSUME TypeOK, stack # <<>>, NEW p \in Pcs, Goto(p)
  PROVE  Waiting' = Waiting
  <1>1. /\ DOMAIN stack' = DOMAIN stack
        /\ stack'[Len(stack)].fn = Top.fn
        /\ \A i \in DOMAIN stack \ {Len(stack)} : stack'[i] = stack[i]
    BY TopOfStack, GotoStack DEF Frame
  <1> QED BY <1>1 DEF Waiting, Top

LEMMA WaitingOfPop ==
  ASSUME TypeOK, stack # <<>>, stack' = Popped
  PROVE  Waiting' = Waiting \ {Len(stack)}
  BY PoppedStack DEF Waiting

LEMMA WaitingOfPush ==
  ASSUME TypeOK, NEW f \in Frame, stack' = Append(stack, f)
  PROVE  /\ Len(stack) + 1 \notin Waiting
         /\ Waiting' = IF f.fn = "WaitReadMessage" THEN Waiting \cup {Len(stack) + 1}
                                                   ELSE Waiting
  <1>1. Len(stack) + 1 \notin DOMAIN stack
    BY DEF TypeOK
  <1>2. /\ DOMAIN stack' = DOMAIN stack \cup {Len(stack) + 1}
        /\ stack'[Len(stack) + 1] = f
        /\ \A i \in DOMAIN stack : stack'[i] = stack[i]
    BY PushedStack
  <1> QED BY <1>1, <1>2 DEF Waiting

LEMMA WaitingOfEndOfTurn ==
  ASSUME TypeOK, stack # <<>>, EndOfTurn
  PROVE  Waiting' = Waiting
  <1>1. CASE Top.fn = "WaitRead" /\ stack' = Popped
    <2>1. Len(stack) \notin Waiting
      BY <1>1 DEF Waiting, Top
    <2> QED BY <1>1, <2>1, WaitingOfPop
  <1>2. CASE Goto(Entered("size"))
    <2>1. Entered("size") \in Pcs
      BY EnteredPc
    <2> QED BY <1>2, <2>1, WaitingOfGoto
  <1> QED BY <1>1, <1>2 DEF EndOfTurn

\* Only a call and its return change the set of calls, and the flag with it.
OtherSteps == \/ Receive \/ ExecReturns \/ WaitForBytes \/ ReadSize \/ RunCallback
              \/ CallbackReturns \/ SkipCallback \/ WrongReply \/ Register \/ Answer
              \/ Drop \/ Push \/ Lose \/ UNCHANGED vars

LEMMA WaitingKept ==
  ASSUME TypeOK, OtherSteps
  PROVE  Waiting' = Waiting /\ UNCHANGED waitFuncCallResult
  <1>1. CASE stack' = stack /\ UNCHANGED waitFuncCallResult
    BY <1>1 DEF Waiting
  <1>2. ASSUME Receive, stack' # stack PROVE Waiting' = Waiting
    <2>1. SlotFrame \in Frame /\ SlotFrame.fn # "WaitReadMessage"
      BY DEF Frame, SlotFrame
    <2>2. stack' = Append(stack, SlotFrame)
      BY <1>2 DEF Receive
    <2> QED BY <2>1, <2>2, WaitingOfPush
  <1>3. ASSUME NEW p \in Pcs, Goto(p), Running PROVE Waiting' = Waiting
    BY <1>3, WaitingOfGoto DEF Running
  <1>4. ASSUME EndOfTurn, Running PROVE Waiting' = Waiting
    BY <1>4, WaitingOfEndOfTurn DEF Running
  <1>5. CASE Receive
    BY <1>1, <1>2, <1>5 DEF Receive
  <1>6. CASE ExecReturns
    BY <1>3, <1>6 DEF ExecReturns, Pcs
  <1>7. CASE WaitForBytes
    BY <1>3, <1>7, EnteredPc DEF WaitForBytes
  <1>8. CASE ReadSize
    BY <1>1, <1>3, <1>8 DEF ReadSize, Pcs
  <1>9. CASE RunCallback
    BY <1>3, <1>9 DEF RunCallback, Pcs
  <1>10. CASE CallbackReturns
    BY <1>4, <1>10 DEF CallbackReturns
  <1>11. CASE SkipCallback
    BY <1>4, <1>11 DEF SkipCallback
  <1>12. CASE \/ WrongReply \/ Register \/ Answer \/ Drop \/ Push \/ Lose
              \/ UNCHANGED vars
    BY <1>1, <1>12 DEF WrongReply, Register, Answer, Drop, Push, Lose, clientVars, vars
  <1> QED
    BY <1>5, <1>6, <1>7, <1>8, <1>9, <1>10, <1>11, <1>12 DEF OtherSteps

LEMMA WaitingOfCall ==
  ASSUME TypeOK, Call
  PROVE  /\ Waiting' = Waiting \cup {Len(stack) + 1}
         /\ Len(stack) + 1 \notin Waiting
         /\ UNCHANGED pipe /\ Len(requests') <= Len(requests) + 1
  <1>1. ASSUME NEW c \in AllCodes, NEW s, Invoke(c, s)
        PROVE  /\ Waiting' = Waiting \cup {Len(stack) + 1}
               /\ Len(stack) + 1 \notin Waiting
               /\ UNCHANGED pipe /\ Len(requests') <= Len(requests) + 1
    <2> DEFINE f == [fn |-> "WaitReadMessage", fcode |-> c, wide |-> Wide(c, s),
                    pc |-> Entered("size")]
    <2>1. Entered("size") \in {"size", "execSize"}
      BY DEF Entered
    <2>2. f \in Frame /\ f.fn = "WaitReadMessage"
      BY <2>1, WideType DEF Frame
    <2>3. stack' = Append(stack, f)
      BY <1>1 DEF Invoke
    <2> HIDE DEF f
    <2>4. UNCHANGED pipe /\ Len(requests') <= Len(requests) + 1
      BY <1>1 DEF Invoke, Send, TypeOK
    <2> QED BY <2>2, <2>3, <2>4, WaitingOfPush
  <1>2. \A c \in Functions : c \in AllCodes
    BY DEF AllCodes
  <1>3. \A k \in Settable : SetterCode(k) \in AllCodes
    BY ClientAssumption, SetterCodes
  <1> QED BY <1>1, <1>2, <1>3 DEF Call, CallFunction, SetHandler, ResetHandler

LEMMA WaitingOfReturn ==
  ASSUME ReaderInv, Return
  PROVE  /\ Len(stack) \in Waiting /\ Waiting' = Waiting \ {Len(stack)}
         /\ ~waitFuncCallResult' /\ UNCHANGED requests
         /\ pipe # <<>> /\ 1 \in Replies /\ pipe' = Tail(pipe)
  <1>1. /\ Running /\ AtTop("body") /\ avail > 0 /\ TakeReply /\ stack' = Popped
        /\ Top.fn = "WaitReadMessage" /\ Head(pipe) \notin CallbackCodes
        /\ ~waitFuncCallResult' /\ UNCHANGED requests
    BY DEF Return, serverVars
  <1>2. pipe # <<>> /\ stack # <<>> /\ Len(stack) \in DOMAIN stack /\ TypeOK
    BY <1>1, BodyReader DEF ReaderInv
  <1>3. Len(stack) \in Waiting
    BY <1>1, <1>2 DEF Waiting, Top
  <1>4. 1 \in Replies
    BY <1>1, <1>2 DEF Replies, TypeOK
  <1>5. pipe' = Tail(pipe)
    BY <1>1 DEF TakeReply, Consume
  <1> QED BY <1>1, <1>2, <1>3, <1>4, <1>5, WaitingOfPop

LEMMA NextSteps == [Next]_vars => Call \/ Return \/ OtherSteps
  BY DEF Next, Step, OtherSteps

-----------------------------------------------------------------------------
\* _wait_func_call_result is never left up by a call that is over, however
\* calls nest.
THEOREM FlagNeverStale == Spec => []FlagHasCaller
  <1>1. Init => FlagHasCaller
    BY DEF Init, FlagHasCaller
  <1>2. TypeOK /\ ReaderInv /\ FlagHasCaller /\ [Next]_vars => FlagHasCaller'
    <2> SUFFICES ASSUME TypeOK, ReaderInv, FlagHasCaller, [Next]_vars PROVE FlagHasCaller'
      OBVIOUS
    <2>1. CASE Call
      BY <2>1, WaitingOfCall DEF FlagHasCaller
    <2>2. CASE Return
      BY <2>2, WaitingOfReturn DEF FlagHasCaller
    <2>3. CASE OtherSteps
      BY <2>3, WaitingKept DEF FlagHasCaller
    <2> QED BY <2>1, <2>2, <2>3, NextSteps
  <1> QED BY <1>1, <1>2, TypeCorrect, ReaderInvariant, PTL DEF Spec

-----------------------------------------------------------------------------
(***************************************************************************)
(* Counting.  A call adds a request, the server turns a request into a     *)
(* reply at most, and only the return of a call takes a reply away.        *)
(***************************************************************************)
LEMMA FiniteIndices ==
  ASSUME NEW n \in Nat, NEW S, S \subseteq 1 .. n
  PROVE  IsFiniteSet(S) /\ Cardinality(S) \in Nat
  <1>1. IsFiniteSet(1 .. n)
    BY FS_Interval
  <1>2. IsFiniteSet(S)
    BY <1>1, FS_Subset
  <1> QED BY <1>2, FS_CardinalityType

LEMMA FiniteCounts ==
  ASSUME TypeOK
  PROVE  /\ IsFiniteSet(Waiting) /\ IsFiniteSet(Replies)
         /\ Cardinality(Waiting) \in Nat /\ Cardinality(Replies) \in Nat
  <1>1. Len(stack) \in Nat /\ Waiting \subseteq 1 .. Len(stack)
    BY DEF TypeOK, Waiting
  <1>2. Len(pipe) \in Nat /\ Replies \subseteq 1 .. Len(pipe)
    BY DEF TypeOK, Replies
  <1> QED BY <1>1, <1>2, FiniteIndices

\* Taking a message off the stream loses one reply, or none.
LEMMA RepliesOfTail ==
  ASSUME TypeOK, pipe # <<>>, pipe' = Tail(pipe)
  PROVE  Cardinality(Replies') <= Cardinality(Replies \ {1})
  <1> DEFINE f == [i \in Replies' |-> i + 1]
  <1>1. \A i \in Replies' : i \in Nat /\ i + 1 \in Replies \ {1}
    BY TailOfPipe DEF Replies
  <1>2. f \in Injection(Replies', Replies \ {1})
    BY <1>1 DEF Injection, IsInjective
  <1>3. IsFiniteSet(Replies \ {1})
    BY FiniteCounts, FS_RemoveElement
  <1> QED BY <1>2, <1>3, FS_Injection

LEMMA RepliesOfAppend ==
  ASSUME TypeOK, NEW c, pipe' = Append(pipe, c)
  PROVE  /\ c \in CallbackCodes => Replies' = Replies
         /\ Cardinality(Replies') \in Nat
         /\ Cardinality(Replies') <= Cardinality(Replies) + 1
  <1>1. Replies' = Replies \/ Replies' = Replies \cup {Len(pipe) + 1}
    BY AppendToPipe DEF Replies
  <1>2. c \in CallbackCodes => Replies' = Replies
    BY AppendToPipe DEF Replies
  <1>3. Cardinality(Replies \cup {Len(pipe) + 1})
          \in {Cardinality(Replies), Cardinality(Replies) + 1}
    BY FiniteCounts, FS_AddElement
  <1>4. Cardinality(Replies') \in {Cardinality(Replies), Cardinality(Replies) + 1}
    BY <1>1, <1>3
  <1>5. \A m, n \in Nat : m \in {n, n + 1} => m <= n + 1
    OBVIOUS
  <1>6. Cardinality(Replies) \in Nat /\ Cardinality(Replies') \in Nat
    BY <1>4, FiniteCounts
  <1> QED BY <1>2, <1>4, <1>5, <1>6

LEMMA RepliesNoMore ==
  ASSUME TypeOK, pipe # <<>>, pipe' = Tail(pipe), TypeOK'
  PROVE  Cardinality(Replies') <= Cardinality(Replies)
  <1>1. Cardinality(Replies \ {1}) \in {Cardinality(Replies), Cardinality(Replies) - 1}
    BY FiniteCounts, FS_RemoveElement
  <1>2. Cardinality(Replies') \in Nat /\ IsFiniteSet(Replies')
    <2>1. Len(pipe') \in Nat /\ Replies' \subseteq 1 .. Len(pipe')
      BY DEF TypeOK, Replies
    <2> QED BY <2>1, FiniteIndices
  <1>3. \A m, n, r \in Int : m <= r /\ r \in {n, n - 1} => m <= n
    OBVIOUS
  <1>4. Cardinality(Replies \ {1}) \in Int
    BY <1>1, FiniteCounts
  <1> QED BY <1>1, <1>2, <1>3, <1>4, RepliesOfTail, FiniteCounts

\* No request and no reply outlives its call: whatever the nesting, what is
\* under way never outnumbers the calls that wait.
THEOREM RepliesOwed == Spec => []ReplyHasCaller
  <1>1. Init => ReplyHasCaller
    <2> SUFFICES ASSUME Init PROVE ReplyHasCaller
      OBVIOUS
    <2>1. Waiting = {} /\ Replies = {} /\ Len(requests) = 0
      BY DEF Init, Waiting, Replies
    <2> QED BY <2>1, FS_EmptySet DEF ReplyHasCaller
  <1>2. ReaderInv /\ ReplyHasCaller /\ [Next]_vars /\ ReaderInv' => ReplyHasCaller'
    <2> SUFFICES ASSUME ReaderInv, ReplyHasCaller, [Next]_vars, ReaderInv'
                 PROVE  ReplyHasCaller'
      OBVIOUS
    <2> DEFINE L == Len(requests)
               R == Cardinality(Replies)
               W == Cardinality(Waiting)
    <2>0. TypeOK /\ TypeOK'
      BY DEF ReaderInv
    <2>1. L \in Nat /\ R \in Nat /\ W \in Nat /\ L + R <= W
      BY <2>0, FiniteCounts DEF TypeOK, ReplyHasCaller
    <2>2. L' \in Nat /\ R' \in Nat /\ W' \in Nat
      <3>1. Len(stack') \in Nat /\ Waiting' \subseteq 1 .. Len(stack')
        BY <2>0 DEF TypeOK, Waiting
      <3>2. Len(pipe') \in Nat /\ Replies' \subseteq 1 .. Len(pipe')
        BY <2>0 DEF TypeOK, Replies
      <3>3. R' \in Nat /\ W' \in Nat
        BY <3>1, <3>2, FiniteIndices
      <3> QED BY <2>0, <3>3 DEF TypeOK
    \* The arithmetic of the three kinds of step.
    <2>a. \A l, r, w, r1 \in Nat : l + r <= w /\ r1 <= r - 1 => l + r1 <= w - 1
      OBVIOUS
    <2>b. \A l, r, w, r1 \in Nat : l + r <= w /\ r1 <= r + 1 => (l - 1) + r1 <= w
      OBVIOUS
    <2>c. \A l, r, w, r1 \in Nat : l + r <= w /\ r1 <= r => l + r1 <= w
      OBVIOUS
    <2>d. \A l, r, w, l1 \in Nat : l + r <= w /\ l1 <= l + 1 => l1 + r <= w + 1
      OBVIOUS
    <2>e. \A l, r, w, l1, r1 \in Nat : l + r <= w /\ l1 <= l /\ r1 <= r => l1 + r1 <= w
      OBVIOUS
    <2>3. SUFFICES L' + R' <= W'
      BY DEF ReplyHasCaller
    <2>4. CASE Call
      <3>1. W' = W + 1
        BY <2>0, <2>4, WaitingOfCall, FiniteCounts, FS_AddElement
      <3>2. L' <= L + 1 /\ R' = R
        BY <2>0, <2>4, WaitingOfCall DEF Replies
      <3> HIDE DEF L, R, W
      <3> QED BY <2>d, <2>1, <2>2, <3>1, <3>2
    <2>5. CASE Return
      <3>1. W' = W - 1
        BY <2>0, <2>5, WaitingOfReturn, FiniteCounts, FS_RemoveElement
      <3>2. R' <= R - 1
        <4>1. Cardinality(Replies \ {1}) = R - 1
          BY <2>0, <2>5, WaitingOfReturn, FiniteCounts, FS_RemoveElement
        <4>2. R' <= Cardinality(Replies \ {1})
          BY <2>0, <2>5, WaitingOfReturn, RepliesOfTail
        <4> QED BY <4>1, <4>2
      <3>3. L' = L
        BY <2>5, WaitingOfReturn
      <3> HIDE DEF L, R, W
      <3> QED BY <2>a, <2>1, <2>2, <3>1, <3>2, <3>3
    <2>6. CASE OtherSteps
      <3>1. W' = W
        BY <2>0, <2>6, WaitingKept
      <3>2. CASE Answer \/ Drop
        <4>1. /\ requests # <<>> /\ requests' = Tail(requests)
              /\ UNCHANGED pipe \/ \E c : pipe' = Append(pipe, c)
          BY <3>2 DEF Answer, Drop, streamVars
        <4>2. L' = L - 1
          BY <2>0, <4>1 DEF TypeOK
        <4>3. R' <= R + 1
          <5>1. CASE UNCHANGED pipe
            <6>1. R' = R
              BY <5>1 DEF Replies
            <6> HIDE DEF R
            <6> QED BY <2>1, <6>1
          <5>2. CASE \E c : pipe' = Append(pipe, c)
            BY <2>0, <5>2, RepliesOfAppend
          <5> QED BY <4>1, <5>1, <5>2
        <4> HIDE DEF L, R, W
        <4> QED BY <2>b, <2>1, <2>2, <3>1, <4>2, <4>3
      <3>3. CASE Push
        <4>1. PICK k \in dllCallbacks : pipe' = Append(pipe, k)
          BY <3>3 DEF Push
        <4>2. k \in CallbackCodes
          BY <2>0 DEF TypeOK, CallbackCodes
        <4>3. R' = R
          BY <2>0, <4>1, <4>2, RepliesOfAppend
        <4>4. L' = L
          BY <3>3 DEF Push, serverVars
        <4> HIDE DEF L, R, W
        <4> QED BY <2>1, <3>1, <4>3, <4>4
      <3>4. CASE RunCallback
        <4>1. pipe # <<>> /\ pipe' = Tail(pipe) /\ UNCHANGED requests
          <5>1. Running /\ AtTop("body") /\ avail > 0 /\ Consume /\ UNCHANGED serverVars
            BY <3>4 DEF RunCallback
          <5> QED BY <5>1, BodyReader DEF Consume, serverVars
        <4>2. R' <= R
          BY <2>0, <4>1, RepliesNoMore
        <4>3. L' = L
          BY <4>1
        <4> HIDE DEF L, R, W
        <4> QED BY <2>c, <2>1, <2>2, <3>1, <4>2, <4>3
      <3>5. CASE UNCHANGED <<pipe, requests>>
        <4>1. R' = R /\ L' = L
          BY <3>5 DEF Replies
        <4> HIDE DEF L, R, W
        <4> QED BY <2>1, <3>1, <4>1
      <3>6. CASE Lose
        <4>1. PICK n \in 0 .. Len(pipe) : pipe' = SubSeq(pipe, 1, n)
          BY <3>6 DEF Lose
        <4>2. Replies' \subseteq Replies
          BY <2>0, <4>1, PrefixOfPipe DEF Replies
        <4>3. R' <= R
          BY <2>0, <4>2, FiniteCounts, FS_Subset
        <4>4. L' <= L
          BY <2>0, <3>6 DEF Lose, TypeOK
        <4> HIDE DEF L, R, W
        <4> QED BY <2>e, <2>1, <2>2, <3>1, <4>3, <4>4
      <3> QED BY <2>6, <3>2, <3>3, <3>4, <3>5, <3>6
              DEF OtherSteps, Register, Receive, ExecReturns, WaitForBytes, ReadSize, CallbackReturns,
                  SkipCallback, WrongReply, streamVars, serverVars, vars
    <2> QED BY <2>4, <2>5, <2>6, NextSteps
  <1> QED BY <1>1, <1>2, ReaderInvariant, PTL DEF Spec

=============================================================================
