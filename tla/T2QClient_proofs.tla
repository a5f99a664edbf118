--------------------------- MODULE T2QClient_proofs ---------------------------
(***************************************************************************)
(* Proofs about T2QClient, for every value of its constants.               *)
(*                                                                         *)
(* Part 1 holds whatever the application does: the types, and the          *)
(* bookkeeping of the two readers.  Part 2 assumes an application that     *)
(* calls from its main loop only and never resets a callback.              *)
(***************************************************************************)
EXTENDS T2QClient, TLAPS

-----------------------------------------------------------------------------
(***************************************************************************)
(* Part 1.  The type invariant is not inductive by itself: a reader takes  *)
(* Tail(pipe), so avail must stay within what pipe holds, and that needs   *)
(* the reader at a body to be the one that has read its size.              *)
(***************************************************************************)
AtBody(i) == stack[i].pc \in {"body", "execBody"}

StreamInv == /\ avail <= Unread
             /\ rest # "none" => pipe # <<>>

\* At most one reader is half way through a message, and it is Head(pipe).
HalfReadInv ==
    fault = "none" =>
        \A i, j \in DOMAIN stack :
            AtBody(i) => rest = "body" /\ (AtBody(j) => i = j)

ReaderInv == TypeOK /\ StreamInv /\ HalfReadInv

LEMMA SetterCodes == \A k \in CallbackCodes : SetterCode(k) \in AllCodes
  BY DEF CallbackCodes, SetterCode, AllCodes, ConnStatus, TransReply, OrderStatus,
         TradeStatus, SetConnStatus, UnsubscribeTrades

LEMMA WideType == \A c, s : Wide(c, s) \in BOOLEAN
  BY DEF Wide

LEMMA InitReader == Init => ReaderInv
  <1> SUFFICES ASSUME Init PROVE ReaderInv
    OBVIOUS
  <1> USE DEF Init
  <1>1. TypeOK
    <2>1. stack \in Seq(Frame)
      OBVIOUS
    <2>2. pipe \in Seq(StreamCodes)
      OBVIOUS
    <2>3. requests \in Seq(Request)
      OBVIOUS
    <2>4. dllCallbacks \subseteq {ConnStatus}
      BY ClientAssumption
    <2> QED BY <2>1, <2>2, <2>3, <2>4 DEF TypeOK
  <1>2. StreamInv
    BY DEF StreamInv, Unread
  <1>3. HalfReadInv
    BY DEF HalfReadInv
  <1> QED BY <1>1, <1>2, <1>3 DEF ReaderInv

\* What the three ways of changing the stack make of it.
Pcs == {"size", "execSize", "body", "execBody", "callback"}

LEMMA TopOfStack ==
  ASSUME TypeOK, stack # <<>>
  PROVE  /\ Len(stack) \in DOMAIN stack
         /\ Top \in Frame
  BY DEF TypeOK, Top

LEMMA PoppedStack ==
  ASSUME TypeOK, stack # <<>>, stack' = Popped
  PROVE  /\ stack' \in Seq(Frame)
         /\ DOMAIN stack' = DOMAIN stack \ {Len(stack)}
         /\ \A i \in DOMAIN stack' : stack'[i] = stack[i]
  BY DEF TypeOK, Popped

LEMMA GotoStack ==
  ASSUME TypeOK, stack # <<>>, NEW p \in Pcs, Goto(p)
  PROVE  /\ stack' \in Seq(Frame)
         /\ DOMAIN stack' = DOMAIN stack /\ Len(stack') = Len(stack)
         /\ stack'[Len(stack)] = [Top EXCEPT !.pc = p]
         /\ \A i \in DOMAIN stack \ {Len(stack)} : stack'[i] = stack[i]
  <1>1. stack \in Seq(Frame) /\ Len(stack) \in DOMAIN stack /\ Top \in Frame
    BY TopOfStack DEF TypeOK
  <1>2. [Top EXCEPT !.pc = p] \in Frame
    BY <1>1 DEF Frame, Pcs
  <1>3. stack' = [stack EXCEPT ![Len(stack)] = [Top EXCEPT !.pc = p]]
    BY DEF Goto, Top
  <1> HIDE DEF Top
  <1> QED BY <1>1, <1>2, <1>3

LEMMA PushedStack ==
  ASSUME TypeOK, NEW f \in Frame, stack' = Append(stack, f)
  PROVE  /\ stack' \in Seq(Frame)
         /\ DOMAIN stack' = DOMAIN stack \cup {Len(stack) + 1}
         /\ stack'[Len(stack) + 1] = f
         /\ \A i \in DOMAIN stack : stack'[i] = stack[i]
  BY DEF TypeOK

LEMMA EndOfTurnStack ==
  ASSUME TypeOK, stack # <<>>, EndOfTurn
  PROVE  /\ stack' \in Seq(Frame)
         /\ quit' \in BOOLEAN
         /\ \A i \in DOMAIN stack' :
              /\ i \in DOMAIN stack
              /\ stack'[i].pc \in {"body", "execBody"} => i # Len(stack) /\ AtBody(i)
  <1>1. CASE Top.fn = "WaitRead" /\ stack' = Popped /\ UNCHANGED quit
    BY <1>1, PoppedStack DEF TypeOK, AtBody
  <1>2. CASE Goto(Entered("size")) /\ quit' = QuitOnEntry
    <2>1. Entered("size") \in {"size", "execSize"}
      BY DEF Entered
    <2>2. Entered("size") \in Pcs
      BY <2>1 DEF Pcs
    <2>3. quit' \in BOOLEAN
      BY <1>2 DEF QuitOnEntry, TypeOK
    <2>4. Top \in Frame
      BY TopOfStack
    <2>5. stack'[Len(stack)].pc = Entered("size")
      BY <1>2, <2>2, <2>4, GotoStack DEF Frame
    <2> QED BY <1>2, <2>1, <2>2, <2>3, <2>5, GotoStack DEF AtBody
  <1> QED BY <1>1, <1>2 DEF EndOfTurn

\* The reader at a body owns Head(pipe), and has its size word behind it.
LEMMA BodyReader ==
  ASSUME ReaderInv, Running, AtTop("body"), avail > 0
  PROVE  /\ stack # <<>> /\ pipe # <<>> /\ rest = "body"
         /\ Len(stack) \in DOMAIN stack
         /\ \A i \in DOMAIN stack : AtBody(i) => i = Len(stack)
  <1>1. Len(stack) \in DOMAIN stack /\ AtBody(Len(stack)) /\ stack # <<>>
    BY TopOfStack DEF ReaderInv, Running, AtTop, AtBody, Top
  <1> QED BY <1>1 DEF ReaderInv, HalfReadInv, StreamInv, Running

LEMMA ConsumedStream ==
  ASSUME TypeOK, StreamInv, pipe # <<>>, rest = "body", avail > 0, Consume
  PROVE  /\ pipe' \in Seq(StreamCodes) /\ avail' \in Nat /\ rest' = "none"
         /\ StreamInv'
  <1>1. Len(pipe') = Len(pipe) - 1 /\ pipe' \in Seq(StreamCodes)
    BY DEF Consume, TypeOK
  <1>2. Len(pipe) \in Nat /\ Len(pipe) > 0
    BY DEF TypeOK
  <1> QED BY <1>1, <1>2 DEF Consume, TypeOK, StreamInv, Unread

\* So it has when the caller takes the size word of the message behind.
LEMMA ReplyTaken ==
  ASSUME TypeOK, StreamInv, pipe # <<>>, rest = "body", avail > 0, TakeReply
  PROVE  /\ pipe' \in Seq(StreamCodes) /\ avail' \in Nat /\ rest' \in {"none", "body"}
         /\ pipe' = Tail(pipe) /\ StreamInv'
  <1>1. CASE Consume
    BY <1>1, ConsumedStream DEF Consume
  <1>2. CASE avail > 1 /\ pipe' = Tail(pipe) /\ avail' = avail - 2 /\ rest' = "body"
    <2>1. Len(pipe') = Len(pipe) - 1 /\ pipe' \in Seq(StreamCodes)
      BY <1>2 DEF TypeOK
    <2>2. Unread = 2 * Len(pipe) - 1 /\ Unread' = 2 * Len(pipe') - 1
      BY <1>2 DEF Unread
    <2>3. Len(pipe) \in Nat /\ avail \in Nat /\ avail <= 2 * Len(pipe) - 1
      BY <2>2 DEF TypeOK, StreamInv
    <2>4. avail' \in Nat /\ avail' <= Unread' /\ Len(pipe') > 0
      BY <1>2, <2>1, <2>2, <2>3
    <2>5. pipe' # <<>>
      BY <2>4
    <2> QED BY <1>2, <2>1, <2>4, <2>5 DEF StreamInv
  <1> QED BY <1>1, <1>2 DEF TakeReply

LEMMA PrefixOfPipe ==
  ASSUME TypeOK, NEW n \in 0 .. Len(pipe), pipe' = SubSeq(pipe, 1, n)
  PROVE  /\ pipe' \in Seq(StreamCodes) /\ Len(pipe') = n
         /\ \A i \in DOMAIN pipe' : i \in DOMAIN pipe /\ pipe'[i] = pipe[i]
  BY DEF TypeOK

LEMMA RegisteredType ==
  ASSUME TypeOK
  PROVE  \A r : Registered(r) \subseteq {ConnStatus}
  BY DEF Registered, TypeOK

LEMMA EnteredPc == \A p \in {"size", "body"} : Entered(p) \in Pcs
  BY DEF Entered, Pcs

\* Every step leaves the reader that is half way through a message alone.
LEMMA ReaderStep == ReaderInv /\ [Next]_vars => ReaderInv'
  <1> SUFFICES ASSUME ReaderInv, [Next]_vars PROVE ReaderInv'
    OBVIOUS
  <1> USE DEF ReaderInv
  <1>1. ASSUME NEW c \in AllCodes, NEW s \in {"none", "yes", "no"}, Invoke(c, s),
               handlers' \subseteq CallbackCodes
        PROVE  ReaderInv'
    <2> DEFINE f == [fn |-> "WaitReadMessage", fcode |-> c, wide |-> Wide(c, s),
                    pc |-> Entered("size")]
    <2>1. Entered("size") \in {"size", "execSize"}
      BY DEF Entered
    <2>2. f \in Frame /\ f.pc = Entered("size")
      BY <2>1, WideType DEF Frame
    <2>3. stack' = Append(stack, f)
      BY <1>1 DEF Invoke
    <2> HIDE DEF f
    <2>4. /\ stack' \in Seq(Frame)
          /\ DOMAIN stack' = DOMAIN stack \cup {Len(stack) + 1}
          /\ stack'[Len(stack) + 1] = f
          /\ \A i \in DOMAIN stack : stack'[i] = stack[i]
      BY <2>2, <2>3, PushedStack
    <2>5. requests' \in Seq(Request)
      <3>1. [code |-> c, isSet |-> s] \in Request
        BY DEF Request
      <3> QED BY <1>1, <3>1 DEF Invoke, Send, TypeOK
    <2>6. quit' \in BOOLEAN
      BY <1>1 DEF Invoke, QuitOnEntry, TypeOK
    <2>7. TypeOK'
      BY <1>1, <2>4, <2>5, <2>6 DEF TypeOK, Invoke
    <2>8. StreamInv'
      BY <1>1 DEF StreamInv, Unread, Invoke
    <2>9. HalfReadInv'
      BY <1>1, <2>1, <2>2, <2>4 DEF HalfReadInv, Invoke, AtBody
    <2> QED BY <2>7, <2>8, <2>9
  <1>2. ASSUME Call PROVE ReaderInv'
    <2>1. ASSUME NEW c \in Functions, CallFunction(c) PROVE ReaderInv'
      <3>1. c \in AllCodes
        BY DEF AllCodes
      <3> QED BY <1>1, <2>1, <3>1 DEF CallFunction, TypeOK
    <2>2. ASSUME NEW k \in Settable, SetHandler(k) \/ ResetHandler(k)
          PROVE  ReaderInv'
      <3>1. k \in CallbackCodes /\ SetterCode(k) \in AllCodes
        BY ClientAssumption, SetterCodes
      <3> QED BY <1>1, <2>2, <3>1 DEF SetHandler, ResetHandler, TypeOK
    <2> QED BY <1>2, <2>1, <2>2 DEF Call
  <1>3. ASSUME Receive PROVE ReaderInv'
    <2>1. PICK n \in 1 .. (Unread - avail) : avail' = avail + n
      BY <1>3 DEF Receive
    <2>2. Unread \in Nat /\ Unread' = Unread
      BY <1>3 DEF Receive, Unread, TypeOK, StreamInv
    <2>3. avail' \in Nat /\ avail' <= Unread
      BY <2>1, <2>2 DEF TypeOK
    <2>4. quit' \in BOOLEAN
      BY <1>3 DEF Receive, TypeOK
    <2>5. SlotFrame \in Frame /\ SlotFrame.pc = "size"
      BY DEF Frame, SlotFrame
    <2>6. /\ stack' \in Seq(Frame)
          /\ \A i \in DOMAIN stack' : stack'[i].pc \in {"body", "execBody"} =>
                                      i \in DOMAIN stack /\ AtBody(i)
      <3>1. stack' = stack \/ stack' = Append(stack, SlotFrame)
        BY <1>3 DEF Receive
      <3>2. CASE stack' = stack
        BY <3>2 DEF TypeOK, AtBody
      <3>3. CASE stack' = Append(stack, SlotFrame)
        BY <2>5, <3>3, PushedStack DEF AtBody
      <3> QED BY <3>1, <3>2, <3>3
    <2>7. TypeOK'
      BY <1>3, <2>3, <2>4, <2>6 DEF TypeOK, Receive, serverVars
    <2>8. StreamInv'
      BY <1>3, <2>2, <2>3 DEF StreamInv, Receive
    <2>9. HalfReadInv'
      BY <1>3, <2>6 DEF HalfReadInv, AtBody, Receive
    <2> QED BY <2>7, <2>8, <2>9
  <1>4. ASSUME ExecReturns PROVE ReaderInv'
    <2>1. stack # <<>>
      BY <1>4 DEF ExecReturns, Running
    <2>2. PICK p \in {"size", "body"} : Goto(p) /\ (p = "body" => AtTop("execBody"))
      BY <1>4 DEF ExecReturns
    <2>3. p \in Pcs /\ Top \in Frame
      BY <2>1, TopOfStack DEF Pcs
    <2>4. /\ stack' \in Seq(Frame)
          /\ DOMAIN stack' = DOMAIN stack
          /\ stack'[Len(stack)].pc = p
          /\ \A i \in DOMAIN stack \ {Len(stack)} : stack'[i] = stack[i]
      BY <2>1, <2>2, <2>3, GotoStack DEF Frame
    <2>5. TypeOK'
      BY <1>4, <2>4 DEF TypeOK, ExecReturns, streamVars, serverVars
    <2>6. StreamInv'
      BY <1>4 DEF StreamInv, Unread, ExecReturns, streamVars
    <2>7. HalfReadInv'
      BY <1>4, <2>2, <2>4 DEF HalfReadInv, AtBody, AtTop, Top, ExecReturns, streamVars
    <2> QED BY <2>5, <2>6, <2>7
  <1>5. ASSUME WaitForBytes PROVE ReaderInv'
    <2>1. stack # <<>>
      BY <1>5 DEF WaitForBytes, Running
    <2>2. PICK p \in {"size", "body"} : AtTop(p) /\ Goto(Entered(p))
      BY <1>5 DEF WaitForBytes
    <2>3. Entered(p) \in Pcs /\ Top \in Frame
      BY <2>1, TopOfStack, EnteredPc
    <2>4. /\ stack' \in Seq(Frame)
          /\ DOMAIN stack' = DOMAIN stack
          /\ stack'[Len(stack)].pc = Entered(p)
          /\ \A i \in DOMAIN stack \ {Len(stack)} : stack'[i] = stack[i]
      BY <2>1, <2>2, <2>3, GotoStack DEF Frame
    <2>5. Entered(p) \in {"body", "execBody"} => p = "body"
      BY DEF Entered
    <2>6. quit' \in BOOLEAN
      BY <1>5 DEF WaitForBytes, QuitOnEntry, TypeOK
    <2>7. TypeOK'
      BY <1>5, <2>4, <2>6 DEF TypeOK, WaitForBytes, streamVars, serverVars
    <2>8. StreamInv'
      BY <1>5 DEF StreamInv, Unread, WaitForBytes, streamVars
    <2>9. HalfReadInv'
      BY <1>5, <2>2, <2>4, <2>5
      DEF HalfReadInv, AtBody, AtTop, Top, WaitForBytes, streamVars
    <2> QED BY <2>7, <2>8, <2>9
  <1>6. ASSUME ReadSize PROVE ReaderInv'
    <2>1. CASE fault' # "none"
      <3>1. StreamInv'
        BY <1>6, <2>1 DEF ReadSize, Running, StreamInv, Unread
      <3>2. HalfReadInv'
        BY <2>1 DEF HalfReadInv
      <3>3. TypeOK'
        BY <1>6, <2>1 DEF ReadSize, Running, TypeOK, serverVars
      <3> QED BY <3>1, <3>2, <3>3
    <2>2. CASE fault' = "none"
      <3>1. /\ Goto("body") /\ rest = "none" /\ rest' = "body" /\ avail' = avail - 1
            /\ stack # <<>>
        BY <1>6, <2>2 DEF ReadSize, Running
      <3>2. Top \in Frame /\ "body" \in Pcs
        BY <3>1, TopOfStack DEF Pcs
      <3>3. /\ stack' \in Seq(Frame)
            /\ DOMAIN stack' = DOMAIN stack
            /\ stack'[Len(stack)].pc = "body"
            /\ \A i \in DOMAIN stack \ {Len(stack)} : stack'[i] = stack[i]
        BY <3>1, <3>2, GotoStack DEF Frame
      <3>4. \A i \in DOMAIN stack : ~AtBody(i)
        BY <1>6, <3>1 DEF ReadSize, Running, HalfReadInv
      <3>5. TypeOK'
        BY <1>6, <3>1, <3>3 DEF ReadSize, TypeOK, serverVars
      <3>6. StreamInv'
        BY <1>6, <3>1 DEF ReadSize, StreamInv, Unread, TypeOK
      <3>7. HalfReadInv'
        BY <3>1, <3>3, <3>4 DEF HalfReadInv, AtBody
      <3> QED BY <3>5, <3>6, <3>7
    <2> QED BY <2>1, <2>2
  <1>7. ASSUME RunCallback PROVE ReaderInv'
    <2>1. Running /\ AtTop("body") /\ avail > 0 /\ Consume /\ Goto("callback")
      BY <1>7 DEF RunCallback
    <2>2. /\ stack # <<>> /\ pipe # <<>> /\ rest = "body"
          /\ \A i \in DOMAIN stack : AtBody(i) => i = Len(stack)
      BY <2>1, BodyReader
    <2>3. /\ stack' \in Seq(Frame)
          /\ DOMAIN stack' = DOMAIN stack
          /\ stack'[Len(stack)].pc = "callback"
          /\ \A i \in DOMAIN stack \ {Len(stack)} : stack'[i] = stack[i]
      <3>1. Top \in Frame /\ "callback" \in Pcs
        BY <2>2, TopOfStack DEF Pcs
      <3> QED BY <2>1, <2>2, <3>1, GotoStack DEF Frame
    <2>4. TypeOK' /\ StreamInv'
      BY <1>7, <2>1, <2>2, <2>3, ConsumedStream DEF RunCallback, TypeOK, serverVars
    <2>5. HalfReadInv'
      BY <2>2, <2>3 DEF HalfReadInv, AtBody
    <2> QED BY <2>4, <2>5
  <1>8. ASSUME CallbackReturns PROVE ReaderInv'
    <2>1. EndOfTurn /\ stack # <<>>
      BY <1>8 DEF CallbackReturns, Running
    <2>2. TypeOK'
      BY <1>8, <2>1, EndOfTurnStack DEF CallbackReturns, TypeOK, streamVars, serverVars
    <2>3. StreamInv'
      BY <1>8 DEF CallbackReturns, StreamInv, Unread, streamVars
    <2>4. HalfReadInv'
      BY <1>8, <2>1, EndOfTurnStack DEF CallbackReturns, HalfReadInv, AtBody, streamVars
    <2> QED BY <2>2, <2>3, <2>4
  <1>9. ASSUME SkipCallback PROVE ReaderInv'
    <2>1. /\ Running /\ AtTop("body") /\ avail > 0 /\ EndOfTurn /\ rest' = "payload"
          /\ UNCHANGED <<waitFuncCallResult, handlers, fault, pipe, avail, serverVars>>
      BY <1>9 DEF SkipCallback
    <2>2. /\ stack # <<>> /\ pipe # <<>> /\ rest = "body"
          /\ \A i \in DOMAIN stack : AtBody(i) => i = Len(stack)
      BY <2>1, BodyReader
    <2>3. TypeOK'
      BY <2>1, <2>2, EndOfTurnStack DEF TypeOK, serverVars
    <2>4. StreamInv'
      BY <2>1, <2>2 DEF StreamInv, Unread
    <2>5. HalfReadInv'
      BY <2>1, <2>2, EndOfTurnStack DEF HalfReadInv, AtBody
    <2> QED BY <2>3, <2>4, <2>5
  <1>10. ASSUME Return PROVE ReaderInv'
    <2>1. Running /\ AtTop("body") /\ avail > 0 /\ TakeReply /\ stack' = Popped
      BY <1>10 DEF Return
    <2>2. /\ stack # <<>> /\ pipe # <<>> /\ rest = "body"
          /\ \A i \in DOMAIN stack : AtBody(i) => i = Len(stack)
      BY <2>1, BodyReader
    <2>3. TypeOK' /\ StreamInv'
      BY <1>10, <2>1, <2>2, ReplyTaken, PoppedStack DEF Return, TypeOK, serverVars
    <2>4. HalfReadInv'
      BY <2>1, <2>2, PoppedStack DEF HalfReadInv, AtBody
    <2> QED BY <2>3, <2>4
  <1>11. ASSUME WrongReply PROVE ReaderInv'
    <2>1. TypeOK'
      BY <1>11 DEF WrongReply, TypeOK, streamVars, serverVars
    <2>2. StreamInv'
      BY <1>11 DEF WrongReply, StreamInv, Unread, streamVars
    <2>3. HalfReadInv'
      BY <1>11 DEF WrongReply, HalfReadInv
    <2> QED BY <2>1, <2>2, <2>3
  <1>12. ASSUME NEW c \in StreamCodes, pipe' = Append(pipe, c) \/ pipe' = pipe,
                UNCHANGED <<avail, rest, clientVars>>
         PROVE  /\ pipe' \in Seq(StreamCodes) /\ StreamInv' /\ HalfReadInv'
    <2>1. /\ pipe \in Seq(StreamCodes) /\ pipe' \in Seq(StreamCodes)
          /\ Len(pipe') = Len(pipe) \/ Len(pipe') = Len(pipe) + 1
      <3>1. pipe \in Seq(StreamCodes)
        BY DEF TypeOK
      <3>2. CASE pipe' = pipe
        BY <3>1, <3>2
      <3>3. CASE pipe' = Append(pipe, c)
        BY <3>1, <3>3
      <3> QED BY <1>12, <3>2, <3>3
    <2>2. Len(pipe) \in Nat /\ Len(pipe') \in Nat
      BY <2>1
    <2>3. rest # "none" => pipe' # <<>>
      BY <1>12, <2>1, <2>2 DEF StreamInv
    <2>4. StreamInv'
      BY <1>12, <2>1, <2>2, <2>3 DEF StreamInv, Unread, TypeOK
    <2> QED BY <1>12, <2>1, <2>4 DEF HalfReadInv, AtBody, clientVars
  <1>13. ASSUME Answer PROVE ReaderInv'
    <2> DEFINE r == Head(requests)
    <2>1. /\ requests # <<>> /\ requests' = Tail(requests)
          /\ pipe' = Append(pipe, ReplyCode(r.code)) /\ dllCallbacks' = Registered(r)
          /\ UNCHANGED <<avail, rest, connected, clientVars>>
      BY <1>13 DEF Answer
    <2>2. r \in Request /\ requests' \in Seq(Request)
      BY <2>1 DEF TypeOK
    <2>3. r.code \in AllCodes
      BY <2>2 DEF Request
    <2> HIDE DEF r
    <2>4. ReplyCode(r.code) \in StreamCodes
      BY <2>3 DEF StreamCodes
    <2>5. dllCallbacks' \subseteq {ConnStatus}
      BY <2>1, RegisteredType
    <2>6. pipe' \in Seq(StreamCodes) /\ StreamInv' /\ HalfReadInv'
      BY <1>12, <2>1, <2>4
    <2>7. TypeOK'
      BY <2>1, <2>2, <2>5, <2>6 DEF TypeOK, clientVars
    <2> QED BY <2>6, <2>7
  <1>18. ASSUME Drop PROVE ReaderInv'
    <2>1. requests' \in Seq(Request)
      BY <1>18 DEF Drop, TypeOK
    <2>2. TypeOK'
      BY <1>18, <2>1 DEF Drop, TypeOK, clientVars, streamVars
    <2>3. StreamInv' /\ HalfReadInv'
      BY <1>18 DEF Drop, StreamInv, HalfReadInv, Unread, AtBody, clientVars, streamVars
    <2> QED BY <2>2, <2>3
  <1>14. ASSUME Push PROVE ReaderInv'
    <2>1. PICK k \in dllCallbacks : pipe' = Append(pipe, k)
      BY <1>14 DEF Push
    <2>2. k \in StreamCodes
      BY DEF TypeOK, StreamCodes, AllCodes, CallbackCodes
    <2>3. pipe' \in Seq(StreamCodes) /\ StreamInv' /\ HalfReadInv'
      BY <1>12, <1>14, <2>1, <2>2 DEF Push
    <2>4. TypeOK'
      BY <1>14, <2>3 DEF Push, TypeOK, clientVars, serverVars
    <2> QED BY <2>3, <2>4
  <1>15. CASE UNCHANGED vars
    BY <1>15 DEF vars, TypeOK, StreamInv, HalfReadInv, Unread, AtBody
  <1>16. ASSUME Register PROVE ReaderInv'
    <2>1. dllCallbacks' \subseteq {ConnStatus}
      BY <1>16, RegisteredType DEF Register
    <2>2. TypeOK'
      BY <1>16, <2>1 DEF Register, TypeOK, clientVars, streamVars
    <2>3. StreamInv' /\ HalfReadInv'
      BY <1>16 DEF Register, StreamInv, HalfReadInv, Unread, AtBody, clientVars, streamVars
    <2> QED BY <2>2, <2>3
  <1>17. ASSUME Lose PROVE ReaderInv'
    <2>1. PICK n \in 0 .. Len(pipe) : pipe' = SubSeq(pipe, 1, n)
      BY <1>17 DEF Lose
    <2>2. pipe' \in Seq(StreamCodes) /\ Len(pipe') = n
      BY <2>1, PrefixOfPipe
    <2>3. TypeOK'
      <3>1. /\ connected' = FALSE
            /\ UNCHANGED <<avail, rest, dllCallbacks>>
            /\ UNCHANGED <<stack, waitFuncCallResult, quit, handlers, fault>>
        BY <1>17 DEF Lose, clientVars
      <3>2. requests' \in Seq(Request)
        <4>1. PICK m \in 0 .. Len(requests) : requests' = SubSeq(requests, 1, m)
          BY <1>17 DEF Lose
        <4> QED BY <4>1 DEF TypeOK
      <3>3. connected' \in BOOLEAN
        BY <3>1
      <3> QED BY <2>2, <3>1, <3>2, <3>3 DEF TypeOK
    <2>4. StreamInv'
      <3>1. avail \in Nat /\ avail' = avail /\ rest' = rest /\ Unread' \in {avail, avail + 1}
        BY <1>17 DEF Lose, TypeOK
      <3>2. rest # "none" => Unread' = 2 * n - 1
        BY <2>2, <3>1 DEF Unread
      <3>3. rest # "none" => n # 0
        BY <3>1, <3>2
      <3> QED BY <2>2, <3>1, <3>3 DEF StreamInv
    <2>5. HalfReadInv'
      BY <1>17 DEF Lose, HalfReadInv, AtBody, clientVars
    <2> QED BY <2>3, <2>4, <2>5
  <1> QED
    BY <1>2, <1>3, <1>4, <1>5, <1>6, <1>7, <1>8, <1>9, <1>10, <1>11, <1>13, <1>14, <1>15,
       <1>16, <1>17, <1>18
    DEF Next, Step

\* The two readers keep their types and never share a half-read message,
\* whatever the application calls and from where.
THEOREM ReaderInvariant == Spec => []ReaderInv
  BY InitReader, ReaderStep, PTL DEF Spec

\* The variables of the client keep their types.
THEOREM TypeCorrect == Spec => []TypeOK
  <1>1. ReaderInv => TypeOK
    BY DEF ReaderInv
  <1> QED BY <1>1, ReaderInvariant, PTL

-----------------------------------------------------------------------------
(***************************************************************************)
(* Part 2.  An application that calls from its main loop only, sets any of *)
(* the callbacks but resets none, on a fresh session.                      *)
(***************************************************************************)
MainLoopCalls ==
    /\ CallSites \subseteq {"idle"}
    /\ ~Unsets
    /\ PriorRegistrations = {}

\* One reader at most is on the stack, and the flag tells which.  A caller that
\* takes more than its reply may leave a message begun with no reader at it.
StackInv ==
    /\ Len(stack) \in {0, 1}
    /\ waitFuncCallResult <=> stack # <<>> /\ Top.fn = "WaitReadMessage"
    /\ rest \in {"none", "body"}
    /\ fault = "assert" => waitFuncCallResult /\ ReplyCode(Top.fcode) # Top.fcode
    /\ fault = "starved" => stack # <<>> /\ Top.pc = "size"

\* What the main loop sends; h stands for the handlers set by then.
Sendable(r, h) ==
    \/ r.isSet = "none" /\ r.code \in Functions
    \/ r.isSet = "yes" /\ r.code = SetConnStatus /\ ConnStatus \in h
    \/ r.isSet = "yes" /\ r.code \in {TransReply, OrderStatus, UnsubscribeTrades}

\* A request under way is the running call's, and nothing is answered yet.
\* Setters whose code has no case stay on the stack without an answer.
RequestInv ==
    requests # <<>> =>
        LET r == Head(requests)
        IN  /\ Len(requests) = 1
            /\ waitFuncCallResult /\ r.code = Top.fcode
            /\ Sendable(r, handlers)
            /\ \A i \in DOMAIN pipe : pipe[i] \in CallbackCodes

\* A reply under way is the running call's, and the only one.
ReplyInv ==
    \A i, j \in DOMAIN pipe :
        pipe[i] \notin CallbackCodes =>
            /\ waitFuncCallResult /\ pipe[i] = ReplyCode(Top.fcode)
            /\ pipe[j] \notin CallbackCodes => i = j

\* What the DLL has registered, the client has set.
HandlerInv == dllCallbacks \subseteq handlers /\ HandlerInstalled

MainLoopInv == ReaderInv /\ StackInv /\ RequestInv /\ ReplyInv /\ HandlerInv

LEMMA InitMainLoop == ASSUME MainLoopCalls PROVE Init => MainLoopInv
  <1> SUFFICES ASSUME Init PROVE MainLoopInv
    OBVIOUS
  <1> USE DEF Init
  <1>1. StackInv
    BY DEF StackInv
  <1>2. RequestInv /\ ReplyInv
    BY DEF RequestInv, ReplyInv
  <1>3. HandlerInv
    BY DEF HandlerInv, HandlerInstalled, MainLoopCalls
  <1> QED BY <1>1, <1>2, <1>3, InitReader DEF MainLoopInv

LEMMA OneFrame ==
  ASSUME TypeOK, Len(stack) \in {0, 1}, stack # <<>>
  PROVE  /\ Len(stack) = 1 /\ DOMAIN stack = {1} /\ Top = stack[1]
         /\ Top \in Frame /\ Popped = <<>>
  <1>1. stack \in Seq(Frame)
    BY DEF TypeOK
  <1>2. Len(stack) = 1
    BY <1>1
  <1> QED BY <1>1, <1>2, TopOfStack DEF Top, Popped

LEMMA GotoOne ==
  ASSUME TypeOK, Len(stack) \in {0, 1}, stack # <<>>, NEW p \in Pcs, Goto(p)
  PROVE  /\ Len(stack') = 1 /\ stack' # <<>>
         /\ Top'.fn = Top.fn /\ Top'.fcode = Top.fcode /\ Top'.pc = p
  <1>1. /\ Len(stack) = 1 /\ Top \in Frame
        /\ stack' \in Seq(Frame) /\ DOMAIN stack' = DOMAIN stack
        /\ stack'[1] = [Top EXCEPT !.pc = p]
    BY OneFrame, GotoStack
  <1>2. Len(stack') = 1
    BY <1>1, GotoStack
  <1>3. Top' = [Top EXCEPT !.pc = p]
    BY <1>1, <1>2 DEF Top
  <1> QED BY <1>1, <1>2, <1>3 DEF Frame

\* A step that leaves the messages under way and the caller alone.
LEMMA QuietStep ==
  ASSUME MainLoopInv, waitFuncCallResult => Top'.fcode = Top.fcode,
         UNCHANGED <<pipe, requests, waitFuncCallResult, handlers, dllCallbacks>>
  PROVE  RequestInv' /\ ReplyInv' /\ HandlerInv'
  <1>1. RequestInv'
    BY DEF MainLoopInv, RequestInv
  <1>2. ReplyInv'
    BY DEF MainLoopInv, ReplyInv
  <1>3. HandlerInv'
    BY DEF MainLoopInv, HandlerInv, HandlerInstalled
  <1> QED BY <1>1, <1>2, <1>3

\* In the main loop no frame is below a reader: exec() really waits.
LEMMA LoopBelow ==
  ASSUME TypeOK, Len(stack) \in {0, 1}, stack # <<>>, Top.pc \notin {"execSize", "execBody"}
  PROVE  ~LoopRunning
  BY OneFrame DEF LoopRunning, InExec

\* A reply or request under way means that a function waits.
LEMMA Owed ==
  ASSUME MainLoopInv, stack = <<>> \/ Top.fn = "WaitRead"
  PROVE  requests = <<>> /\ \A i \in DOMAIN pipe : pipe[i] \in CallbackCodes
  BY DEF MainLoopInv, StackInv, RequestInv, ReplyInv

LEMMA TailOfPipe ==
  ASSUME TypeOK, pipe # <<>>, pipe' = Tail(pipe)
  PROVE  /\ 1 \in DOMAIN pipe /\ pipe[1] = Head(pipe)
         /\ \A i \in DOMAIN pipe' : i \in Nat \ {0} /\ i + 1 \in DOMAIN pipe
                                    /\ pipe'[i] = pipe[i + 1]
  BY DEF TypeOK

LEMMA AppendToPipe ==
  ASSUME TypeOK, NEW c, pipe' = Append(pipe, c)
  PROVE  /\ DOMAIN pipe' = DOMAIN pipe \cup {Len(pipe) + 1}
         /\ pipe'[Len(pipe) + 1] = c
         /\ \A i \in DOMAIN pipe : i # Len(pipe) + 1 /\ pipe'[i] = pipe[i]
  BY DEF TypeOK

LEMMA ReplyIsNoCallback ==
  \A c : c \notin CallbackCodes => ReplyCode(c) \notin CallbackCodes
  BY DEF ReplyCode, CallbackCodes, ConnStatus, TransReply, OrderStatus, TradeStatus

\* A request that registers the callback is sent when the handler is set.
LEMMA SetterSetsHandler ==
  ASSUME HandlerInv, NEW r, Sendable(r, handlers)
  PROVE  Registered(r) \subseteq handlers
  <1>1. CASE r.code # SetConnStatus
    BY <1>1 DEF Registered, HandlerInv
  <1>2. CASE r.code = SetConnStatus
    <2>1. r.code \notin Functions
      BY <1>2, ClientAssumption
    <2>2. r.code \notin {TransReply, OrderStatus, UnsubscribeTrades}
      BY <1>2 DEF SetConnStatus, TransReply, OrderStatus, UnsubscribeTrades
    <2> QED BY <1>2, <2>1, <2>2 DEF Sendable, Registered, HandlerInv
  <1> QED BY <1>1, <1>2

LEMMA MainLoopStep == ASSUME MainLoopCalls PROVE MainLoopInv /\ [Next]_vars => MainLoopInv'
  <1> SUFFICES ASSUME MainLoopInv, [Next]_vars PROVE MainLoopInv'
    OBVIOUS
  <1>0. ReaderInv' /\ ReaderInv /\ TypeOK /\ TypeOK' /\ StackInv
    BY ReaderStep DEF MainLoopInv, ReaderInv
  <1>1. ASSUME NEW c \in AllCodes, NEW s \in {"none", "yes"},
               Invoke(c, s), handlers \subseteq handlers',
               Sendable([code |-> c, isSet |-> s], handlers')
        PROVE  MainLoopInv'
    <2>1. stack = <<>>
      BY <1>1 DEF Invoke, CallSiteOpen, MainLoopCalls
    <2>2. requests = <<>> /\ \A i \in DOMAIN pipe : pipe[i] \in CallbackCodes
      BY <2>1, Owed
    <2>3. ~LoopRunning
      BY <2>1 DEF LoopRunning
    <2>4. /\ Len(stack') = 1 /\ stack' # <<>>
          /\ Top' = [fn |-> "WaitReadMessage", fcode |-> c, wide |-> Wide(c, s),
                     pc |-> "execSize"]
      BY <1>1, <2>1, <2>3 DEF Invoke, Entered, Top
    <2>5. StackInv'
      BY <1>0, <1>1, <2>1, <2>4 DEF StackInv, Invoke
    <2>6. requests' = <<[code |-> c, isSet |-> s]>> \/ requests' = <<>>
      BY <1>1, <2>2 DEF Invoke, Send
    <2>7. RequestInv'
      BY <1>1, <2>2, <2>4, <2>6 DEF RequestInv, Invoke
    <2>8. ReplyInv'
      BY <1>1, <2>2 DEF ReplyInv, Invoke
    <2>9. HandlerInv'
      BY <1>1 DEF HandlerInv, HandlerInstalled, Invoke, MainLoopInv
    <2> QED BY <1>0, <2>5, <2>7, <2>8, <2>9 DEF MainLoopInv
  <1>2. ASSUME Call PROVE MainLoopInv'
    <2>1. ASSUME NEW c \in Functions, CallFunction(c) PROVE MainLoopInv'
      <3>1. c \in AllCodes /\ Sendable([code |-> c, isSet |-> "none"], handlers')
        BY DEF AllCodes, Sendable
      <3> QED BY <1>1, <2>1, <3>1 DEF CallFunction
    <2>2. ASSUME NEW k \in Settable, SetHandler(k) PROVE MainLoopInv'
      <3>1. k \in CallbackCodes /\ SetterCode(k) \in AllCodes
        BY ClientAssumption, SetterCodes
      <3>2. k \in handlers' /\ handlers \subseteq handlers' /\ Invoke(SetterCode(k), "yes")
        BY <2>2 DEF SetHandler
      <3>3. Sendable([code |-> SetterCode(k), isSet |-> "yes"], handlers')
        BY <3>1, <3>2 DEF Sendable, SetterCode, CallbackCodes, ConnStatus, TransReply,
                          OrderStatus, TradeStatus
      <3> QED BY <1>1, <3>1, <3>2, <3>3
    <2>3. ~Unsets
      BY DEF MainLoopCalls
    <2> QED BY <1>2, <2>1, <2>2, <2>3 DEF Call, ResetHandler
  <1>3. ASSUME Receive PROVE MainLoopInv'
    <2>1. UNCHANGED <<waitFuncCallResult, handlers, fault, pipe, rest, serverVars>>
      BY <1>3 DEF Receive
    <2>2. CASE stack' = stack
      <3>1. Top' = Top
        BY <2>2 DEF Top
      <3>2. StackInv'
        BY <1>0, <2>1, <2>2, <3>1 DEF StackInv
      <3> QED BY <1>0, <2>1, <3>1, <3>2, QuietStep DEF MainLoopInv, serverVars
    <2>3. CASE stack' # stack
      <3>1. /\ ~waitFuncCallResult /\ ~Emitting
            /\ stack' = Append(stack, SlotFrame)
        BY <1>3, <2>3 DEF Receive
      <3>2. stack = <<>>
        <4>1. SUFFICES ASSUME stack # <<>> PROVE FALSE
          OBVIOUS
        <4>2. Top.fn = "WaitRead" /\ Top = stack[1] /\ 1 \in DOMAIN stack
          BY <1>0, <3>1, <4>1, OneFrame DEF StackInv, Frame
        <4> QED BY <3>1, <4>2 DEF Emitting
      <3>3. /\ Len(stack') = 1 /\ stack' # <<>>
            /\ Top'.fn = "WaitRead"
        BY <3>1, <3>2 DEF Top, SlotFrame
      <3>4. StackInv'
        BY <1>0, <2>1, <3>1, <3>2, <3>3 DEF StackInv
      <3> QED BY <1>0, <2>1, <3>1, <3>4, QuietStep DEF MainLoopInv, serverVars
    <2> QED BY <2>2, <2>3
  <1>4. ASSUME NEW p \in Pcs, Goto(p), stack # <<>>,
               fault = "none",
               UNCHANGED <<waitFuncCallResult, handlers, fault, streamVars, serverVars>>
        PROVE  MainLoopInv'
    <2>1. /\ Len(stack') = 1 /\ stack' # <<>>
          /\ Top'.fn = Top.fn /\ Top'.fcode = Top.fcode /\ Top'.pc = p
      BY <1>0, <1>4, GotoOne DEF StackInv
    <2>2. StackInv'
      BY <1>0, <1>4, <2>1 DEF StackInv, streamVars
    <2> QED BY <1>0, <1>4, <2>1, <2>2, QuietStep DEF MainLoopInv, streamVars, serverVars
  <1>5. ASSUME ExecReturns PROVE MainLoopInv'
    BY <1>4, <1>5 DEF ExecReturns, Running, Pcs
  <1>6. ASSUME WaitForBytes PROVE MainLoopInv'
    <2>1. PICK p \in {"size", "body"} : AtTop(p) /\ Goto(Entered(p))
      BY <1>6 DEF WaitForBytes
    <2>2. Entered(p) \in Pcs
      BY DEF Entered, Pcs
    <2> QED BY <1>4, <1>6, <2>1, <2>2 DEF WaitForBytes, Running
  <1>7. ASSUME ReadSize PROVE MainLoopInv'
    <2>1. /\ stack # <<>> /\ Top.pc = "size" /\ rest \in {"none", "body"}
          /\ fault = "none"
      BY <1>0, <1>7 DEF ReadSize, AtTop, StackInv, Running
    <2>2. UNCHANGED <<waitFuncCallResult, quit, handlers, pipe, serverVars>>
      BY <1>7 DEF ReadSize
    <2>3. CASE rest' = "body" /\ Goto("body") /\ UNCHANGED fault
      <3>1. /\ Len(stack') = 1 /\ stack' # <<>>
            /\ Top'.fn = Top.fn /\ Top'.fcode = Top.fcode /\ Top'.pc = "body"
        BY <1>0, <2>1, <2>3, GotoOne DEF StackInv, Pcs
      <3>2. StackInv'
        BY <1>0, <2>1, <2>2, <2>3, <3>1 DEF StackInv
      <3> QED BY <1>0, <2>2, <3>1, <3>2, QuietStep DEF MainLoopInv, serverVars
    <2>4. CASE fault' = "starved" /\ UNCHANGED <<rest, stack>>
      <3>1. Top' = Top
        BY <2>4 DEF Top
      <3>2. StackInv'
        BY <1>0, <2>1, <2>2, <2>4, <3>1 DEF StackInv
      <3> QED BY <1>0, <2>2, <3>1, <3>2, QuietStep DEF MainLoopInv, serverVars
    <2> QED BY <1>7, <2>1, <2>3, <2>4 DEF ReadSize
  <1>8. ASSUME RunCallback PROVE MainLoopInv'
    <2>1. /\ Running /\ AtTop("body") /\ avail > 0 /\ Consume /\ Goto("callback")
          /\ Head(pipe) \in CallbackCodes
          /\ UNCHANGED <<waitFuncCallResult, quit, handlers, fault, serverVars>>
      BY <1>8 DEF RunCallback
    <2>2. stack # <<>> /\ pipe # <<>> /\ pipe' = Tail(pipe) /\ rest' = "none"
      BY <1>0, <2>1, BodyReader DEF Consume
    <2>3. /\ Len(stack') = 1 /\ stack' # <<>>
          /\ Top'.fn = Top.fn /\ Top'.fcode = Top.fcode /\ Top'.pc = "callback"
      BY <1>0, <2>1, <2>2, GotoOne DEF StackInv, Pcs
    <2>4. \A i \in DOMAIN pipe' : i \in Nat \ {0} /\ i + 1 \in DOMAIN pipe
                                  /\ pipe'[i] = pipe[i + 1]
      BY <1>0, <2>2, TailOfPipe
    <2>5. StackInv'
      BY <1>0, <2>1, <2>2, <2>3 DEF StackInv, Running
    <2>6. RequestInv'
      BY <2>1, <2>3, <2>4 DEF MainLoopInv, RequestInv, serverVars
    <2>7. ReplyInv'
      BY <2>1, <2>3, <2>4 DEF MainLoopInv, ReplyInv
    <2>8. HandlerInv'
      BY <2>1, <2>4 DEF MainLoopInv, HandlerInv, HandlerInstalled, serverVars
    <2> QED BY <1>0, <2>5, <2>6, <2>7, <2>8 DEF MainLoopInv
  <1>9. ASSUME CallbackReturns PROVE MainLoopInv'
    <2>1. /\ stack # <<>> /\ Top.pc = "callback" /\ EndOfTurn
          /\ UNCHANGED <<waitFuncCallResult, handlers, fault, streamVars, serverVars>>
      BY <1>9 DEF CallbackReturns, Running, AtTop
    <2>2. CASE Top.fn = "WaitRead" /\ stack' = Popped
      <3>1. stack' = <<>> /\ ~waitFuncCallResult /\ fault = "none"
        BY <1>0, <1>9, <2>1, <2>2, OneFrame DEF StackInv, CallbackReturns, Running
      <3>2. StackInv'
        BY <1>0, <2>1, <3>1 DEF StackInv, streamVars
      <3> QED BY <1>0, <2>1, <3>1, <3>2, QuietStep DEF MainLoopInv, streamVars, serverVars
    <2>3. CASE Goto(Entered("size"))
      <3>1. Entered("size") \in {"size", "execSize"} /\ Entered("size") \in Pcs
        BY DEF Entered, Pcs
      <3> QED BY <1>4, <1>9, <2>1, <2>3, <3>1 DEF CallbackReturns, Running
    <2> QED BY <2>1, <2>2, <2>3 DEF EndOfTurn
  <1>10. ASSUME Running, AtTop("body"), avail > 0
         PROVE  stack # <<>> /\ pipe # <<>> /\ 1 \in DOMAIN pipe /\ pipe[1] = Head(pipe)
    <2>1. stack # <<>> /\ pipe # <<>>
      BY <1>0, <1>10, BodyReader
    <2> QED BY <1>0, <2>1 DEF TypeOK
  <1>11. ASSUME SkipCallback PROVE MainLoopInv'
    <2>1. 1 \in DOMAIN pipe /\ pipe[1] \in CallbackCodes \ handlers
      BY <1>10, <1>11 DEF SkipCallback
    <2> QED BY <2>1 DEF MainLoopInv, HandlerInv, HandlerInstalled
  <1>12. ASSUME Return PROVE MainLoopInv'
    <2>1. /\ Running /\ AtTop("body") /\ avail > 0 /\ TakeReply /\ stack' = Popped
          /\ Head(pipe) \notin CallbackCodes /\ ~waitFuncCallResult'
          /\ UNCHANGED <<quit, handlers, fault, serverVars>>
      BY <1>12 DEF Return
    <2>2. /\ stack # <<>> /\ pipe # <<>> /\ pipe' = Tail(pipe)
          /\ rest' \in {"none", "body"} /\ fault = "none"
          /\ 1 \in DOMAIN pipe /\ pipe[1] \notin CallbackCodes
      BY <1>10, <2>1 DEF TakeReply, Consume, Running
    <2>3. stack' = <<>>
      BY <1>0, <2>1, <2>2, OneFrame DEF StackInv
    <2>4. requests = <<>>
      BY <2>2 DEF MainLoopInv, RequestInv
    <2>5. \A i \in DOMAIN pipe' : i \in Nat \ {0} /\ i + 1 \in DOMAIN pipe
                                  /\ pipe'[i] = pipe[i + 1]
      BY <1>0, <2>2, TailOfPipe
    <2>6. \A i \in DOMAIN pipe' : pipe'[i] \in CallbackCodes
      <3> TAKE i \in DOMAIN pipe'
      <3>1. i + 1 \in DOMAIN pipe /\ pipe'[i] = pipe[i + 1] /\ i + 1 # 1
        BY <2>5
      <3> QED BY <2>2, <3>1 DEF MainLoopInv, ReplyInv
    <2>7. StackInv'
      BY <1>0, <2>1, <2>2, <2>3 DEF StackInv
    <2>8. RequestInv' /\ ReplyInv'
      BY <2>1, <2>4, <2>6 DEF RequestInv, ReplyInv, serverVars
    <2>9. HandlerInv'
      BY <2>1, <2>5 DEF MainLoopInv, HandlerInv, HandlerInstalled, serverVars
    <2> QED BY <1>0, <2>7, <2>8, <2>9 DEF MainLoopInv
  <1>13. ASSUME WrongReply PROVE MainLoopInv'
    <2>1. /\ 1 \in DOMAIN pipe /\ pipe[1] \notin CallbackCodes
          /\ Top.fn = "WaitRead" \/ pipe[1] # Top.fcode
      BY <1>10, <1>13 DEF WrongReply
    <2>2. waitFuncCallResult /\ ReplyCode(Top.fcode) # Top.fcode
      BY <1>0, <2>1 DEF MainLoopInv, ReplyInv, StackInv
    <2>3. /\ fault' = "assert"
          /\ UNCHANGED <<stack, waitFuncCallResult, quit, handlers, streamVars, serverVars>>
      BY <1>13 DEF WrongReply
    <2>4. Top' = Top
      BY <2>3 DEF Top
    <2>5. StackInv'
      BY <1>0, <2>2, <2>3, <2>4 DEF StackInv, streamVars
    <2> QED BY <1>0, <2>3, <2>4, <2>5, QuietStep DEF MainLoopInv, streamVars, serverVars
  <1>14. ASSUME Answer PROVE MainLoopInv'
    <2> DEFINE r == Head(requests)
    <2>1. /\ requests # <<>> /\ requests' = Tail(requests)
          /\ r.code \notin Unanswered
          /\ pipe' = Append(pipe, ReplyCode(r.code)) /\ dllCallbacks' = Registered(r)
          /\ UNCHANGED <<avail, rest, clientVars>>
      BY <1>14 DEF Answer
    <2>2. /\ Len(requests) = 1 /\ waitFuncCallResult /\ r.code = Top.fcode
          /\ Sendable(r, handlers)
          /\ \A i \in DOMAIN pipe : pipe[i] \in CallbackCodes
      BY <2>1 DEF MainLoopInv, RequestInv
    <2>3. requests' = <<>>
      BY <1>0, <2>1, <2>2 DEF TypeOK
    <2> HIDE DEF r
    <2>4. ReplyCode(r.code) \notin CallbackCodes /\ dllCallbacks' \subseteq handlers
      BY <2>1, <2>2, ReplyIsNoCallback, SetterSetsHandler DEF MainLoopInv, Unanswered
    <2>5. Top' = Top
      BY <2>1 DEF Top, clientVars
    <2>6. StackInv'
      BY <1>0, <2>1, <2>5 DEF StackInv, clientVars
    <2>7. RequestInv'
      BY <2>3 DEF RequestInv
    <2>8. /\ DOMAIN pipe' = DOMAIN pipe \cup {Len(pipe) + 1}
          /\ pipe'[Len(pipe) + 1] = ReplyCode(r.code)
          /\ \A i \in DOMAIN pipe : i # Len(pipe) + 1 /\ pipe'[i] = pipe[i]
      BY <1>0, <2>1, AppendToPipe
    <2>9. ReplyInv'
      BY <2>1, <2>2, <2>5, <2>8 DEF ReplyInv, clientVars
    <2>10. HandlerInv'
      BY <2>1, <2>4, <2>8 DEF MainLoopInv, HandlerInv, HandlerInstalled, clientVars
    <2> QED BY <1>0, <2>6, <2>7, <2>9, <2>10 DEF MainLoopInv
  <1>19. ASSUME Drop PROVE MainLoopInv'
    <2>1. /\ requests # <<>> /\ requests' = Tail(requests)
          /\ UNCHANGED <<dllCallbacks, clientVars, streamVars>>
      BY <1>19 DEF Drop
    <2>2. requests' = <<>>
      BY <1>0, <2>1 DEF MainLoopInv, RequestInv, TypeOK
    <2>3. Top' = Top
      BY <2>1 DEF Top, clientVars
    <2>4. StackInv'
      BY <1>0, <2>1, <2>3 DEF StackInv, clientVars, streamVars
    <2>5. RequestInv' /\ ReplyInv'
      BY <2>1, <2>2, <2>3 DEF MainLoopInv, RequestInv, ReplyInv, clientVars, streamVars
    <2>6. HandlerInv'
      BY <2>1 DEF MainLoopInv, HandlerInv, HandlerInstalled, clientVars, streamVars
    <2> QED BY <1>0, <2>4, <2>5, <2>6 DEF MainLoopInv
  <1>15. ASSUME Push PROVE MainLoopInv'
    <2>1. PICK k \in dllCallbacks : pipe' = Append(pipe, k)
      BY <1>15 DEF Push
    <2>2. UNCHANGED <<avail, rest, clientVars, serverVars>>
      BY <1>15 DEF Push
    <2>3. k \in CallbackCodes /\ k \in handlers
      BY <1>0 DEF MainLoopInv, HandlerInv, TypeOK, CallbackCodes
    <2>4. /\ DOMAIN pipe' = DOMAIN pipe \cup {Len(pipe) + 1}
          /\ pipe'[Len(pipe) + 1] = k
          /\ \A i \in DOMAIN pipe : i # Len(pipe) + 1 /\ pipe'[i] = pipe[i]
      BY <1>0, <2>1, AppendToPipe
    <2>5. Top' = Top
      BY <2>2 DEF Top, clientVars
    <2>6. StackInv'
      BY <1>0, <2>2, <2>5 DEF StackInv, clientVars
    <2>7. RequestInv'
      BY <2>2, <2>3, <2>4, <2>5 DEF MainLoopInv, RequestInv, clientVars, serverVars
    <2>8. ReplyInv'
      BY <2>2, <2>3, <2>4, <2>5 DEF MainLoopInv, ReplyInv, clientVars
    <2>9. HandlerInv'
      BY <2>2, <2>3, <2>4 DEF MainLoopInv, HandlerInv, HandlerInstalled, clientVars, serverVars
    <2> QED BY <1>0, <2>6, <2>7, <2>8, <2>9 DEF MainLoopInv
  <1>16. CASE UNCHANGED vars
    <2>1. UNCHANGED <<stack, waitFuncCallResult, handlers, fault, pipe, rest,
                      requests, dllCallbacks>>
      BY <1>16 DEF vars
    <2>2. Top' = Top
      BY <2>1 DEF Top
    <2>3. StackInv'
      BY <1>0, <2>1, <2>2 DEF StackInv
    <2> QED BY <1>0, <2>1, <2>2, <2>3, QuietStep DEF MainLoopInv
  <1>17. ASSUME Register PROVE MainLoopInv'
    <2>1. /\ requests # <<>> /\ Head(requests).code = SetConnStatus
          /\ dllCallbacks' = Registered(Head(requests))
          /\ UNCHANGED <<requests, clientVars, streamVars>>
      BY <1>17 DEF Register
    <2>2. dllCallbacks' \subseteq handlers
      BY <2>1, SetterSetsHandler DEF MainLoopInv, RequestInv
    <2>3. Top' = Top
      BY <2>1 DEF Top, clientVars
    <2>4. StackInv'
      BY <1>0, <2>1, <2>3 DEF StackInv, clientVars, streamVars
    <2>5. RequestInv' /\ ReplyInv'
      BY <2>1, <2>3 DEF MainLoopInv, RequestInv, ReplyInv, clientVars, streamVars
    <2>6. HandlerInv'
      BY <2>1, <2>2 DEF MainLoopInv, HandlerInv, HandlerInstalled, clientVars, streamVars
    <2> QED BY <1>0, <2>4, <2>5, <2>6 DEF MainLoopInv
  <1>18. ASSUME Lose PROVE MainLoopInv'
    <2>1. PICK n \in 0 .. Len(pipe) : pipe' = SubSeq(pipe, 1, n)
      BY <1>18 DEF Lose
    <2>2. \A i \in DOMAIN pipe' : i \in DOMAIN pipe /\ pipe'[i] = pipe[i]
      BY <1>0, <2>1, PrefixOfPipe
    <2>3. UNCHANGED <<rest, dllCallbacks, clientVars>>
      BY <1>18 DEF Lose
    <2>r. requests' = requests \/ requests' = <<>>
      <3>1. PICK m \in 0 .. Len(requests) : requests' = SubSeq(requests, 1, m)
        BY <1>18 DEF Lose
      <3>2. Len(requests) \in {0, 1}
        BY <1>0 DEF MainLoopInv, RequestInv, TypeOK
      <3> QED BY <1>0, <3>1, <3>2 DEF TypeOK
    <2>4. Top' = Top
      BY <2>3 DEF Top, clientVars
    <2>5. StackInv'
      BY <1>0, <2>3, <2>4 DEF StackInv, clientVars
    <2>6. RequestInv' /\ ReplyInv'
      BY <2>2, <2>3, <2>r, <2>4 DEF MainLoopInv, RequestInv, ReplyInv, clientVars
    <2>7. HandlerInv'
      BY <2>2, <2>3 DEF MainLoopInv, HandlerInv, HandlerInstalled, clientVars
    <2> QED BY <1>0, <2>5, <2>6, <2>7 DEF MainLoopInv
  <1> QED
    BY <1>2, <1>3, <1>5, <1>6, <1>7, <1>8, <1>9, <1>11, <1>12, <1>13, <1>14, <1>15, <1>16,
       <1>17, <1>18, <1>19
    DEF Next, Step

\* In a program whose calls come from the main loop the two readers share the
\* stream safely, whatever functions it calls and whatever callbacks it sets: no
\* Q_ASSERT fails but that of a function the server answers under another's code,
\* no reader starts inside a message that another has begun to read, the flag says
\* whether a function waits, and every callback finds its handler.
THEOREM MainLoopSafe ==
  ASSUME MainLoopCalls
  PROVE  Spec => [](OnlyMisanswered /\ ReadersApart /\ FlagMeansWaiting /\ HandlerInstalled)
  <1>1. Init => MainLoopInv
    BY InitMainLoop
  <1>2. MainLoopInv /\ [Next]_vars => MainLoopInv'
    BY MainLoopStep
  <1>3. MainLoopInv
          => OnlyMisanswered /\ ReadersApart /\ FlagMeansWaiting /\ HandlerInstalled
    <2> SUFFICES ASSUME MainLoopInv
                 PROVE  OnlyMisanswered /\ ReadersApart /\ FlagMeansWaiting
                        /\ HandlerInstalled
      OBVIOUS
    <2>1. TypeOK /\ StackInv /\ HandlerInstalled
      BY DEF MainLoopInv, ReaderInv, HandlerInv
    <2>2. OnlyMisanswered
      BY <2>1 DEF StackInv, OnlyMisanswered
    <2>3. CASE stack = <<>>
      BY <2>1, <2>2, <2>3 DEF StackInv, FlagMeansWaiting, Waiting, ReadersApart
    <2>4. CASE stack # <<>>
      <3>1. DOMAIN stack = {1} /\ Top = stack[1]
        BY <2>1, <2>4, OneFrame DEF StackInv
      <3> QED BY <2>1, <2>2, <2>4, <3>1 DEF StackInv, FlagMeansWaiting, Waiting, ReadersApart
    <2> QED BY <2>3, <2>4
  <1> QED BY <1>1, <1>2, <1>3, PTL DEF Spec

=============================================================================
