---------------------------- MODULE T2QSendBuffer ----------------------------
(***************************************************************************)
(* The server's send buffer: one byte array, _buf, that data() clears,     *)
(* PrepareMessage fills through the one stream _out, and write() copies to *)
(* the socket.  A thread that prepares a message goes through the steps    *)
(* below; two threads may do so at once, and neither takes a lock.         *)
(*                                                                         *)
(* The steps are the accesses to _buf and to the position of _out, one     *)
(* word at a time.  A payload is one word.  T2QServer says who prepares    *)
(* messages and when.                                                      *)
(***************************************************************************)
EXTENDS Integers, Sequences

CONSTANT Threads

VARIABLES
    buf,    \* _buf, a sequence of words
    pos,    \* the position of _out in it
    job     \* what each thread is about: see Idle and Begin

sendVars == <<buf, pos, job>>

Size(n) == <<"size", n>>
CodeOf(m) == <<"code", m>>
PayloadOf(m) == <<"payload", m>>
Gap == <<"gap", 0>>     \* a word no one wrote

\* A message as it should leave the server; a size counts the words behind it.
Encoded(m) == <<Size(2), CodeOf(m), PayloadOf(m)>>

\* start is old_pos and size is sz of PrepareMessage.
Idle == [pc |-> "idle", message |-> "none", start |-> 0, size |-> 0]

AtStep(t, p) == job[t].pc = p
ThreadIdle(t) == AtStep(t, "idle")

Advance(t, p) == job' = [job EXCEPT ![t].pc = p]

Begin(t, m) ==
    /\ ThreadIdle(t)
    /\ job' = [job EXCEPT ![t] = [Idle EXCEPT !.pc = "clear", !.message = m]]
    /\ UNCHANGED <<buf, pos>>

\* data(): the array is emptied, then the stream goes back to its start.
Clear(t) ==
    /\ AtStep(t, "clear") /\ Advance(t, "rewind")
    /\ buf' = <<>> /\ UNCHANGED pos

Rewind(t) ==
    /\ AtStep(t, "rewind") /\ Advance(t, "zero")
    /\ pos' = 0 /\ UNCHANGED buf

\* A word is written over what is at the position, or behind the end.
Put(w) ==
    /\ buf' = [i \in 1 .. (IF pos < Len(buf) THEN Len(buf) ELSE pos + 1) |->
                 IF i = pos + 1 THEN w
                 ELSE IF i <= Len(buf) THEN buf[i] ELSE Gap]
    /\ pos' = pos + 1

PutZero(t) ==
    /\ AtStep(t, "zero") /\ Put(Size(0))
    /\ job' = [job EXCEPT ![t].pc = "code", ![t].start = pos]

PutCode(t) ==
    /\ AtStep(t, "code") /\ Put(CodeOf(job[t].message))
    /\ Advance(t, "payload")

PutPayload(t) ==
    /\ AtStep(t, "payload") /\ Put(PayloadOf(job[t].message))
    /\ Advance(t, "measure")

\* Defect: the stream is not taken back to where the message starts.
MeasureInPlace(t) ==
    /\ AtStep(t, "measure")
    /\ job' = [job EXCEPT ![t].pc = "size", ![t].size = Len(buf)]
    /\ UNCHANGED <<buf, pos>>

Measure(t) ==
    /\ AtStep(t, "measure")
    /\ job' = [job EXCEPT ![t].pc = "size", ![t].size = Len(buf)]
    /\ pos' = job[t].start /\ UNCHANGED buf

\* sz - sizeof(quint32); -1 stands for the quint32 it is when another thread
\* had emptied the array.
PutSize(t) ==
    /\ AtStep(t, "size") /\ Put(Size(job[t].size - 1))
    /\ Advance(t, "prepared")

Prepare(t) == \/ Clear(t) \/ Rewind(t) \/ PutZero(t) \/ PutCode(t)
              \/ PutPayload(t) \/ Measure(t) \/ PutSize(t)

\* The thread has copied what _buf holds, or has let it be.
End(t) == job' = [job EXCEPT ![t] = Idle] /\ UNCHANGED <<buf, pos>>

SendInit ==
    /\ buf = <<>> /\ pos = 0
    /\ job = [t \in Threads |-> Idle]

Steps == {"idle", "clear", "rewind", "zero", "code", "payload", "measure",
          "size", "prepared", "tested"}

Word(Messages) == ({"size"} \X Int) \cup ({"code", "payload"} \X Messages)
                                   \cup {Gap}

SendTypeOK(Messages) ==
    /\ buf \in Seq(Word(Messages)) /\ pos \in Nat
    /\ job \in [Threads -> [pc: Steps, message: Messages \cup {"none"},
                            start: Nat, size: Nat]]

=============================================================================
