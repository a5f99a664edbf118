---------------------------- MODULE T2QWire_proofs ----------------------------
(***************************************************************************)
(* Proofs about T2QWire.                                                   *)
(***************************************************************************)
EXTENDS T2QWire, T2QFormats_proofs

-----------------------------------------------------------------------------
(***************************************************************************)
(* The values of a call, of its results and of a report.                   *)
(***************************************************************************)
LEMMA TuplesDefined ==
  ASSUME NEW sets, Len(sets) \in Nat
  PROVE  \E r : /\ r = [i \in 0 .. Len(sets) |->
                          IF i = 0 THEN {<<>>}
                          ELSE {Append(p[1], p[2]) : p \in r[i - 1] \X sets[i]}]
                /\ Tuples(sets) = r[Len(sets)]
  <1> DEFINE n == Len(sets)
             After(i, before) == {Append(p[1], p[2]) : p \in before \X sets[i]}
             None == {<<>>}
             Part(k, r) == r = [i \in 0 .. k |->
                                  IF i = 0 THEN None ELSE After(i, r[i - 1])]
             S == {k \in 0 .. n : \E r : Part(k, r)}
  <1>0. n \in Nat
    OBVIOUS
  <1>1. 0 \in S
    <2>1. Part(0, [i \in 0 .. 0 |-> None])
      <3> HIDE DEF After, None
      <3> QED OBVIOUS
    <2> HIDE DEF Part
    <2> QED BY <1>0, <2>1
  <1>2. ASSUME NEW k \in 0 .. n - 1, k \in S PROVE k + 1 \in S
    <2> HIDE DEF After, None
    <2>1. PICK r : Part(k, r)
      BY <1>2
    <2> DEFINE v == [i \in 0 .. k + 1 |-> IF i = k + 1 THEN After(i, r[i - 1]) ELSE r[i]]
    <2>2. \A i \in 0 .. k + 1 : v[i] = IF i = 0 THEN None ELSE After(i, v[i - 1])
      BY <2>1
    <2>3. Part(k + 1, v)
      BY <2>2
    <2> HIDE DEF Part, v
    <2> QED BY <1>0, <2>3
  <1>3. n \in S
    <2> HIDE DEF S
    <2>1. \A k \in 0 .. n - 1 : k \in S => k + 1 \in S
      BY <1>2
    <2>2. 0 .. n \subseteq S
      <3> HIDE DEF n
      <3> QED BY <1>0, <1>1, <2>1, UpTo
    <2> QED BY <1>0, <2>2
  <1>4. \E r : Part(n, r)
    BY <1>3
  <1> DEFINE g == CHOOSE r : r = [i \in 0 .. Len(sets) |->
                    IF i = 0 THEN {<<>>}
                    ELSE {Append(p[1], p[2]) : p \in r[i - 1] \X sets[i]}]
  <1>5. Part(n, g)
    BY <1>4, Zenon
  <1>6. Tuples(sets) = g[Len(sets)]
    BY Zenon DEF Tuples
  <1> HIDE DEF g
  <1> QED BY <1>5, <1>6, Zenon

LEMMA TuplesForm ==
  ASSUME NEW sets, Len(sets) \in Nat, NEW s \in Tuples(sets)
  PROVE  /\ s \in Seq(UNION {sets[i] : i \in 1 .. Len(sets)}) /\ Len(s) = Len(sets)
         /\ \A i \in 1 .. Len(sets) : s[i] \in sets[i]
  <1> DEFINE n == Len(sets)
             V == UNION {sets[i] : i \in 1 .. n}
             Good(k, t) == /\ t \in Seq(V) /\ Len(t) = k
                           /\ \A i \in 1 .. k : t[i] \in sets[i]
  <1>0. n \in Nat
    OBVIOUS
  <1>1. PICK r : /\ r = [i \in 0 .. n |->
                          IF i = 0 THEN {<<>>}
                          ELSE {Append(p[1], p[2]) : p \in r[i - 1] \X sets[i]}]
                 /\ Tuples(sets) = r[n]
    BY TuplesDefined, Zenon
  <1>2. \A i \in 0 .. n : r[i] = IF i = 0 THEN {<<>>}
                          ELSE {Append(p[1], p[2]) : p \in r[i - 1] \X sets[i]}
    BY <1>1, Zenon
  <1> DEFINE P == {k \in 0 .. n : \A t \in r[k] : Good(k, t)}
  <1>3. 0 \in P
    <2>0. 0 \in 0 .. n
      BY <1>0
    <2>1. 0 \in 0 .. n /\ r[0] = {<<>>}
      BY <1>2, <2>0, Zenon
    <2> HIDE DEF V
    <2>2. Good(0, <<>>)
      OBVIOUS
    <2> HIDE DEF Good
    <2> QED BY <2>1, <2>2
  <1>4. ASSUME NEW k \in 0 .. n - 1, k \in P PROVE k + 1 \in P
    <2> DEFINE i == k + 1
    <2>1. i \in 0 .. n /\ i \in 1 .. n /\ i # 0 /\ i - 1 = k
      BY <1>0
    <2>2. r[i] = {Append(p[1], p[2]) : p \in r[k] \X sets[i]}
      <3> HIDE DEF i
      <3>1. r[i] = {Append(p[1], p[2]) : p \in r[i - 1] \X sets[i]}
        BY <1>2, <2>1
      <3> QED BY <2>1, <3>1
    <2>3. ASSUME NEW t \in r[k], NEW v \in sets[i] PROVE Good(i, Append(t, v))
      <3>1. Good(k, t)
        BY <1>4
      <3>2. v \in V
        BY <2>1, <2>3, Zenon
      <3> HIDE DEF V
      <3> QED BY <2>3, <3>1, <3>2
    <2> HIDE DEF Good, i
    <2>4. \A t \in r[i] : Good(i, t)
      <3> TAKE t \in r[i]
      <3>1. PICK p \in r[k] \X sets[i] : t = Append(p[1], p[2])
        BY <2>2, Zenon
      <3>2. p[1] \in r[k] /\ p[2] \in sets[i]
        OBVIOUS
      <3> QED BY <2>3, <3>1, <3>2, Zenon
    <2> QED BY <2>1, <2>4 DEF i
  <1>5. n \in P
    <2> HIDE DEF P, n
    <2>1. 0 .. n \subseteq P
      BY <1>0, <1>3, <1>4, UpTo
    <2> QED BY <1>0, <2>1
  <1> QED BY <1>1, <1>5, Zenon

\* The values of a list of types.
LEMMA ListForms ==
  ASSUME NEW types, IsList(types), NEW sets, NEW s \in Tuples(sets),
         \/ sets = [i \in DOMAIN types |-> ArgValues(types[i])]
         \/ sets = [i \in DOMAIN types |-> OutValues(types[i])]
  PROVE  /\ s \in Seq(UNION {sets[i] : i \in 1 .. Len(types)}) /\ Len(s) = Len(types)
         /\ \A i \in 1 .. Len(types) : s[i] \in sets[i]
         /\ Len(types) \in Nat /\ DOMAIN types = 1 .. Len(types)
  <1>1. Len(sets) = Len(types) /\ Len(types) \in Nat /\ DOMAIN types = 1 .. Len(types)
    <2>1. Len(types) \in Nat /\ DOMAIN types = 1 .. Len(types)
      BY DEF IsList
    <2>2. \A f : DOMAIN f = 1 .. Len(types) /\ f = [i \in DOMAIN f |-> f[i]] => Len(f) = Len(types)
      BY <2>1
    <2>3. DOMAIN sets = 1 .. Len(types) /\ sets = [i \in DOMAIN sets |-> sets[i]]
      BY <2>1
    <2> QED BY <2>1, <2>2, <2>3
  <1> QED BY <1>1, TuplesForm

LEMMA ArgForms ==
  /\ ArgValues("long") = Longs /\ ArgValues("size") = {8}
  /\ ArgValues("number") = Numbers /\ ArgValues("text") = Texts
  /\ ArgValues("flag") = Flags
  BY Zenon DEF ArgValues

LEMMA OutForms ==
  /\ OutValues("long") = Results /\ OutValues("size") = Results
  /\ OutValues("number") = Numbers
  /\ OutValues("entity") = {n \in Numbers : n >= 0}
  /\ OutValues("double") = Doubles
  /\ OutValues("text") = {Null} \cup (Buffers \ {<<>>})
  /\ OutValues("buffer") = Buffers
  BY Zenon DEF OutValues

LEMMA ValueFacts ==
  /\ \A v \in Longs \cup Numbers \cup Results \cup Flags \cup Doubles \cup {8} : v \in Int
  /\ \A v \in Texts \cup Buffers \cup {Null} : Text(v)
  /\ \A v \in Buffers : Content(v) /\ v # Null
  <1>1. \A v : IsText(v) => Content(v)
    BY Zenon DEF IsText, Content, Word, W32
  <1>2. \A v \in Texts \cup Buffers : v = Null \/ IsText(v)
    BY WireAssumption, Zenon
  <1>3. \A v \in Buffers : IsText(v)
    BY WireAssumption, Zenon
  <1>4. \A v : Content(v) => v # Null
    BY NullIsNoText, Zenon DEF Content
  <1>5. \A v \in Longs \cup Numbers \cup Results \cup Flags \cup Doubles \cup {8} : v \in Int
    <2>1. Longs \cup Numbers \cup Results \subseteq Int /\ Flags \subseteq {0, 1}
      BY WireAssumption, Zenon
    <2>2. \A d \in Doubles : d \in Nat
      BY WireAssumption, Zenon
    <2>3. \A d \in Doubles : d \in Int
      BY <2>2
    <2>4. 0 \in Int /\ 1 \in Int /\ 8 \in Int
      OBVIOUS
    <2> QED BY <2>1, <2>3, <2>4, Zenon
  <1> QED BY <1>1, <1>2, <1>3, <1>4, <1>5, Zenon DEF Text

LEMMA CasesKnown ==
  ASSUME NEW f \in Cases
  PROVE  /\ f \in ToSet(Enumerators) /\ CodeWord[f] \in W32
         /\ ReplyCode(f) \in ToSet(Enumerators)
  <1>1. \A g \in Cases : g \in ToSet(Enumerators)
    BY CasesEnumerated, Zenon
  <1>2. ReplyCode(f) \in {f, "TRADE_ACCRUED_INT2", "TRADE_CURRENCY"}
    BY Zenon DEF ReplyCode
  <1>3. "TRADE_ACCRUED_INT2" \in Cases /\ "TRADE_CURRENCY" \in Cases
    BY Zenon DEF Cases, Trades, TradeDoubles, TradeTexts
  <1> QED BY <1>1, <1>2, <1>3, CodesDiffer, Zenon

LEMMA FunctionsKnown ==
  ASSUME NEW f \in Functions
  PROVE  /\ f \in ApiFunctions /\ f \in Cases \cup StraySetters
         /\ CallCode(f) \in ToSet(Enumerators)
         /\ CodeWord[CallCode(f)] \in W32 /\ CodeWord[CallCode(f)] # 0
         /\ Readable(CallFormat(f).reply)
  <1>1. f \in ApiFunctions /\ f \in Cases \cup StraySetters
    BY WireAssumption, Zenon DEF ApiFunctions
  <1>2. CallCode(f) \in ToSet(Enumerators)
    BY <1>1, CallCodes
  <1>3. Readable(<<"u32", "u32", "buffer">>) /\ Readable(<<"i64">>)
    BY DEF Readable, ReadTypes
  <1>4. Readable(CallFormat(f).reply)
    <2>1. CASE f \in Cases
      BY <2>1, ArgsSent
    <2>2. CASE f \in StraySetters
      BY <1>3, <2>2, StrayFormats, Zenon
    <2> QED BY <1>1, <2>1, <2>2, Zenon
  <1> QED BY <1>1, <1>2, <1>4, CodesDiffer, Zenon

\* The arguments of a call, as its signature gives them.
LEMMA CallForm ==
  ASSUME NEW c \in Calls
  PROVE  /\ c.f \in Functions /\ c = [f |-> c.f, args |-> c.args]
         /\ \E S : c.args \in Seq(S)
         /\ IsList(Signature(c.f).args) /\ Len(c.args) = Len(Signature(c.f).args)
         /\ \A i \in 1 .. Len(c.args) : c.args[i] \in ArgValues(Signature(c.f).args[i])
  <1>0. PICK f \in Functions : \E args \in ArgLists(f) : c = [f |-> f, args |-> args]
    BY Zenon DEF Calls
  <1>1. PICK args \in ArgLists(f) : c = [f |-> f, args |-> args]
    BY <1>0
  <1>2. c.f = f /\ c.args = args
    BY <1>1
  <1> DEFINE types == Signature(f).args
             sets == [i \in DOMAIN types |-> ArgValues(types[i])]
  <1>3. args \in Tuples(sets)
    BY Zenon DEF ArgLists
  <1>4. IsList(types)
    <2>1. IsList(<<"number">>)
      BY DEF IsList
    <2>2. f \in Cases => AgreesOnArgs(f) \/ AsksDescriptor(f)
      BY ArgsSent
    <2>3. IsList(<<"flag">>) /\ IsList(<<"flag", "size">>)
      BY DEF IsList
    <2>4. CASE f \in Cases
      BY <2>1, <2>2, <2>4, Zenon DEF AgreesOnArgs, AsksDescriptor, AgreedArgs
    <2>5. CASE f \in StraySetters
      BY <2>3, <2>5, StrayFormats, Zenon
    <2> QED BY <2>4, <2>5, FunctionsKnown, Zenon
  <1> HIDE DEF types
  <1>5. /\ args \in Seq(UNION {sets[i] : i \in 1 .. Len(types)}) /\ Len(args) = Len(types)
        /\ \A i \in 1 .. Len(types) : args[i] \in sets[i]
        /\ DOMAIN types = 1 .. Len(types)
    BY <1>3, <1>4, ListForms
  <1>6. \A i \in 1 .. Len(types) : args[i] \in ArgValues(types[i])
    BY <1>5
  <1>7. \E S : args \in Seq(S)
    BY <1>5
  <1> QED BY <1>1, <1>2, <1>4, <1>5, <1>6, <1>7 DEF types

LEMMA ArgsWritable ==
  ASSUME NEW c \in Calls
  PROVE  /\ Len(CallFormat(c.f).request) = Len(c.args) /\ Len(c.args) \in Nat
         /\ \A i \in 1 .. Len(c.args) : Writable(CallFormat(c.f).request[i], c.args[i])
  <1> DEFINE types == Signature(c.f).args
             writes == CallFormat(c.f).request
             reads == ServeFormat(c.f).reads
  <1>1. /\ Len(c.args) = Len(types) /\ Len(types) \in Nat
        /\ \A i \in 1 .. Len(c.args) : c.args[i] \in ArgValues(types[i])
    BY CallForm, Zenon DEF IsList
  <1> DEFINE Flagged == \/ types = <<"flag">> /\ writes = <<"u32">>
                        \/ types = <<"flag", "size">> /\ writes = <<"u32", "u32">>
  <1>2. AgreesOnArgs(c.f) \/ AsksDescriptor(c.f) \/ Flagged
    <2>1. c.f \in Cases => AgreesOnArgs(c.f) \/ AsksDescriptor(c.f)
      BY ArgsSent
    <2>2. c.f \in StraySetters => Flagged
      BY StrayFormats, Zenon
    <2> QED BY <2>1, <2>2, CallForm, FunctionsKnown, Zenon
  <1>3. Len(writes) = Len(types)
    <2>1. /\ Len(<<"u32">>) = Len(<<"number">>) /\ Len(<<"u32">>) = Len(<<"flag">>)
          /\ Len(<<"u32", "u32">>) = Len(<<"flag", "size">>)
      OBVIOUS
    <2> QED BY <1>2, <2>1, Zenon DEF AgreesOnArgs, AsksDescriptor, AgreedArgs
  <1>4. ASSUME NEW i \in 1 .. Len(c.args) PROVE Writable(writes[i], c.args[i])
    <2>1. \/ types[i] = "text" /\ writes[i] = "qstr"
          \/ types[i] \in {"size", "flag", "number", "long"} /\ writes[i] \in {"u32", "i64"}
      <3>1. CASE AgreesOnArgs(c.f)
        BY <1>1, <3>1, Zenon DEF AgreesOnArgs, AgreedArgs
      <3>2. CASE AsksDescriptor(c.f)
        <4>1. types = <<"number">> /\ writes = <<"u32">>
          BY <3>2, Zenon DEF AsksDescriptor
        <4>2. i = 1
          <5> HIDE DEF types, writes
          <5> QED BY <1>1, <4>1
        <4>3. <<"number">>[1] = "number" /\ <<"u32">>[1] = "u32"
          OBVIOUS
        <4> QED BY <4>1, <4>2, <4>3, Zenon
      <3>3. CASE Flagged
        <4>1. CASE types = <<"flag">> /\ writes = <<"u32">>
          <5> HIDE DEF types, writes
          <5>1. i = 1
            BY <1>1, <4>1
          <5> QED BY <4>1, <5>1
        <4>2. CASE types = <<"flag", "size">> /\ writes = <<"u32", "u32">>
          <5> HIDE DEF types, writes
          <5>1. i = 1 \/ i = 2
            BY <1>1, <4>2
          <5> QED BY <4>2, <5>1
        <4> QED BY <3>3, <4>1, <4>2, Zenon
      <3> QED BY <1>2, <3>1, <3>2, <3>3, Zenon
    <2>2. c.args[i] \in ArgValues(types[i])
      BY <1>1
    <2>3. CASE types[i] = "text" /\ writes[i] = "qstr"
      BY <2>2, <2>3, ArgForms, ValueFacts, Zenon DEF Writable
    <2>4. CASE types[i] \in {"size", "flag", "number", "long"} /\ writes[i] \in {"u32", "i64"}
      BY <2>2, <2>4, ArgForms, ValueFacts, Zenon DEF Writable
    <2> QED BY <2>1, <2>3, <2>4
  <1> QED BY <1>1, <1>3, <1>4

LEMMA RequestForm ==
  ASSUME NEW c \in Calls
  PROVE  Framed(Request(c), CallCode(c.f), Fields(CallFormat(c.f).request, c.args))
  <1> DEFINE code == CallCode(c.f)
  <1>1. code \in ToSet(Enumerators)
    BY CallForm, FunctionsKnown
  <1>2. Head(Message(code, CallFormat(c.f).request, c.args)) < Base
    BY SizesAssumption, Zenon DEF Request
  <1>3. Framed(Message(code, CallFormat(c.f).request, c.args), code,
               Fields(CallFormat(c.f).request, c.args))
    BY <1>1, <1>2, ArgsWritable, MessageForm, Zenon
  <1> QED BY <1>3, Zenon DEF Request

\* The results of a function of the DLL, and its reply.
LEMMA OutsForm ==
  ASSUME NEW f \in Cases, NEW d, d.f = DllFunction(f), NEW outs \in Outs(d)
  PROVE  /\ \E S : outs \in Seq(S)
         /\ Len(outs) = Len(Signature(DllFunction(f)).outs)
         /\ \A i \in 1 .. Len(outs) : outs[i] \in OutValues(Signature(DllFunction(f)).outs[i])
         /\ outs \in Outs([f |-> DllFunction(f)])
  <1> DEFINE types == Signature(DllFunction(f)).outs
             sets == [i \in DOMAIN types |-> OutValues(types[i])]
  <1>1. outs \in Tuples(sets)
    BY Zenon DEF Outs
  <1>2. outs \in Outs([f |-> DllFunction(f)])
    <2>1. [f |-> DllFunction(f)].f = DllFunction(f)
      OBVIOUS
    <2> QED BY <1>1, <2>1, Zenon DEF Outs
  <1>3. IsList(types)
    BY OutsWritten, Zenon DEF WrittenOuts
  <1> HIDE DEF types
  <1>4. /\ outs \in Seq(UNION {sets[i] : i \in 1 .. Len(types)}) /\ Len(outs) = Len(types)
        /\ \A i \in 1 .. Len(types) : outs[i] \in sets[i]
        /\ DOMAIN types = 1 .. Len(types)
    BY <1>1, <1>3, ListForms
  <1>5. \A i \in 1 .. Len(types) : outs[i] \in OutValues(types[i])
    BY <1>4
  <1>6. \E S : outs \in Seq(S)
    BY <1>4
  <1> QED BY <1>2, <1>4, <1>5, <1>6 DEF types

LEMMA ReplyForm ==
  ASSUME NEW f \in Cases, NEW d, d.f = DllFunction(f), NEW outs \in Outs(d)
  PROVE  Framed(Reply(f, outs), ReplyCode(f), Fields(ServeFormat(f).writes, outs))
  <1> DEFINE types == Signature(DllFunction(f)).outs
             writes == ServeFormat(f).writes
  <1>1. /\ Len(outs) = Len(types)
        /\ \A i \in 1 .. Len(outs) : outs[i] \in OutValues(types[i])
        /\ outs \in Outs([f |-> DllFunction(f)])
    BY OutsForm, Zenon
  <1>2. WrittenOuts(types, writes)
    BY OutsWritten
  <1>3. Len(writes) \in Nat /\ Len(writes) = Len(types)
    BY <1>2, Zenon DEF WrittenOuts, IsList
  <1>4. ASSUME NEW i \in 1 .. Len(writes) PROVE Writable(writes[i], outs[i])
    <2>1. i \in 1 .. Len(types) /\ outs[i] \in OutValues(types[i])
      BY <1>1, <1>3
    <2>2. \A v \in Doubles : v \in Nat /\ Base \div 4 + v < Base
      BY WireAssumption
    <2>3. CASE types[i] \in {"long", "size", "number", "double"} /\ writes[i] = "u32"
      BY <2>1, <2>3, OutForms, ValueFacts, Zenon DEF Writable
    <2>4. CASE types[i] = "entity" /\ writes[i] = "u32"
      <3>1. outs[i] \in Numbers
        <4>1. outs[i] \in {n \in Numbers : n >= 0}
          BY <2>1, <2>4, OutForms, Zenon
        <4> QED BY <4>1
      <3> QED BY <2>4, <3>1, ValueFacts, Zenon DEF Writable
    <2>5. CASE types[i] = "number" /\ writes[i] = "i64"
      BY <2>1, <2>5, OutForms, ValueFacts, Zenon DEF Writable
    <2>6. CASE types[i] = "double" /\ writes[i] = "f64"
      BY <2>1, <2>2, <2>6, OutForms, Zenon DEF Writable
    <2>7. CASE types[i] = "buffer" /\ writes[i] = "qstr"
      BY <2>1, <2>7, OutForms, ValueFacts, Zenon DEF Writable
    <2>8. CASE types[i] = "text" /\ writes[i] = "lptstr"
      BY <2>1, <2>8, OutForms, ValueFacts, Zenon DEF Writable
    <2>9. \/ /\ types[i] \in {"long", "size", "entity", "number", "double"}
             /\ writes[i] = "u32"
          \/ types[i] = "number" /\ writes[i] = "i64"
          \/ types[i] = "double" /\ writes[i] = "f64"
          \/ types[i] = "buffer" /\ writes[i] = "qstr"
          \/ types[i] = "text" /\ writes[i] = "lptstr"
      BY <1>2, <2>1, Zenon DEF WrittenOuts
    <2> QED BY <2>3, <2>4, <2>5, <2>6, <2>7, <2>8, <2>9, Zenon
  <1>5. Head(Message(ReplyCode(f), writes, outs)) < Base
    BY <1>1, SizesAssumption, Zenon DEF Reply
  <1>6. ReplyCode(f) \in ToSet(Enumerators)
    BY CasesKnown
  <1>7. Framed(Message(ReplyCode(f), writes, outs), ReplyCode(f), Fields(writes, outs))
    BY <1>3, <1>4, <1>5, <1>6, MessageForm, Zenon
  <1> QED BY <1>7, Zenon DEF Reply

LEMMA ReportForm ==
  ASSUME NEW e \in Events
  PROVE  /\ \E S : e \in Seq(S)
         /\ Len(e) = 3 /\ e[1] \in Results /\ e[2] \in Results /\ e[3] \in {Null} \cup Buffers
         /\ Framed(Report(e), ConnStatus, Fields(StatusWrite, e))
  <1>1. PICK a \in Results, b \in Results, t \in {Null} \cup Buffers : e = <<a, b, t>>
    <2>1. e \in Results \X Results \X ({Null} \cup Buffers)
      BY WireAssumption, Zenon
    <2> DEFINE B == {Null} \cup Buffers
    <2> HIDE DEF B
    <2> QED BY <2>1 DEF B
  <1>2. e[1] = a /\ e[2] = b /\ e[3] = t /\ Len(e) = 3 /\ e \in Seq({a, b, t})
    BY <1>1
  <1>3. ASSUME NEW i \in 1 .. Len(StatusWrite) PROVE Writable(StatusWrite[i], e[i])
    <2>1. \/ i = 1 /\ StatusWrite[i] = "u32"
          \/ i = 2 /\ StatusWrite[i] = "u32"
          \/ i = 3 /\ StatusWrite[i] = "qstr"
      BY DEF StatusWrite
    <2>2. e[1] \in Int /\ e[2] \in Int /\ Text(e[3])
      BY <1>2, ValueFacts, Zenon
    <2>3. /\ e[1] \in Int => Writable("u32", e[1])
          /\ e[2] \in Int => Writable("u32", e[2])
          /\ Text(e[3]) => Writable("qstr", e[3])
      BY Zenon DEF Writable
    <2> QED BY <2>1, <2>2, <2>3, Zenon
  <1>4. Len(StatusWrite) \in Nat
    BY DEF StatusWrite
  <1>5. ConnStatus \in ToSet(Enumerators)
    BY CasesEnumerated, Zenon DEF CallbackCodes
  <1>6. Head(Message(ConnStatus, StatusWrite, e)) < Base
    BY SizesAssumption, Zenon DEF Report
  <1>7. Framed(Message(ConnStatus, StatusWrite, e), ConnStatus, Fields(StatusWrite, e))
    BY <1>3, <1>4, <1>5, <1>6, MessageForm, Zenon
  <1> QED BY <1>2, <1>7, Zenon DEF Report

-----------------------------------------------------------------------------
(***************************************************************************)
(* What processMessages takes of a request.                                *)
(***************************************************************************)
\* A descriptor sent as one word is read as two: there is nothing behind it.
LEMMA DescriptorTaken ==
  ASSUME NEW args, args[1] \in Int
  PROVE  ReadFields(<<"i64">>, Fields(<<"u32">>, args)).left = <<>>
  <1> DEFINE a == args[1] % Base
             words == Fields(<<"u32">>, args)
  <1>1. Len(<<"u32">>) = 1 /\ <<"u32">>[1] = "u32" /\ Len(<<"i64">>) = 1 /\ <<"i64">>[1] = "i64"
    OBVIOUS
  <1>2. words = Field("u32", args[1])
    <2>1. PICK w : IsWords(w, <<"u32">>, args) /\ words = w[1]
      BY <1>1, FieldsDefined
    <2>2. \A i \in 1 .. 2 : w[i] = IF i > 1 THEN <<>> ELSE Field(<<"u32">>[i], args[i]) \o w[i + 1]
      <3>1. 1 .. Len(<<"u32">>) + 1 = 1 .. 2
        BY <1>1
      <3> QED BY <1>1, <2>1, <3>1, Zenon DEF IsWords
    <2>3. w[2] = <<>> /\ w[1] = Field("u32", args[1]) \o w[2]
      <3>1. 1 \in 1 .. 2 /\ 2 \in 1 .. 2 /\ 2 > 1 /\ ~(1 > 1) /\ 1 + 1 = 2
        OBVIOUS
      <3> QED BY <1>1, <2>2, <3>1, Zenon
    <2>4. Field("u32", args[1]) = <<a>>
      BY FieldForms
    <2>5. <<a>> \o <<>> = <<a>>
      OBVIOUS
    <2> QED BY <2>1, <2>3, <2>4, <2>5, Zenon
  <1>3. words = <<a>>
    BY <1>2, FieldForms
  <1> HIDE DEF words
  <1>4. ReadFields(<<"i64">>, words).left = ReadField("i64", words).left
    <2>1. PICK r : IsReading(r, <<"i64">>, words) /\ ReadFields(<<"i64">>, words) = r[1]
      BY <1>1, ReadingDefined
    <2>2. \A i \in 0 .. 1 : r[i] =
            IF i = 0 THEN [values |-> <<>>, left |-> words]
            ELSE LET before == r[i - 1]
                     f == ReadField(<<"i64">>[i], before.left)
                 IN  [values |-> Append(before.values, f.value), left |-> f.left]
      BY <1>1, <2>1, Zenon DEF IsReading
    <2>3. 0 \in 0 .. 1 /\ 1 \in 0 .. 1 /\ 1 # 0 /\ 1 - 1 = 0
      OBVIOUS
    <2>4. r[0] = [values |-> <<>>, left |-> words]
      BY <2>2, <2>3, Zenon
    <2> DEFINE f == ReadField("i64", r[0].left)
    <2>5. r[1] = [values |-> Append(r[0].values, f.value), left |-> f.left]
      BY <1>1, <2>2, <2>3, Zenon
    <2>6. r[1].left = f.left
      <3> HIDE DEF f
      <3> QED BY <2>5
    <2>7. r[0].left = words
      BY <2>4
    <2> QED BY <2>1, <2>6, <2>7, Zenon
  <1>5. ReadField("i64", words) = [value |-> 0, left |-> <<>>]
    <2>1. Len(words) < 2
      BY <1>3
    <2> QED BY <2>1, ReadForms, Zenon
  <1>6. ReadFields(<<"i64">>, words).left = <<>>
    BY <1>4, <1>5
  <1> QED BY <1>6 DEF words

\* Nothing is left of a request a case is there for, whatever is made of it.
LEMMA RequestTaken ==
  ASSUME NEW c \in Calls, c.f \in Cases
  PROVE  ReadFields(ServeFormat(c.f).reads,
                    Fields(CallFormat(c.f).request, c.args)).left = <<>>
  <1> DEFINE types == Signature(c.f).args
             writes == CallFormat(c.f).request
             reads == ServeFormat(c.f).reads
             words == Fields(writes, c.args)
  <1>1. /\ Len(writes) = Len(c.args) /\ Len(c.args) \in Nat
        /\ \A i \in 1 .. Len(c.args) : Writable(writes[i], c.args[i])
    BY ArgsWritable, Zenon
  <1>2. words \in Seq(W32)
    BY <1>1, FieldsTyped, Zenon
  <1>3. CASE AgreesOnArgs(c.f)
    <2>1. Len(reads) = Len(writes)
      BY <1>3, Zenon DEF AgreesOnArgs, AgreedArgs
    <2>2. Len(types) = Len(writes)
      BY <1>3, Zenon DEF AgreesOnArgs, AgreedArgs
    <2>3. \A i \in 1 .. Len(writes) : SameWidth(writes[i], reads[i])
      BY <1>3, <2>2, Zenon DEF AgreesOnArgs, AgreedArgs, SameWidth
    <2>4. <<>> \in Seq(W32)
      OBVIOUS
    <2>5. \A i \in 1 .. Len(writes) : Writable(writes[i], c.args[i]) /\ SameWidth(writes[i], reads[i])
      BY <1>1, <2>3, Zenon
    <2>6. Len(writes) \in Nat
      BY <1>1, Zenon
    <2>7. ReadFields(reads, words \o <<>>).left = <<>>
      BY <2>1, <2>4, <2>5, <2>6, StaysInStep, Zenon
    <2>8. words \o <<>> = words
      <3> HIDE DEF words
      <3> QED BY <1>2
    <2> QED BY <2>7, <2>8, Zenon
  <1>4. CASE AsksDescriptor(c.f)
    <2>1. /\ types = <<"number">> /\ writes = <<"u32">> /\ reads = <<"i64">>
      BY <1>4, Zenon DEF AsksDescriptor
    <2>2. c.args[1] \in Numbers
      <3>1. Len(<<"number">>) = 1 /\ <<"number">>[1] = "number"
        OBVIOUS
      <3>2. 1 \in 1 .. Len(c.args)
        <4> HIDE DEF types
        <4> QED BY <2>1, <3>1, CallForm DEF types
      <3>3. c.args[1] \in ArgValues(types[1])
        BY <3>2, CallForm
      <3> QED BY <2>1, <3>1, <3>3, ArgForms, Zenon
    <2>3. c.args[1] \in Int
      BY <2>2, ValueFacts
    <2> QED BY <2>1, <2>3, DescriptorTaken, Zenon
  <1>5. AgreesOnArgs(c.f) \/ AsksDescriptor(c.f)
    BY ArgsSent
  <1> QED BY <1>3, <1>4, <1>5

LEMMA AgreedCases == AgreedFunctions \subseteq Cases /\ AgreedFunctions \subseteq Control \cup DateTimes
  <1>1. AgreedFunctions \subseteq Control \cup DateTimes
    BY Zenon DEF AgreedFunctions, Control
  <1>2. DateTimes \subseteq Cases /\ Control \subseteq Cases
    BY Zenon DEF DateTimes, Cases, Orders, Trades
  <1> QED BY <1>1, <1>2, Zenon

\* A value that the types of its argument keep comes out as it went in.
LEMMA ArgsTaken ==
  ASSUME AgreedValues, NEW c \in Calls, c.f \in AgreedFunctions
  PROVE  ReadFields(ServeFormat(c.f).reads, Fields(CallFormat(c.f).request, c.args))
            = [values |-> c.args, left |-> <<>>]
  <1> DEFINE types == Signature(c.f).args
             writes == CallFormat(c.f).request
             reads == ServeFormat(c.f).reads
             words == Fields(writes, c.args)
  <1>1. /\ Len(writes) = Len(c.args) /\ Len(c.args) \in Nat
        /\ \A i \in 1 .. Len(c.args) : Writable(writes[i], c.args[i])
        /\ Len(c.args) = Len(types)
        /\ \A i \in 1 .. Len(c.args) : c.args[i] \in ArgValues(types[i])
    BY ArgsWritable, CallForm, Zenon
  <1>2. words \in Seq(W32)
    BY <1>1, FieldsTyped, Zenon
  <1>3. AgreesOnArgs(c.f)
    <2>1. c.f \in Control \cup DateTimes
      BY Zenon DEF AgreedFunctions, Control
    <2> QED BY <2>1, CallForm, AgreedCases, ArgsSent
  <1>4. Len(reads) = Len(c.args)
    BY <1>1, <1>3, Zenon DEF AgreesOnArgs, AgreedArgs
  <1>5. ASSUME NEW i \in 1 .. Len(c.args) PROVE Kept(writes[i], reads[i], c.args[i])
    <2>1. c.args[i] \in ArgValues(types[i]) /\ i \in 1 .. Len(types)
      BY <1>1, Zenon
    <2>2. /\ 8 \in W32 /\ 0 \in W32 /\ 1 \in W32
      BY BaseValue DEF W32
    <2>3. \A v \in Flags : v \in W32
      BY <2>2, WireAssumption
    <2>4. /\ \A v \in Longs : v \in -(Base \div 2) .. (Base \div 2) - 1
          /\ \A v \in Numbers : v \in -(Base * (Base \div 2)) .. Base * (Base \div 2) - 1
          /\ \A v \in Texts : v # <<>>
      BY Zenon DEF AgreedValues
    <2>5. CASE types[i] = "text" /\ writes[i] = "qstr" /\ reads[i] = "lpstr"
      BY <2>1, <2>4, <2>5, ArgForms, ValueFacts, Zenon DEF Kept
    <2>6. CASE types[i] = "size" /\ writes[i] = "u32" /\ reads[i] = "u32"
      BY <2>1, <2>2, <2>6, ArgForms, Zenon DEF Kept
    <2>7. CASE types[i] = "flag" /\ writes[i] = "u32" /\ reads[i] = "u32"
      BY <2>1, <2>3, <2>7, ArgForms, Zenon DEF Kept
    <2>8. CASE types[i] = "number" /\ writes[i] = "i64" /\ reads[i] = "i64"
      BY <2>1, <2>4, <2>8, ArgForms, Zenon DEF Kept
    <2>9. CASE types[i] = "long" /\ writes[i] = "u32" /\ reads[i] = "i32"
      BY <2>1, <2>4, <2>9, ArgForms, Zenon DEF Kept
    <2> QED BY <1>3, <2>1, <2>5, <2>6, <2>7, <2>8, <2>9, Zenon DEF AgreesOnArgs, AgreedArgs
  <1>6. PICK S : c.args \in Seq(S)
    BY CallForm
  <1>7. <<>> \in Seq(W32)
    OBVIOUS
  <1>8. ReadFields(reads, words \o <<>>) = [values |-> c.args, left |-> <<>>]
    <2> HIDE DEF types, writes, reads
    <2>1. AllKept(writes, reads, c.args)
      BY <1>1, <1>4, <1>5, Zenon DEF AllKept
    <2> DEFINE v == c.args
               none == <<>>
    <2>2. v \in Seq(S) /\ AllKept(writes, reads, v) /\ none \in Seq(W32)
      BY <1>6, <1>7, <2>1, Zenon
    <2> HIDE DEF v, none
    <2>3. ReadFields(reads, Fields(writes, v) \o none) = [values |-> v, left |-> none]
      BY <2>2, RoundTrip, SMT
    <2> QED BY <2>3, Zenon DEF v, none, words
  <1>9. words \o <<>> = words
    <2> HIDE DEF words
    <2> QED BY <1>2
  <1> QED BY <1>8, <1>9, Zenon

-----------------------------------------------------------------------------
(***************************************************************************)
(* Types.                                                                  *)
(***************************************************************************)
TypeInv == TypeOK /\ (busy => call.f \in Functions)

LEMMA WordIs == Word = W32
  BY Zenon DEF Word, W32

LEMMA FramedTyped ==
  ASSUME NEW m, NEW code, NEW fields, Framed(m, code, fields)
  PROVE  m \in Seq(Word)
  BY WordIs, Zenon DEF Framed

\* What follows the words the server or a reader has done with.
LEMMA FollowTyped ==
  ASSUME NEW T, NEW words \in Seq(T), NEW n \in 1 .. Len(words)
  PROVE  /\ From(words, 3) \in Seq(T)
         /\ SubSeq(words, 3, n) \in Seq(T) /\ Len(SubSeq(words, 3, n)) <= n
         /\ n >= 2 => Len(SubSeq(words, 3, n)) = n - 2
  <1>1. ASSUME NEW k \in 1 .. Len(words)
        PROVE  SubSeq(words, 3, k) \in Seq(T) /\ Len(SubSeq(words, 3, k)) = IF k >= 2 THEN k - 2 ELSE 0
    <2>1. CASE k = 1
      BY <2>1
    <2>2. CASE k >= 2
      <3>1. 3 \in 1 .. Len(words) + 1 /\ k \in 3 - 1 .. Len(words) /\ k - 3 + 1 = k - 2
        BY <2>2
      <3> QED BY <2>2, <3>1, Slice
    <2> QED BY <2>1, <2>2
  <1>2. From(words, 3) = SubSeq(words, 3, Len(words)) /\ Len(words) \in 1 .. Len(words)
    BY DEF From
  <1>3. From(words, 3) \in Seq(T)
    BY <1>1, <1>2, Zenon
  <1>4. SubSeq(words, 3, n) \in Seq(T) /\ Len(SubSeq(words, 3, n)) = IF n >= 2 THEN n - 2 ELSE 0
    BY <1>1, Zenon
  <1> QED BY <1>3, <1>4

LEMMA SendTyped ==
  ASSUME TypeOK, NEW words \in Seq(Word), Send(words)
  PROVE  /\ down' \in Seq(Word) /\ heads' \in Seq(BOOLEAN) /\ Len(heads') = Len(down')
  <1> DEFINE marks == [i \in DOMAIN words |-> i = 1]
  <1>1. marks \in Seq(BOOLEAN) /\ Len(marks) = Len(words)
    <2>1. DOMAIN words = 1 .. Len(words) /\ Len(words) \in Nat
      OBVIOUS
    <2>2. marks \in [1 .. Len(words) -> BOOLEAN]
      BY <2>1, Zenon
    <2> HIDE DEF marks, Word
    <2> DEFINE B == BOOLEAN
    <2>3. marks \in [1 .. Len(words) -> B]
      BY <2>2
    <2> HIDE DEF B
    <2>4. marks \in Seq(B) /\ Len(marks) = Len(words)
      BY <2>1, <2>3
    <2> QED BY <2>4 DEF B
  <1>2. down' = down \o words /\ heads' = heads \o marks
    BY DEF Send
  <1> HIDE DEF marks
  <1>3. down \in Seq(Word) /\ heads \in Seq(BOOLEAN) /\ Len(heads) = Len(down)
    BY DEF TypeOK
  <1> HIDE DEF Word
  <1>4. /\ down \o words \in Seq(Word) /\ Len(down \o words) = Len(down) + Len(words)
    BY <1>3, Join
  <1>5. heads \o marks \in Seq(BOOLEAN) /\ Len(heads \o marks) = Len(heads) + Len(marks)
    BY <1>1, <1>3, Join
  <1> QED BY <1>1, <1>2, <1>3, <1>4, <1>5

LEMMA LeaveTyped ==
  ASSUME TypeOK, NEW n \in 1 .. Len(down), NEW words \in Seq(Word), Len(words) <= n,
         Leave(words, n)
  PROVE  /\ down' \in Seq(Word) /\ heads' \in Seq(BOOLEAN) /\ Len(heads') = Len(down')
         /\ \A i \in 1 .. Len(down') : /\ down'[i] = down[i + n - Len(words)]
                                       /\ i + n - Len(words) \in 1 .. Len(down)
  <1> DEFINE gone == n - Len(words)
  <1>1. down \in Seq(Word) /\ heads \in Seq(BOOLEAN) /\ Len(heads) = Len(down)
    BY DEF TypeOK
  <1> HIDE DEF Word
  <1>2. gone + 1 \in 1 .. Len(down) + 1 /\ Len(words) \in Nat /\ Len(down) \in Nat
    BY <1>1
  <1>3. down' = From(down, gone + 1) /\ heads' = From(heads, gone + 1)
    BY Zenon DEF Leave
  <1>4. /\ From(down, gone + 1) \in Seq(Word)
        /\ Len(From(down, gone + 1)) = Len(down) + 1 - (gone + 1)
        /\ \A j \in 1 .. Len(down) + 1 - (gone + 1) :
              From(down, gone + 1)[j] = down[gone + 1 + j - 1]
    BY <1>1, <1>2, FromForms
  <1>5. /\ From(heads, gone + 1) \in Seq(BOOLEAN)
        /\ Len(From(heads, gone + 1)) = Len(down) + 1 - (gone + 1)
    <2> DEFINE B == BOOLEAN
    <2>1. heads \in Seq(B) /\ Len(heads) = Len(down)
      BY <1>1
    <2> HIDE DEF B
    <2>2. From(heads, gone + 1) \in Seq(B) /\ Len(From(heads, gone + 1)) = Len(heads) + 1 - (gone + 1)
      BY <1>2, <2>1, FromForms
    <2> QED BY <2>1, <2>2 DEF B
  <1> QED BY <1>2, <1>3, <1>4, <1>5

LEMMA ReadTyped ==
  ASSUME TypeOK, NEW n \in 1 .. Len(down), NEW reads, Readable(reads)
  PROVE  LET left == ReadFields(reads, Payload(n)).left
         IN  /\ left \in Seq(Word) /\ Len(left) <= Len(Payload(n)) /\ Len(left) <= n
             /\ Payload(n) \in Seq(Word) /\ Len(Payload(n)) <= n
             /\ n >= 2 => Len(Payload(n)) = n - 2
  <1>1. /\ Payload(n) \in Seq(Word) /\ Len(Payload(n)) <= n
        /\ n >= 2 => Len(Payload(n)) = n - 2
    <2>1. down \in Seq(Word)
      BY DEF TypeOK
    <2> HIDE DEF Word
    <2> QED BY <2>1, FollowTyped DEF Payload
  <1> DEFINE left == ReadFields(reads, Payload(n)).left
  <1>2. left \in Seq(W32) /\ Len(left) <= Len(Payload(n))
    BY <1>1, WordIs, ListEnd, Zenon DEF Readable
  <1> HIDE DEF left, Word, Payload
  <1>3. left \in Seq(Word)
    BY <1>2, WordIs, Zenon
  <1>4. Len(left) <= n
    BY <1>1, <1>2, <1>3
  <1> QED BY <1>1, <1>2, <1>3, <1>4, Zenon DEF left

LEMMA StatusReadable == Readable(StatusRead)
  BY DEF Readable, ReadTypes, StatusRead

LEMMA TypeInvHolds == Spec => []TypeInv
  <1>1. Init => TypeInv
    <2>1. <<>> \in Seq(Word) /\ <<>> \in Seq(BOOLEAN) /\ Len(<<>>) <= 1
      OBVIOUS
    <2>2. [f |-> "none", args |-> <<>>].f = "none"
      OBVIOUS
    <2> QED BY <2>1, <2>2, Zenon DEF Init, TypeInv, TypeOK
  <1>2. TypeInv /\ [Next]_wireVars => TypeInv'
    <2> SUFFICES ASSUME TypeInv, [Next]_wireVars PROVE TypeInv'
      OBVIOUS
    <2> USE DEF TypeInv
    <2>0. TypeOK
      OBVIOUS
    <2>1. CASE Call
      <3>1. PICK c \in Calls : /\ call' = c
                               /\ up' = up \o Request(c)
                               /\ handler' = IF c.f = SetConnStatus THEN c.args[1] # 0 ELSE handler
        BY <2>1, Zenon DEF Call
      <3>2. c.f \in Functions /\ Request(c) \in Seq(Word)
        BY CallForm, RequestForm, FramedTyped, Zenon
      <3>3. up' \in Seq(Word)
        <4>1. up \in Seq(Word)
          BY DEF TypeOK
        <4> HIDE DEF Word
        <4> QED BY <3>1, <3>2, <4>1, Join
      <3>4. handler' \in BOOLEAN
        BY <3>1 DEF TypeOK
      <3>5. busy' = TRUE /\ executed' = <<>> /\ UNCHANGED <<registered, fault, down, heads>>
        BY <2>1 DEF Call, downVars
      <3>6. Len(executed') <= 1
        BY <3>5
      <3> QED BY <3>1, <3>2, <3>3, <3>4, <3>5, <3>6, Zenon DEF TypeOK
    <2>2. CASE Serve
      <3> DEFINE reads(f) == ServeFormat(f).reads
                 taken(f) == ReadFields(reads(f), From(up, 3))
      <3>1. PICK f \in Cases :
              \E outs \in Outs([f |-> DllFunction(f), args |-> taken(f).values]) :
                  /\ executed' = <<[f |-> DllFunction(f), args |-> taken(f).values], outs>>
                  /\ Send(Reply(f, outs))
                  /\ up' = taken(f).left
                  /\ registered' = IF f = SetConnStatus
                                   THEN taken(f).values[1] # 0 ELSE registered
        BY <2>2, Zenon DEF Serve
      <3> DEFINE asked == [f |-> DllFunction(f), args |-> taken(f).values]
      <3>2. PICK outs \in Outs(asked) :
                  /\ executed' = <<asked, outs>>
                  /\ Send(Reply(f, outs))
                  /\ up' = taken(f).left
                  /\ registered' = IF f = SetConnStatus
                                   THEN taken(f).values[1] # 0 ELSE registered
        BY <3>1, Zenon
      <3>3. asked.f = DllFunction(f)
        OBVIOUS
      <3>4. executed'[1].f \in Cases
        <4>1. executed'[1] = asked
          <5> HIDE DEF asked
          <5> QED BY <3>2
        <4>2. DllFunction(f) \in Cases
          BY OutsWritten
        <4> QED BY <3>3, <4>1, <4>2, Zenon
      <3> HIDE DEF asked
      <3>5. Reply(f, outs) \in Seq(Word)
        BY <3>3, ReplyForm, FramedTyped, Zenon
      <3>6. /\ down' \in Seq(Word) /\ heads' \in Seq(BOOLEAN) /\ Len(heads') = Len(down')
        BY <2>0, <3>2, <3>5, SendTyped, Zenon
      <3>7. up' \in Seq(Word)
        <4>1. up \in Seq(Word) /\ up # <<>>
          BY <2>2, Zenon DEF Serve, Waited, TypeOK
        <4>2. Len(up) \in 1 .. Len(up)
          <5> HIDE DEF Word
          <5> QED BY <4>1
        <4>3. From(up, 3) \in Seq(W32)
          BY <4>1, <4>2, FollowTyped, WordIs, Zenon
        <4>4. Readable(reads(f))
          BY ArgsSent
        <4>5. taken(f).left \in Seq(W32)
          BY <4>3, <4>4, ListEnd, Zenon DEF Readable
        <4> QED BY <3>2, <4>5, WordIs, Zenon
      <3>8. registered' \in BOOLEAN
        <4> HIDE DEF taken
        <4> QED BY <3>2 DEF TypeOK
      <3>9. UNCHANGED <<call, busy, handler, fault>>
        BY <2>2, Zenon DEF Serve
      <3> QED BY <3>4, <3>6, <3>7, <3>8, <3>9, Zenon DEF TypeOK
    <2>3. CASE Push
      <3>1. PICK e \in Events : Send(Report(e))
        BY <2>3, Zenon DEF Push
      <3>2. Report(e) \in Seq(Word)
        BY ReportForm, FramedTyped, Zenon
      <3>3. /\ down' \in Seq(Word) /\ heads' \in Seq(BOOLEAN) /\ Len(heads') = Len(down')
        BY <2>0, <3>1, <3>2, SendTyped, Zenon
      <3>4. UNCHANGED <<call, busy, executed, up, handler, registered, fault>>
        BY <2>3, Zenon DEF Push
      <3> QED BY <3>3, <3>4, Zenon DEF TypeOK
    <2>4. CASE ReadEvent
      <3>1. PICK n \in 1 .. Len(down) :
                Leave(ReadFields(StatusRead, Payload(n)).left, n)
        BY <2>4, Zenon DEF ReadEvent
      <3>2. /\ down' \in Seq(Word) /\ heads' \in Seq(BOOLEAN) /\ Len(heads') = Len(down')
        BY <2>0, <3>1, StatusReadable, ReadTyped, LeaveTyped, Zenon
      <3>3. UNCHANGED <<call, busy, executed, up, handler, registered, fault>>
        BY <2>4, Zenon DEF ReadEvent
      <3> QED BY <3>2, <3>3, Zenon DEF TypeOK
    <2>5. CASE SkipEvent
      <3>1. PICK n \in 1 .. Len(down) : Leave(Payload(n), n)
        BY <2>5, Zenon DEF SkipEvent
      <3>2. /\ down' \in Seq(Word) /\ heads' \in Seq(BOOLEAN) /\ Len(heads') = Len(down')
        BY <2>0, <3>1, StatusReadable, ReadTyped, LeaveTyped, Zenon
      <3>3. UNCHANGED <<call, busy, executed, up, handler, registered, fault>>
        BY <2>5, Zenon DEF SkipEvent, rpcVars
      <3> QED BY <3>2, <3>3, Zenon DEF TypeOK
    <2>6. CASE ReadReply
      <3>1. PICK n \in 1 .. Len(down) :
                Leave(ReadFields(CallFormat(call.f).reply, Payload(n)).left, n)
        BY <2>6, Zenon DEF ReadReply
      <3>2. Readable(CallFormat(call.f).reply)
        BY <2>6, FunctionsKnown, Zenon DEF ReadReply
      <3>3. /\ down' \in Seq(Word) /\ heads' \in Seq(BOOLEAN) /\ Len(heads') = Len(down')
        BY <2>0, <3>1, <3>2, ReadTyped, LeaveTyped, Zenon
      <3>4. busy' = FALSE /\ UNCHANGED <<call, executed, up, handler, registered, fault>>
        BY <2>6, Zenon DEF ReadReply
      <3> QED BY <3>3, <3>4, Zenon DEF TypeOK
    <2>7. CASE ReadOther
      <3>1. /\ fault' = TRUE
            /\ UNCHANGED <<call, busy, executed, up, down, heads, handler, registered>>
        BY <2>7, Zenon DEF ReadOther, rpcVars, downVars
      <3> QED BY <3>1, Zenon DEF TypeOK
    <2>8. CASE ServeNothing
      <3>1. up \in Seq(Word) /\ up # <<>>
        BY <2>8, Zenon DEF ServeNothing, Waited, TypeOK
      <3>2. Len(up) \in 1 .. Len(up)
        <4> HIDE DEF Word
        <4> QED BY <3>1
      <3>3. up' \in Seq(Word)
        BY <2>8, <3>1, <3>2, FollowTyped, Zenon DEF ServeNothing
      <3>4. UNCHANGED <<call, busy, executed, down, heads, handler, registered, fault>>
        BY <2>8, Zenon DEF ServeNothing, rpcVars, downVars
      <3> QED BY <3>3, <3>4, Zenon DEF TypeOK
    <2>9. CASE UNCHANGED wireVars
      BY <2>9, Zenon DEF wireVars, TypeOK
    <2> QED BY <2>1, <2>2, <2>3, <2>4, <2>5, <2>6, <2>7, <2>8, <2>9, Zenon DEF Next
  <1> QED BY <1>1, <1>2, PTL DEF Spec

\* Both streams hold words, and a mark for every word sent to the client, for
\* all functions and values: whatever a reader makes of a message, it takes no
\* words but those that have arrived.
THEOREM TypeCorrect == Spec => []TypeOK
  <1>1. TypeInv => TypeOK
    BY DEF TypeInv
  <1> QED BY <1>1, TypeInvHolds, PTL

-----------------------------------------------------------------------------
(***************************************************************************)
(* The server stays in step.                                               *)
(***************************************************************************)
\* The server takes nothing for the code of a case, now or later.
Jammed(words) == words # <<>> => Head(words) > 4 * (Len(words) - 1)
Astray(words) ==
    \/ Jammed(words) \/ Len(words) = 1
    \/ /\ Len(words) >= 2 /\ \A f \in Cases : words[2] # CodeWord[f]
       /\ Jammed(From(words, 3))

\* START_TRADES has been executed, and its flag is left.
FlagLeft ==
    /\ executed # <<>> /\ call \in Calls
    /\ call.f = "START_TRADES" /\ up = call.args

\* What waits for the server is the request of the call it has not executed,
\* or words of which it will execute nothing.
Standing ==
    /\ busy => call \in Calls
    /\ executed # <<>> => executed[1].f = DllFunction(CallCode(call.f))
    /\ \/ up = IF busy /\ executed = <<>> THEN Request(call) ELSE <<>>
       \/ busy /\ executed = <<>> /\ Astray(up)
       \/ FlagLeft

\* A code waited for is on its way to the client only as that of the reply to a
\* call that has been executed and has not returned.
IsCode(w) == \E f \in Functions : w = CodeWord[CallCode(f)]

OneReply ==
    /\ \A i \in 1 .. Len(down) : IsCode(down[i]) => busy /\ executed # <<>>
    /\ \A i, j \in 1 .. Len(down) : IsCode(down[i]) /\ IsCode(down[j]) => i = j

LEMMA RequestParts ==
  ASSUME NEW c \in Calls
  PROVE  /\ Request(c) \in Seq(Word) /\ Len(Request(c)) >= 2 /\ Request(c) # <<>>
         /\ Head(Request(c)) = 4 * (Len(Request(c)) - 1)
         /\ <<>> \o Request(c) = Request(c)
         /\ Request(c)[2] = CodeWord[CallCode(c.f)]
         /\ From(Request(c), 3) = Fields(CallFormat(c.f).request, c.args)
         /\ \A f \in Cases : CodeWord[f] = Request(c)[2] => f = CallCode(c.f)
  <1> DEFINE F == Fields(CallFormat(c.f).request, c.args)
             code == CodeWord[CallCode(c.f)]
             size == 4 * (Len(F) + 1)
             m == Request(c)
  <1>1. m = <<size, code>> \o F /\ m \in Seq(W32) /\ F \in Seq(W32)
    BY RequestForm, Zenon DEF Framed
  <1>2. CallCode(c.f) \in ToSet(Enumerators) /\ code \in W32
    BY CallForm, FunctionsKnown
  <1>3. \A f \in Cases : CodeWord[f] = code => f = CallCode(c.f)
    BY <1>2, CasesKnown, CodesDiffer, Zenon
  <1> HIDE DEF F, code, m
  <1>4. Len(F) \in Nat
    BY <1>1
  <1>5. /\ m # <<>> /\ m[2] = code /\ <<>> \o m = m
        /\ Len(m) = Len(F) + 2 /\ Head(m) = size
    BY <1>1, <1>4
  <1>6. From(m, 3) = F
    BY <1>1, <1>4 DEF From
  <1>7. Len(m) >= 2 /\ Head(m) = 4 * (Len(m) - 1)
    BY <1>4, <1>5
  <1> QED BY <1>1, <1>3, <1>5, <1>6, <1>7, WordIs, Zenon DEF F, code, m

LEMMA EmptyLen ==
  ASSUME NEW T, NEW s \in Seq(T)
  PROVE  s = <<>> <=> Len(s) = 0
  OBVIOUS

\* What follows the first element of a sequence.
LEMMA Rest ==
  ASSUME NEW T, NEW w \in Seq(T), w # <<>>
  PROVE  /\ Len(w) \in Nat
         /\ Len(w) = 1 => Tail(w) = <<>> /\ ~(Len(w) >= 2)
         /\ Len(w) # 1 => Tail(w) # <<>> /\ Head(Tail(w)) = w[2] /\ Len(w) >= 2
  <1>1. Len(w) \in Nat /\ Len(w) >= 1
    OBVIOUS
  <1>2. Tail(w) \in Seq(T) /\ Len(Tail(w)) = Len(w) - 1
    OBVIOUS
  <1>3. ASSUME Len(w) = 1 PROVE Tail(w) = <<>> /\ ~(Len(w) >= 2)
    <2>1. Len(Tail(w)) = 0
      BY <1>2, <1>3
    <2>2. Tail(w) = <<>>
      BY <1>2, <2>1, EmptyLen, Zenon
    <2> QED BY <1>3, <2>2
  <1>4. ASSUME Len(w) # 1 PROVE Tail(w) # <<>> /\ Head(Tail(w)) = w[2] /\ Len(w) >= 2
    <2>1. Len(w) >= 2 /\ Len(Tail(w)) >= 1
      BY <1>1, <1>2, <1>4
    <2>2. Tail(w) # <<>>
      <3>1. Len(Tail(w)) # 0
        BY <1>1, <1>2, <2>1
      <3> QED BY <1>2, <3>1, EmptyLen, Zenon
    <2>3. Tail(w)[1] = w[2]
      BY <1>2, <2>1
    <2> QED BY <1>2, <2>1, <2>2, <2>3
  <1> QED BY <1>1, <1>3, <1>4

\* The code the server takes: none of a single word.
LEMMA ServedCode ==
  ASSUME up \in Seq(Word), up # <<>>, NEW f \in Cases
  PROVE  Served(f) <=> Len(up) >= 2 /\ CodeWord[f] = up[2]
  <1> DEFINE rest == Tail(up)
  <1>1. Len(up) = 1 => rest = <<>>
    BY Rest, Zenon
  <1>2. Len(up) # 1 => rest # <<>> /\ Head(rest) = up[2] /\ Len(up) >= 2
    BY Rest, Zenon
  <1>3. ~(Len(up) = 1 /\ Len(up) >= 2)
    BY Rest, Zenon
  <1> HIDE DEF rest
  <1>4. ReadField("u32", rest).value = IF rest = <<>> THEN 0 ELSE Head(rest)
    <2>1. rest = <<>> => ReadField("u32", rest) = [value |-> 0, left |-> <<>>]
      BY ReadForms, Zenon
    <2>2. rest # <<>> => ReadField("u32", rest) = [value |-> Head(rest), left |-> Tail(rest)]
      BY ReadForms, Zenon
    <2> QED BY <2>1, <2>2
  <1>5. CodeWord[f] # 0
    BY CasesKnown, CodesDiffer, Zenon
  <1> QED BY <1>1, <1>2, <1>3, <1>4, <1>5, Zenon DEF Served, rest

LEMMA CodesLarge ==
  ASSUME NEW c \in ToSet(Enumerators)
  PROVE  CodeWord[c] \in Nat /\ CodeWord[c] > FirstCode /\ FirstCode \in Nat
  <1>1. PICK i \in 1 .. 90 : CodeWord[c] = FirstCode + i
    BY CodePlace
  <1>2. FirstCode \in Nat
    BY FormatsAssumption
  <1> QED BY <1>1, <1>2

LEMMA AstrayServed ==
  ASSUME Astray(up), up \in Seq(Word), Waited
  PROVE  /\ \A f \in Cases : ~Served(f)
         /\ Astray(From(up, 3))
  <1>1. up # <<>> /\ Head(up) <= 4 * (Len(up) - 1) /\ Len(up) \in Nat
    BY DEF Waited
  <1>2. \A i \in Word : i \in Int
    BY BaseValue DEF Word
  <1> HIDE DEF Word
  <1>3. ~Jammed(up)
    <2>1. Head(up) \in Word
      BY <1>1
    <2> QED BY <1>1, <1>2, <2>1 DEF Jammed
  <1>4. CASE Len(up) = 1
    <2>1. From(up, 3) = <<>>
      BY <1>4 DEF From
    <2>2. \A f \in Cases : ~Served(f)
      <3>1. ~(Len(up) >= 2)
        BY <1>4
      <3> QED BY <1>1, <3>1, ServedCode, Zenon
    <2> QED BY <2>1, <2>2, Zenon DEF Astray, Jammed
  <1>5. CASE (\A f \in Cases : up[2] # CodeWord[f]) /\ Jammed(From(up, 3))
    BY <1>1, <1>5, ServedCode, Zenon DEF Astray
  <1> QED BY <1>3, <1>4, <1>5, Zenon DEF Astray

LEMMA Pair ==
  ASSUME NEW T, NEW s \in Seq(T), Len(s) = 2
  PROVE  s = <<s[1], s[2]>>
  OBVIOUS

\* One field in front of none, and of one.
LEMMA Fronts ==
  ASSUME NEW a, NEW b
  PROVE  <<a>> \o <<>> = <<a>> /\ <<a>> \o <<b>> = <<a, b>>
  <1>1. <<a>> \o <<>> = <<a>>
    OBVIOUS
  <1>2. <<a>> \o <<b>> = <<a, b>>
    <2>1. <<a>> \o <<b>> \in Seq({a, b}) /\ <<a, b>> \in Seq({a, b})
      OBVIOUS
    <2>2. Len(<<a>> \o <<b>>) = 2 /\ Len(<<a, b>>) = 2
      OBVIOUS
    <2>3. (<<a>> \o <<b>>)[1] = a /\ (<<a>> \o <<b>>)[2] = b
      OBVIOUS
    <2> QED BY <2>1, <2>2, <2>3, Pair, Zenon
  <1> QED BY <1>1, <1>2

\* The flag of a setter is sent as it is.
LEMMA FlagFields ==
  ASSUME NEW args, args[1] \in {0, 1}
  PROVE  /\ Fields(<<"u32">>, args) = <<args[1]>>
         /\ args[2] = 8 => Fields(<<"u32", "u32">>, args) = <<args[1], 8>>
  <1>1. /\ args[1] % Base = args[1] /\ 8 % Base = 8
    BY BaseValue
  <1>2. Fields(<<"u32">>, args) = <<args[1]>>
    <2>1. Len(<<"u32">>) = 1 /\ <<"u32">>[1] = "u32" /\ 1 .. Len(<<"u32">>) + 1 = 1 .. 2
      OBVIOUS
    <2>2. PICK w : IsWords(w, <<"u32">>, args) /\ Fields(<<"u32">>, args) = w[1]
      BY <2>1, FieldsDefined
    <2>3. \A i \in 1 .. 2 : w[i] = IF i > 1 THEN <<>> ELSE Field(<<"u32">>[i], args[i]) \o w[i + 1]
      BY <2>1, <2>2, Zenon DEF IsWords
    <2>4. 1 \in 1 .. 2 /\ 2 \in 1 .. 2 /\ 2 > 1 /\ ~(1 > 1) /\ 1 + 1 = 2
      OBVIOUS
    <2>5. w[2] = <<>> /\ w[1] = Field("u32", args[1]) \o w[2]
      BY <2>1, <2>3, <2>4, Zenon
    <2>6. Field("u32", args[1]) = <<args[1]>>
      BY <1>1, FieldForms, Zenon
    <2>7. <<args[1]>> \o <<>> = <<args[1]>>
      OBVIOUS
    <2> QED BY <2>2, <2>5, <2>6, <2>7, Zenon
  <1>3. ASSUME args[2] = 8 PROVE Fields(<<"u32", "u32">>, args) = <<args[1], 8>>
    <2> DEFINE types == <<"u32", "u32">>
    <2>1. Len(types) = 2 /\ types[1] = "u32" /\ types[2] = "u32" /\ 1 .. Len(types) + 1 = 1 .. 3
      OBVIOUS
    <2> HIDE DEF types
    <2>2. PICK w : IsWords(w, types, args) /\ Fields(types, args) = w[1]
      BY <2>1, FieldsDefined
    <2>3. \A i \in 1 .. 3 : w[i] = IF i > 2 THEN <<>> ELSE Field(types[i], args[i]) \o w[i + 1]
      BY <2>1, <2>2, Zenon DEF IsWords
    <2>4. /\ 1 \in 1 .. 3 /\ 2 \in 1 .. 3 /\ 3 \in 1 .. 3
          /\ 3 > 2 /\ ~(1 > 2) /\ ~(2 > 2) /\ 1 + 1 = 2 /\ 2 + 1 = 3
      OBVIOUS
    <2>5. /\ w[3] = <<>> /\ w[2] = Field("u32", args[2]) \o w[3]
          /\ w[1] = Field("u32", args[1]) \o w[2]
      BY <2>1, <2>3, <2>4, Zenon
    <2>6. Field("u32", args[1]) = <<args[1]>> /\ Field("u32", args[2]) = << 8 >>
      BY <1>1, <1>3, FieldForms, Zenon
    <2>7. << 8 >> \o <<>> = << 8 >> /\ <<args[1]>> \o << 8 >> = <<args[1], 8>>
      BY Fronts, Zenon
    <2> QED BY <2>2, <2>5, <2>6, <2>7, Zenon DEF types
  <1> QED BY <1>2, <1>3

\* What is left of the request of a setter, the code passed over, is astray.
LEMMA StrayRequest ==
  ASSUME CodesApart, NEW c \in Calls, c.f \in StraySetters
  PROVE  /\ Astray(From(Request(c), 3))
         /\ c.f = "START_TRADES" =>
                c.args \in {<< 0 >>, << 1 >>} /\ From(Request(c), 3) = c.args
  <1>1. From(Request(c), 3) = Fields(CallFormat(c.f).request, c.args)
    BY RequestParts
  <1>2. /\ Len(c.args) = Len(Signature(c.f).args)
        /\ \A i \in 1 .. Len(c.args) : c.args[i] \in ArgValues(Signature(c.f).args[i])
        /\ \E S : c.args \in Seq(S)
    BY CallForm
  <1> DEFINE args == c.args
  <1>3. ASSUME NEW t, Signature(c.f).args = <<"flag">> \/ Signature(c.f).args = <<"flag", "size">>
        PROVE  args[1] \in {0, 1}
    <2>1. Len(Signature(c.f).args) \in {1, 2} /\ Signature(c.f).args[1] = "flag"
      BY <1>3
    <2>2. 1 \in 1 .. Len(args)
      BY <1>2, <2>1
    <2>3. args[1] \in Flags
      BY <1>2, <2>1, <2>2, ArgForms, Zenon
    <2> QED BY <2>3, WireAssumption
  <1>4. CASE c.f = "SET_TRANSACTIONS_REPLY_CALLBACK"
    <2>1. /\ Signature(c.f).args = <<"flag", "size">>
          /\ CallFormat(c.f).request = <<"u32", "u32">>
      BY <1>4, StrayFormats, Zenon
    <2>2. args[1] \in {0, 1}
      BY <1>3, <2>1
    <2>3. args[2] = 8
      <3>1. 2 \in 1 .. Len(args) /\ Signature(c.f).args[2] = "size"
        BY <1>2, <2>1
      <3>2. args[2] \in {8}
        BY <1>2, <3>1, ArgForms, Zenon
      <3> QED BY <3>2
    <2>4. From(Request(c), 3) = <<args[1], 8>>
      <3> HIDE DEF args
      <3>1. Fields(<<"u32", "u32">>, args) = <<args[1], 8>>
        BY <2>2, <2>3, FlagFields
      <3> QED BY <1>1, <2>1, <3>1 DEF args
    <2> DEFINE w == <<args[1], 8>>
    <2>5. Len(w) = 2 /\ w[2] = 8 /\ From(w, 3) = <<>>
      BY DEF From
    <2> HIDE DEF w
    <2>6. \A f \in Cases : w[2] # CodeWord[f]
      <3> TAKE f \in Cases
      <3>1. CodeWord[f] \in Nat /\ CodeWord[f] > FirstCode /\ FirstCode \in Nat
        BY CasesKnown, CodesLarge, Zenon
      <3>2. 8 < FirstCode
        BY DEF CodesApart
      <3> QED BY <2>5, <3>1, <3>2
    <2>7. Astray(w)
      <3>1. Jammed(From(w, 3)) /\ Len(w) >= 2
        BY <2>5 DEF Jammed
      <3> QED BY <2>6, <3>1, Zenon DEF Astray
    <2> QED BY <1>4, <2>4, <2>7, Zenon DEF w
  <1>5. CASE c.f # "SET_TRANSACTIONS_REPLY_CALLBACK"
    <2>1. Signature(c.f).args = <<"flag">> /\ CallFormat(c.f).request = <<"u32">>
      BY <1>5, StrayFormats, Zenon
    <2>2. args[1] \in {0, 1}
      BY <1>3, <2>1
    <2>3. From(Request(c), 3) = <<args[1]>>
      <3> HIDE DEF args
      <3>1. Fields(<<"u32">>, args) = <<args[1]>>
        BY <2>2, FlagFields
      <3> QED BY <1>1, <2>1, <3>1 DEF args
    <2>4. args = <<args[1]>> /\ Len(<<args[1]>>) = 1
      <3>1. Len(args) = 1
        BY <1>2, <2>1
      <3> HIDE DEF args
      <3> QED BY <1>2, <3>1 DEF args
    <2>5. args = << 0 >> \/ args = << 1 >>
      BY <2>2, <2>4, Zenon
    <2> QED BY <2>3, <2>4, <2>5, Zenon DEF Astray
  <1> QED BY <1>4, <1>5

LEMMA Shifted ==
  ASSUME NEW T, NEW u \in Seq(T), NEW r \in Seq(T)
  PROVE  Len(u) = 1 /\ Len(r) >= 2 =>
           /\ u \o r \in Seq(T) /\ Len(u \o r) = Len(r) + 1
           /\ (u \o r)[2] = r[1] /\ (u \o r)[3] = r[2]
  <1> DEFINE w == u \o r
  <1>1. w \in Seq(T) /\ Len(w) = Len(u) + Len(r)
    BY Join
  <1>2. \A i \in 1 .. Len(r) : w[Len(u) + i] = r[i]
    BY Join
  <1>3. Len(r) \in Nat
    OBVIOUS
  <1> HIDE DEF w
  <1>4. ASSUME Len(u) = 1, Len(r) >= 2
        PROVE  Len(w) = Len(r) + 1 /\ w[2] = r[1] /\ w[3] = r[2]
    <2>1. 1 \in 1 .. Len(r) /\ 2 \in 1 .. Len(r)
      BY <1>3, <1>4
    <2>2. w[1 + 1] = r[1] /\ w[1 + 2] = r[2]
      BY <1>2, <1>4, <2>1
    <2> QED BY <1>1, <1>3, <1>4, <2>2
  <1> QED BY <1>1, <1>4 DEF w

\* Nor is a request executed that comes behind such a flag.
LEMMA BehindFlag ==
  ASSUME CodesApart, NEW c \in Calls, NEW u \in {<< 0 >>, << 1 >>}
  PROVE  Astray(u \o Request(c))
  <1> DEFINE r == Request(c)
             w == u \o r
             x == From(w, 3)
  <1>1. /\ r \in Seq(Word) /\ Len(r) >= 2 /\ Head(r) = 4 * (Len(r) - 1)
        /\ r[2] = CodeWord[CallCode(c.f)] /\ Head(r) < FirstCode
    BY RequestParts, Zenon DEF CodesApart
  <1>2. CodeWord[CallCode(c.f)] \in Nat /\ CodeWord[CallCode(c.f)] > FirstCode /\ FirstCode \in Nat
    BY CallForm, FunctionsKnown, CodesLarge, Zenon
  <1> HIDE DEF r, Word
  <1> DEFINE T == Word \cup {0, 1}
  <1>3. u \in Seq(T) /\ Len(u) = 1 /\ r \in Seq(T)
    <2>1. CASE u = << 0 >>
      BY <1>1, <2>1
    <2>2. CASE u = << 1 >>
      BY <1>1, <2>2
    <2> QED BY <2>1, <2>2
  <1> HIDE DEF T
  <1>4. /\ Len(w) = Len(r) + 1 /\ w[2] = r[1] /\ w[3] = r[2] /\ r[1] = Head(r)
        /\ w \in Seq(T)
    <2> HIDE DEF r
    <2>1. r[1] = Head(r)
      BY <1>1, <1>3
    <2>2. Len(w) = Len(r) + 1 /\ w[2] = r[1] /\ w[3] = r[2] /\ w \in Seq(T)
      BY <1>1, <1>3, Shifted, Zenon
    <2> QED BY <2>1, <2>2
  <1> HIDE DEF w
  <1>5. Len(x) = Len(r) - 1 /\ x # <<>> /\ Head(x) = w[3]
    <2>1. w \in Seq(T) /\ 3 \in 1 .. Len(w) + 1 /\ Len(r) \in Nat /\ 1 \in 1 .. Len(w) + 1 - 3
      BY <1>1, <1>4
    <2>2. /\ x \in Seq(T) /\ Len(x) = Len(w) + 1 - 3
          /\ \A j \in 1 .. Len(w) + 1 - 3 : x[j] = w[3 + j - 1]
      BY <2>1, FromForms
    <2> HIDE DEF x
    <2> QED BY <1>1, <1>4, <2>1, <2>2
  <1>6. \A f \in Cases : w[2] # CodeWord[f]
    <2> TAKE f \in Cases
    <2>1. CodeWord[f] \in Nat /\ CodeWord[f] > FirstCode
      BY CasesKnown, CodesLarge, Zenon
    <2> QED BY <1>1, <1>2, <1>4, <2>1
  <1>7. Jammed(x)
    <2> HIDE DEF x
    <2> QED BY <1>1, <1>2, <1>4, <1>5 DEF Jammed
  <1>8. Len(w) >= 2
    BY <1>1, <1>4
  <1> QED BY <1>6, <1>7, <1>8, Zenon DEF Astray, x, w, r

LEMMA CodeTaken ==
  ASSUME TypeOK, NEW n \in 1 .. Len(down)
  PROVE  Code(n) = IF n = 1 THEN 0 ELSE down[2]
  <1>1. down \in Seq(Word)
    BY DEF TypeOK
  <1> HIDE DEF Word
  <1> DEFINE words == SubSeq(down, 2, n)
  <1>2. n = 1 => words = <<>>
    BY <1>1
  <1>3. n # 1 => words # <<>> /\ Head(words) = down[2]
    BY <1>1
  <1>4. /\ words = <<>> => ReadField("u32", words) = [value |-> 0, left |-> <<>>]
        /\ words # <<>> =>
              ReadField("u32", words) = [value |-> Head(words), left |-> Tail(words)]
    BY ReadForms, Zenon
  <1> HIDE DEF words
  <1>5. ReadField("u32", words).value = IF n = 1 THEN 0 ELSE down[2]
    BY <1>2, <1>3, <1>4
  <1> QED BY <1>5 DEF Code, words

\* A code of a case is no code of a callback, and none that is waited for is
\* that of a report.
LEMMA CallbacksApart ==
  ASSUME NEW f \in Functions
  PROVE  /\ CodeWord[ConnStatus] # CodeWord[CallCode(f)]
         /\ f \in Cases => \A k \in CallbackCodes : CodeWord[k] # CodeWord[CallCode(f)]
  <1>1. /\ CallCode(f) \in ToSet(Enumerators) /\ ConnStatus \in ToSet(Enumerators)
        /\ CallCode(f) # ConnStatus /\ Cases \cap CallbackCodes = {}
        /\ f \in Cases => CallCode(f) = f
    BY FunctionsKnown, CallCodes, Zenon
  <1>2. CallbackCodes \subseteq ToSet(Enumerators)
    BY CasesEnumerated, Zenon
  <1> QED BY <1>1, <1>2, CodesDiffer, Zenon

\* Sending leaves the words under way where they are.
LEMMA SendCodes ==
  ASSUME TypeOK, NEW words \in Seq(Word), Send(words), NEW k \in 1 .. Len(words) + 1,
         \A i \in 1 .. Len(words) : i # k => ~IsCode(words[i])
  PROVE  \A i \in 1 .. Len(down') :
            IsCode(down'[i]) =>
                \/ i \in 1 .. Len(down) /\ IsCode(down[i])
                \/ i = Len(down) + k /\ k \in 1 .. Len(words)
  <1>1. down' = down \o words /\ down \in Seq(Word)
    BY DEF Send, TypeOK
  <1> HIDE DEF Word, IsCode
  <1>2. /\ Len(down') = Len(down) + Len(words) /\ Len(down) \in Nat /\ Len(words) \in Nat
        /\ \A i \in 1 .. Len(down) : down'[i] = down[i]
        /\ \A i \in 1 .. Len(words) : down'[Len(down) + i] = words[i]
    BY <1>1, Join
  <1> TAKE i \in 1 .. Len(down')
  <1> HAVE IsCode(down'[i])
  <1>3. CASE i \in 1 .. Len(down)
    BY <1>2, <1>3
  <1>4. CASE i > Len(down)
    <2>1. PICK j \in 1 .. Len(words) : i = Len(down) + j
      <3>1. i - Len(down) \in 1 .. Len(words) /\ i = Len(down) + (i - Len(down))
        BY <1>2, <1>4
      <3> QED BY <3>1
    <2>2. IsCode(words[j])
      BY <1>2, <2>1
    <2> QED BY <2>1, <2>2
  <1> QED BY <1>2, <1>3, <1>4

\* A reader's words are those that were there.
LEMMA LeaveCodes ==
  ASSUME TypeOK, OneReply, NEW n \in 1 .. Len(down), NEW words \in Seq(Word),
         Len(words) <= n, Leave(words, n)
  PROVE  /\ \A i \in 1 .. Len(down') : IsCode(down'[i]) => busy /\ executed # <<>>
         /\ \A i, j \in 1 .. Len(down') : IsCode(down'[i]) /\ IsCode(down'[j]) => i = j
         /\ n >= 2 /\ Len(words) <= n - 2 /\ IsCode(down[2]) =>
                \A i \in 1 .. Len(down') : ~IsCode(down'[i])
  <1>1. /\ \A i \in 1 .. Len(down') : /\ down'[i] = down[i + n - Len(words)]
                                      /\ i + n - Len(words) \in 1 .. Len(down)
        /\ Len(words) \in Nat
    BY LeaveTyped
  <1>2. /\ \A i \in 1 .. Len(down) : IsCode(down[i]) => busy /\ executed # <<>>
        /\ \A i, j \in 1 .. Len(down) : IsCode(down[i]) /\ IsCode(down[j]) => i = j
    BY Zenon DEF OneReply
  <1> HIDE DEF Word, IsCode
  <1>3. \A i \in 1 .. Len(down') : IsCode(down'[i]) => busy /\ executed # <<>>
    BY <1>1, <1>2, Zenon
  <1>4. ASSUME NEW i \in 1 .. Len(down'), NEW j \in 1 .. Len(down'),
               IsCode(down'[i]), IsCode(down'[j])
        PROVE  i = j
    <2>1. i + n - Len(words) = j + n - Len(words)
      BY <1>1, <1>2, <1>4, Zenon
    <2> QED BY <1>1, <2>1
  <1>5. ASSUME n >= 2, Len(words) <= n - 2, IsCode(down[2]), NEW i \in 1 .. Len(down')
        PROVE  ~IsCode(down'[i])
    <2>1. i + n - Len(words) # 2 /\ 2 \in 1 .. Len(down)
      BY <1>1, <1>5
    <2> QED BY <1>1, <1>2, <1>5, <2>1, Zenon
  <1> QED BY <1>3, <1>4, <1>5

LEMMA RepliesApart ==
  ASSUME CodesApart, NEW f \in Cases, NEW d, d.f = DllFunction(f), NEW outs \in Outs(d)
  PROVE  /\ Reply(f, outs) \in Seq(Word) /\ Len(Reply(f, outs)) >= 2
         /\ \A i \in 1 .. Len(Reply(f, outs)) : i # 2 => ~IsCode(Reply(f, outs)[i])
  <1> DEFINE m == Reply(f, outs)
             F == Fields(ServeFormat(f).writes, outs)
             size == 4 * (Len(F) + 1)
             code == CodeWord[ReplyCode(f)]
  <1>1. m = <<size, code>> \o F /\ m \in Seq(W32) /\ F \in Seq(W32)
    BY ReplyForm, Zenon DEF Framed
  <1>2. \A i \in DOMAIN m \ {2} : \A g \in Functions : m[i] # CodeWord[CallCode(g)]
    BY OutsForm, Zenon DEF CodesApart
  <1> HIDE DEF m, F, code
  <1>3. Len(m) >= 2 /\ DOMAIN m = 1 .. Len(m)
    BY <1>1
  <1>4. \A i \in 1 .. Len(m) : i # 2 => ~IsCode(m[i])
    BY <1>2, <1>3, Zenon DEF IsCode
  <1> QED BY <1>1, <1>3, <1>4, WordIs, Zenon DEF m

LEMMA ReportsApart ==
  ASSUME CodesApart, NEW e \in Events
  PROVE  /\ Report(e) \in Seq(Word)
         /\ \A i \in 1 .. Len(Report(e)) : ~IsCode(Report(e)[i])
  <1> DEFINE m == Report(e)
             F == Fields(StatusWrite, e)
             size == 4 * (Len(F) + 1)
             code == CodeWord[ConnStatus]
  <1>1. m = <<size, code>> \o F /\ m \in Seq(W32) /\ F \in Seq(W32)
    BY ReportForm, Zenon DEF Framed
  <1>2. \A i \in DOMAIN m \ {2} : \A g \in Functions : m[i] # CodeWord[CallCode(g)]
    BY Zenon DEF CodesApart
  <1>3. ~IsCode(code)
    BY CallbacksApart, Zenon DEF IsCode, CallbackCodes
  <1> HIDE DEF m, F, code
  <1>4. m[2] = code /\ DOMAIN m = 1 .. Len(m)
    BY <1>1
  <1>5. \A i \in 1 .. Len(m) : ~IsCode(m[i])
    <2> TAKE i \in 1 .. Len(m)
    <2>1. CASE i = 2
      BY <1>3, <1>4, <2>1
    <2>2. CASE i # 2
      BY <1>2, <1>4, <2>2, Zenon DEF IsCode
    <2> QED BY <2>1, <2>2
  <1> QED BY <1>1, <1>5, WordIs, Zenon DEF m

\* What is served is the code of the call, and nothing but a flag is left.
LEMMA StandingServed ==
  ASSUME CodesApart, TypeOK, Standing, Serve
  PROVE  /\ busy /\ executed = <<>> /\ call \in Calls
         /\ \E args : \E outs :
              executed' = <<[f |-> DllFunction(CallCode(call.f)), args |-> args], outs>>
         /\ \/ up' = <<>>
            \/ call.f = "START_TRADES" /\ up' = call.args
  <1>1. up \in Seq(Word) /\ up # <<>> /\ Waited
    BY Zenon DEF TypeOK, Serve, Waited
  <1>2. PICK f \in Cases :
          /\ Served(f)
          /\ LET taken == ReadFields(ServeFormat(f).reads, From(up, 3))
                 asked == [f |-> DllFunction(f), args |-> taken.values]
             IN  \E outs \in Outs(asked) :
                   /\ executed' = <<asked, outs>>
                   /\ up' = taken.left
    BY Zenon DEF Serve
  <1>3. ~Astray(up)
    BY <1>1, <1>2, AstrayServed, Zenon
  <1>4. ~FlagLeft
    <2> SUFFICES ASSUME FlagLeft PROVE FALSE
      OBVIOUS
    <2>1. call \in Calls /\ call.f \in StraySetters /\ up = call.args /\ call.f = "START_TRADES"
      BY Zenon DEF FlagLeft, StraySetters
    <2>2. up \in {<< 0 >>, << 1 >>}
      BY <2>1, StrayRequest, Zenon
    <2>3. Len(up) = 1
      BY <2>2
    <2> QED BY <1>3, <2>3, Zenon DEF Astray
  <1>5. busy /\ executed = <<>> /\ call \in Calls /\ up = Request(call)
    BY <1>1, <1>3, <1>4, Zenon DEF Standing
  <1>6. f = CallCode(call.f) /\ From(up, 3) = Fields(CallFormat(call.f).request, call.args)
    BY <1>1, <1>2, <1>5, ServedCode, RequestParts, Zenon
  <1>7. call.f \in ApiFunctions /\ call.f \in Cases \cup StraySetters
    BY <1>5, CallForm, FunctionsKnown, Zenon
  <1>8. CASE call.f \in Cases
    <2>1. f = call.f
      BY <1>6, <1>7, <1>8, CallCodes, Zenon
    <2>2. ReadFields(ServeFormat(call.f).reads,
                     Fields(CallFormat(call.f).request, call.args)).left = <<>>
      BY <1>5, <1>8, RequestTaken
    <2> QED BY <1>2, <1>5, <1>6, <2>1, <2>2, Zenon
  <1>9. CASE call.f \in StraySetters /\ call.f \notin Cases
    <2>1. call.f = "START_TRADES"
      BY <1>6, <1>7, <1>9, CallCodes, Zenon
    <2>2. f = UnsubscribeTrades
      BY <1>6, <2>1, <1>9, StrayFormats
    <2>3. ServeFormat(f).reads = <<>>
      BY <2>2, UnsubscribeFormats
    <2>4. From(up, 3) = call.args
      BY <1>5, <1>9, <2>1, StrayRequest, Zenon
    <2>5. ReadFields(<<>>, call.args).left = call.args
      <3>1. Len(<<>>) = 0 /\ 0 \in 0 .. 0 /\ Len(<<>>) \in Nat
        OBVIOUS
      <3>2. PICK r : IsReading(r, <<>>, call.args) /\ ReadFields(<<>>, call.args) = r[0]
        BY <3>1, ReadingDefined, Zenon
      <3>3. r[0] = [values |-> <<>>, left |-> call.args]
        BY <3>1, <3>2, Zenon DEF IsReading
      <3> QED BY <3>2, <3>3
    <2> QED BY <1>2, <1>5, <1>6, <2>1, <2>3, <2>4, <2>5, Zenon
  <1> QED BY <1>7, <1>8, <1>9, Zenon

LEMMA StandingKept ==
  ASSUME CodesApart, TypeOK, Standing, [Next]_wireVars, ReadReply => executed # <<>>
  PROVE  Standing'
  <1>0. Jammed(<<>>) /\ Astray(<<>>)
    BY Zenon DEF Jammed, Astray
  <1>1. CASE Call
    <2>1. PICK c \in Calls : call' = c /\ up' = up \o Request(c)
      BY <1>1, Zenon DEF Call
    <2>2. ~busy /\ busy' = TRUE /\ executed' = <<>>
      BY <1>1, Zenon DEF Call
    <2>3. CASE up = <<>>
      <3>1. up' = Request(c)
        BY <2>1, <2>3, RequestParts, Zenon
      <3> QED BY <2>1, <2>2, <3>1, Zenon DEF Standing
    <2>4. CASE FlagLeft
      <3>1. call \in Calls /\ call.f = "START_TRADES" /\ call.f \in StraySetters /\ up = call.args
        BY <2>4, Zenon DEF FlagLeft, StraySetters
      <3>2. up \in {<< 0 >>, << 1 >>}
        BY <3>1, StrayRequest, Zenon
      <3>3. Astray(up')
        BY <2>1, <3>2, BehindFlag, Zenon
      <3>4. Astray(up)' <=> Astray(up')
        BY Zenon DEF Astray, Jammed
      <3> QED BY <2>1, <2>2, <3>3, <3>4, Zenon DEF Standing
    <2> QED BY <2>2, <2>3, <2>4, Zenon DEF Standing
  <1>2. CASE Serve
    <2>1. \E args : \E outs :
              executed' = <<[f |-> DllFunction(CallCode(call.f)), args |-> args], outs>>
      BY <1>2, StandingServed, Zenon
    <2>2. executed' # <<>> /\ executed'[1].f = DllFunction(CallCode(call.f))
      BY <2>1
    <2>3. call \in Calls /\ (up' = <<>> \/ (call.f = "START_TRADES" /\ up' = call.args))
      BY <1>2, StandingServed, Zenon
    <2>4. UNCHANGED <<call, busy>>
      BY <1>2, Zenon DEF Serve
    <2> QED BY <2>2, <2>3, <2>4, Zenon DEF Standing, FlagLeft
  <1>3. CASE ServeNothing
    <2>1. UNCHANGED <<call, busy, executed>> /\ up' = From(up, 3)
      BY <1>3, Zenon DEF ServeNothing, rpcVars
    <2>2. up \in Seq(Word) /\ up # <<>> /\ Waited /\ \A f \in Cases : ~Served(f)
      BY <1>3, Zenon DEF ServeNothing, TypeOK, Waited
    <2>3. Astray(up)' <=> Astray(up')
      BY Zenon DEF Astray, Jammed
    <2>4. CASE busy /\ executed = <<>> /\ up = Request(call)
      <3>1. call \in Calls
        BY <2>4, Zenon DEF Standing
      <3>2. Len(up) >= 2 /\ up[2] = CodeWord[CallCode(call.f)]
        BY <2>4, <3>1, RequestParts, Zenon
      <3>3. CallCode(call.f) \notin Cases
        BY <2>2, <3>2, ServedCode, Zenon
      <3>4. call.f \in StraySetters
        BY <3>1, <3>3, CallForm, FunctionsKnown, CallCodes, Zenon
      <3>5. Astray(up')
        BY <2>1, <2>4, <3>1, <3>4, StrayRequest, Zenon
      <3> QED BY <2>1, <2>3, <2>4, <3>5, Zenon DEF Standing
    <2>5. CASE busy /\ executed = <<>> /\ Astray(up)
      <3>1. Astray(up')
        BY <2>1, <2>2, <2>5, AstrayServed, Zenon
      <3> QED BY <2>1, <2>3, <2>5, <3>1, Zenon DEF Standing
    <2>6. CASE FlagLeft
      <3>1. call \in Calls /\ call.f = "START_TRADES" /\ call.f \in StraySetters /\ up = call.args
            /\ executed # <<>>
        BY <2>6, Zenon DEF FlagLeft, StraySetters
      <3>2. up \in {<< 0 >>, << 1 >>}
        BY <3>1, StrayRequest, Zenon
      <3>3. up' = <<>>
        BY <2>1, <3>2 DEF From
      <3> QED BY <2>1, <3>1, <3>3, Zenon DEF Standing
    <2> QED BY <2>2, <2>4, <2>5, <2>6, Zenon DEF Standing
  <1>4. CASE Push \/ ReadEvent \/ SkipEvent \/ ReadOther \/ UNCHANGED wireVars
    <2>1. UNCHANGED <<call, busy, executed, up>>
      BY <1>4, Zenon DEF Push, ReadEvent, SkipEvent, ReadOther, wireVars, rpcVars
    <2>2. Astray(up)' <=> Astray(up)
      BY <2>1, Zenon DEF Astray, Jammed
    <2> QED BY <2>1, <2>2, Zenon DEF Standing, FlagLeft
  <1>5. CASE ReadReply
    <2>1. busy' = FALSE /\ UNCHANGED <<call, executed, up>>
      BY <1>5, Zenon DEF ReadReply
    <2> QED BY <1>5, <2>1, Zenon DEF Standing, FlagLeft
  <1> QED BY <1>1, <1>2, <1>3, <1>4, <1>5, Zenon DEF Next

\* The next read of the client finds the reply to its call only once there is one.
LEMMA ReplyFound ==
  ASSUME TypeInv, OneReply, busy, NEW n \in 1 .. Len(down),
         Code(n) = CodeWord[CallCode(call.f)]
  PROVE  executed # <<>> /\ n >= 2 /\ IsCode(down[2])
  <1>1. call.f \in Functions /\ TypeOK
    BY Zenon DEF TypeInv
  <1>2. CodeWord[CallCode(call.f)] # 0
    BY <1>1, FunctionsKnown, Zenon
  <1>3. n # 1 /\ down[2] = CodeWord[CallCode(call.f)]
    BY <1>1, <1>2, CodeTaken
  <1>4. n >= 2 /\ 2 \in 1 .. Len(down)
    BY <1>3
  <1>5. IsCode(down[2])
    BY <1>1, <1>3, Zenon DEF IsCode
  <1> QED BY <1>4, <1>5, Zenon DEF OneReply

LEMMA OneReplyKept ==
  ASSUME CodesApart, TypeInv, Standing, OneReply, [Next]_wireVars
  PROVE  OneReply'
  <1>0. TypeOK
    BY DEF TypeInv
  <1>1. CASE Call
    <2>1. ~busy /\ UNCHANGED down
      BY <1>1, Zenon DEF Call, downVars
    <2>2. \A i \in 1 .. Len(down) : ~IsCode(down[i])
      BY <2>1, Zenon DEF OneReply
    <2> QED BY <2>1, <2>2, Zenon DEF OneReply
  <1>2. CASE Serve
    <2>1. busy /\ executed = <<>>
      BY <1>0, <1>2, StandingServed, Zenon
    <2>2. PICK f \in Cases :
            \E args : \E outs \in Outs([f |-> DllFunction(f), args |-> args]) :
               /\ executed' = <<[f |-> DllFunction(f), args |-> args], outs>>
               /\ Send(Reply(f, outs))
      BY <1>2, Zenon DEF Serve
    <2>3. PICK args : \E outs \in Outs([f |-> DllFunction(f), args |-> args]) :
               /\ executed' = <<[f |-> DllFunction(f), args |-> args], outs>>
               /\ Send(Reply(f, outs))
      BY <2>2, Zenon
    <2> DEFINE d == [f |-> DllFunction(f), args |-> args]
    <2>4. PICK outs \in Outs(d) : executed' = <<d, outs>> /\ Send(Reply(f, outs))
      BY <2>3, Zenon
    <2>5. d.f = DllFunction(f)
      OBVIOUS
    <2>6. executed' # <<>>
      <3> HIDE DEF d
      <3> QED BY <2>4
    <2> HIDE DEF d
    <2> DEFINE m == Reply(f, outs)
    <2>7. /\ m \in Seq(Word) /\ Len(m) >= 2
          /\ \A i \in 1 .. Len(m) : i # 2 => ~IsCode(m[i])
      BY <2>5, RepliesApart, Zenon
    <2>8. 2 \in 1 .. Len(m) + 1
      <3> HIDE DEF m, Word
      <3> QED BY <2>7
    <2>9. \A i \in 1 .. Len(down') : IsCode(down'[i]) =>
              (i \in 1 .. Len(down) /\ IsCode(down[i])) \/ i = Len(down) + 2
      BY <1>0, <2>4, <2>7, <2>8, SendCodes, Zenon
    <2>10. \A i \in 1 .. Len(down) : ~IsCode(down[i])
      BY <2>1, Zenon DEF OneReply
    <2>11. \A i \in 1 .. Len(down') : IsCode(down'[i]) => i = Len(down) + 2
      BY <2>9, <2>10, Zenon
    <2>12. busy' = busy
      BY <1>2, Zenon DEF Serve
    <2> QED BY <2>1, <2>6, <2>11, <2>12, Zenon DEF OneReply, IsCode
  <1>3. CASE Push
    <2>1. PICK e \in Events : Send(Report(e))
      BY <1>3, Zenon DEF Push
    <2> DEFINE m == Report(e)
    <2>2. m \in Seq(Word) /\ \A i \in 1 .. Len(m) : ~IsCode(m[i])
      BY ReportsApart
    <2>3. Len(m) + 1 \in 1 .. Len(m) + 1 /\ Len(m) + 1 \notin 1 .. Len(m)
      <3> HIDE DEF m, Word
      <3> QED BY <2>2
    <2>4. \A i \in 1 .. Len(down') : IsCode(down'[i]) => i \in 1 .. Len(down) /\ IsCode(down[i])
      BY <1>0, <2>1, <2>2, <2>3, SendCodes, Zenon
    <2>5. \A i \in 1 .. Len(down) : down'[i] = down[i]
      <3>1. down' = down \o m /\ down \in Seq(Word)
        BY <1>0, <2>1, Zenon DEF Send, TypeOK
      <3> HIDE DEF m, Word
      <3> QED BY <2>2, <3>1, Join
    <2>6. UNCHANGED <<busy, executed>>
      BY <1>3, Zenon DEF Push
    <2> QED BY <2>4, <2>5, <2>6, Zenon DEF OneReply, IsCode
  <1>4. CASE ReadEvent
    <2>1. PICK n \in 1 .. Len(down) : Leave(ReadFields(StatusRead, Payload(n)).left, n)
      BY <1>4, Zenon DEF ReadEvent
    <2>2. /\ \A i \in 1 .. Len(down') : IsCode(down'[i]) => busy /\ executed # <<>>
          /\ \A i, j \in 1 .. Len(down') : IsCode(down'[i]) /\ IsCode(down'[j]) => i = j
      BY <1>0, <2>1, StatusReadable, ReadTyped, LeaveCodes, Zenon
    <2>3. UNCHANGED <<busy, executed>>
      BY <1>4, Zenon DEF ReadEvent
    <2> QED BY <2>2, <2>3, Zenon DEF OneReply, IsCode
  <1>5. CASE SkipEvent
    <2>1. PICK n \in 1 .. Len(down) : Leave(Payload(n), n)
      BY <1>5, Zenon DEF SkipEvent
    <2>2. /\ \A i \in 1 .. Len(down') : IsCode(down'[i]) => busy /\ executed # <<>>
          /\ \A i, j \in 1 .. Len(down') : IsCode(down'[i]) /\ IsCode(down'[j]) => i = j
      BY <1>0, <2>1, StatusReadable, ReadTyped, LeaveCodes, Zenon
    <2>3. UNCHANGED <<busy, executed>>
      BY <1>5, Zenon DEF SkipEvent, rpcVars
    <2> QED BY <2>2, <2>3, Zenon DEF OneReply, IsCode
  <1>6. CASE ReadReply
    <2>1. PICK n \in 1 .. Len(down) :
              /\ Code(n) = CodeWord[CallCode(call.f)]
              /\ Leave(ReadFields(CallFormat(call.f).reply, Payload(n)).left, n)
      BY <1>6, Zenon DEF ReadReply
    <2>2. busy /\ call.f \in Functions /\ busy' = FALSE
      BY <1>6, Zenon DEF ReadReply, TypeInv
    <2>3. Readable(CallFormat(call.f).reply)
      BY <2>2, FunctionsKnown
    <2>4. executed # <<>> /\ n >= 2 /\ IsCode(down[2])
      BY <2>1, <2>2, ReplyFound
    <2> DEFINE left == ReadFields(CallFormat(call.f).reply, Payload(n)).left
    <2>5. left \in Seq(Word) /\ Len(left) <= n /\ Len(left) <= n - 2
      <3>1. /\ left \in Seq(Word) /\ Len(left) <= Len(Payload(n)) /\ Len(left) <= n
            /\ Len(Payload(n)) = n - 2
        BY <1>0, <2>3, <2>4, ReadTyped, Zenon
      <3> HIDE DEF left, Word
      <3> QED BY <3>1
    <2>6. \A i \in 1 .. Len(down') : ~IsCode(down'[i])
      <3> HIDE DEF left
      <3>1. Leave(left, n)
        BY <2>1 DEF left
      <3> QED BY <1>0, <2>4, <2>5, <3>1, LeaveCodes, Zenon
    <2> QED BY <2>2, <2>6, Zenon DEF OneReply, IsCode
  <1>7. CASE ServeNothing \/ ReadOther \/ UNCHANGED wireVars
    <2>1. UNCHANGED <<busy, executed, down>>
      BY <1>7, Zenon DEF ServeNothing, ReadOther, wireVars, rpcVars, downVars
    <2> QED BY <2>1 DEF OneReply
  <1> QED BY <1>1, <1>2, <1>3, <1>4, <1>5, <1>6, <1>7, Zenon DEF Next

\* Whatever is called, the setters that send a stray payload included, with
\* whatever arguments, and whatever the DLL returns and reports: processMessages
\* executes a call under the code the call sent or not at all, and nothing is
\* left of a call that has returned but the flag of START_TRADES.  Codes must be
\* told from data and sizes.
THEOREM InStep ==
  ASSUME CodesApart
  PROVE  Spec => []ServerInStep
  <1>1. Init => Standing /\ OneReply
    <2>1. Len(<<>>) = 0 /\ 1 .. 0 = {}
      OBVIOUS
    <2> QED BY <2>1, Zenon DEF Init, Standing, OneReply
  <1>2. TypeInv /\ Standing /\ OneReply /\ [Next]_wireVars => Standing' /\ OneReply'
    <2> SUFFICES ASSUME TypeInv, Standing, OneReply, [Next]_wireVars
                 PROVE  Standing' /\ OneReply'
      OBVIOUS
    <2>1. ReadReply => executed # <<>>
      BY ReplyFound, Zenon DEF ReadReply
    <2>2. Standing'
      BY <2>1, StandingKept DEF TypeInv
    <2>3. OneReply'
      BY OneReplyKept
    <2> QED BY <2>2, <2>3
  <1>3. Standing => ServerInStep
    BY Zenon DEF Standing, FlagLeft, ServerInStep
  <1>4. Spec => []TypeInv
    BY TypeInvHolds
  <1> QED BY <1>1, <1>2, <1>3, <1>4, PTL DEF Spec

-----------------------------------------------------------------------------
(***************************************************************************)
(* A stream of messages: parts put one behind the other.                   *)
(***************************************************************************)
IsStream(F, T, words, parts) ==
    /\ F \in [1 .. Len(parts) + 1 -> Seq(T)]
    /\ F[1] = words /\ F[Len(parts) + 1] = <<>>
    /\ \A i \in 1 .. Len(parts) : F[i] = parts[i] \o F[i + 1]

Stream(T, words, parts) == \E F : IsStream(F, T, words, parts)

LEMMA StreamNone ==
  ASSUME NEW T, NEW words
  PROVE  Stream(T, words, <<>>) <=> words = <<>>
  <1>1. ASSUME Stream(T, words, <<>>) PROVE words = <<>>
    BY <1>1 DEF Stream, IsStream
  <1>2. IsStream([i \in 1 .. 1 |-> <<>>], T, <<>>, <<>>)
    BY DEF IsStream
  <1>3. Stream(T, <<>>, <<>>)
    BY <1>2, Zenon DEF Stream
  <1> QED BY <1>1, <1>3, Zenon

LEMMA StreamAppend ==
  ASSUME NEW T, NEW words, NEW parts \in Seq(Seq(T)), Stream(T, words, parts),
         NEW m \in Seq(T)
  PROVE  Stream(T, words \o m, Append(parts, m))
  <1> DEFINE n == Len(parts)
             more == Append(parts, m)
  <1>0. n \in Nat
    OBVIOUS
  <1>1. PICK F : IsStream(F, T, words, parts)
    BY Zenon DEF Stream
  <1>2. /\ \A i \in 1 .. n + 1 : F[i] \in Seq(T)
        /\ F[1] = words /\ F[n + 1] = <<>>
        /\ \A i \in 1 .. n : F[i] = parts[i] \o F[i + 1]
    BY <1>1, Zenon DEF IsStream
  <1>3. /\ more \in Seq(Seq(T)) /\ Len(more) = n + 1 /\ more[n + 1] = m
        /\ \A i \in 1 .. n : more[i] = parts[i] /\ parts[i] \in Seq(T)
    OBVIOUS
  <1> DEFINE G == [i \in 1 .. n + 2 |-> IF i = n + 2 THEN <<>> ELSE F[i] \o m]
  <1>4. G \in [1 .. n + 2 -> Seq(T)]
    <2>1. \A i \in 1 .. n + 2 : G[i] \in Seq(T)
      <3> HIDE DEF n
      <3> TAKE i \in 1 .. n + 2
      <3>1. CASE i = n + 2
        BY <3>1
      <3>2. CASE i # n + 2
        <4>1. i \in 1 .. n + 1 /\ G[i] = F[i] \o m /\ F[i] \in Seq(T)
          BY <1>0, <1>2, <3>2
        <4> HIDE DEF G
        <4> QED BY <4>1, Join
      <3> QED BY <3>1, <3>2
    <2> HIDE DEF n
    <2> QED BY <2>1, Zenon
  <1>5. G[1] = words \o m /\ G[n + 2] = <<>>
    <2>1. 1 \in 1 .. n + 2 /\ n + 2 \in 1 .. n + 2 /\ 1 # n + 2
      BY <1>0
    <2> HIDE DEF n
    <2> QED BY <1>2, <2>1, Zenon
  <1>6. ASSUME NEW i \in 1 .. n + 1 PROVE G[i] = more[i] \o G[i + 1]
    <2>1. CASE i = n + 1
      <3>1. G[i] = <<>> \o m /\ G[i + 1] = <<>> /\ more[i] = m
        <4>1. i \in 1 .. n + 2 /\ i + 1 \in 1 .. n + 2 /\ i # n + 2 /\ i + 1 = n + 2
          BY <1>0, <2>1
        <4>2. F[i] = <<>> /\ more[i] = m
          BY <1>2, <1>3, <2>1, Zenon
        <4> HIDE DEF n, more
        <4> QED BY <4>1, <4>2, Zenon
      <3>2. <<>> \o m = m /\ m \o <<>> = m
        OBVIOUS
      <3> QED BY <3>1, <3>2, Zenon
    <2>2. CASE i # n + 1
      <3>1. i \in 1 .. n /\ i \in 1 .. n + 1 /\ i + 1 \in 1 .. n + 1 /\ i # n + 2 /\ i + 1 # n + 2
            /\ i \in 1 .. n + 2 /\ i + 1 \in 1 .. n + 2
        BY <1>0, <2>2
      <3>2. G[i] = F[i] \o m /\ G[i + 1] = F[i + 1] \o m
        <4> HIDE DEF n
        <4> QED BY <3>1
      <3> DEFINE a == parts[i]
                 b == F[i + 1]
      <3>3. F[i] = a \o b /\ a \in Seq(T) /\ b \in Seq(T) /\ more[i] = a
        BY <1>2, <1>3, <3>1, Zenon
      <3>4. (a \o b) \o m = a \o (b \o m)
        <4> HIDE DEF a, b
        <4> QED BY <3>3, SMTT(30)
      <3> QED BY <3>2, <3>3, <3>4, Zenon
    <2> QED BY <2>1, <2>2
  <1>7. Len(more) + 1 = n + 2
    BY <1>0, <1>3
  <1> HIDE DEF G, n, more
  <1>8. IsStream(G, T, words \o m, more)
    BY <1>3, <1>4, <1>5, <1>6, <1>7, Zenon DEF IsStream
  <1>9. Stream(T, words \o m, more)
    BY <1>8, Zenon DEF Stream
  <1> QED BY <1>9 DEF more

LEMMA StreamHead ==
  ASSUME NEW T, NEW words, NEW parts \in Seq(Seq(T)), Stream(T, words, parts),
         parts # <<>>
  PROVE  \E rest \in Seq(T) : /\ words = parts[1] \o rest
                              /\ Stream(T, rest, Tail(parts))
  <1> DEFINE n == Len(parts)
             others == Tail(parts)
  <1>0. n \in Nat /\ n >= 1
    OBVIOUS
  <1>1. PICK F : IsStream(F, T, words, parts)
    BY Zenon DEF Stream
  <1>2. /\ \A i \in 1 .. n + 1 : F[i] \in Seq(T)
        /\ F[1] = words /\ F[n + 1] = <<>>
        /\ \A i \in 1 .. n : F[i] = parts[i] \o F[i + 1]
    BY <1>1, Zenon DEF IsStream
  <1>3. Len(others) = n - 1 /\ \A i \in 1 .. n - 1 : others[i] = parts[i + 1]
    OBVIOUS
  <1> DEFINE G == [i \in 1 .. n |-> F[i + 1]]
  <1>4. G \in [1 .. n -> Seq(T)]
    <2>1. \A i \in 1 .. n : F[i + 1] \in Seq(T)
      BY <1>0, <1>2
    <2> HIDE DEF n
    <2> QED BY <2>1, Zenon
  <1>5. G[1] = F[2] /\ G[n] = <<>> /\ F[2] \in Seq(T) /\ words = parts[1] \o F[2]
    <2>1. 1 \in 1 .. n /\ n \in 1 .. n /\ 1 + 1 = 2 /\ 2 \in 1 .. n + 1
      BY <1>0
    <2> HIDE DEF n
    <2> QED BY <1>2, <2>1, Zenon
  <1>6. \A i \in 1 .. n - 1 : G[i] = others[i] \o G[i + 1]
    <2> HIDE DEF n, others
    <2> TAKE i \in 1 .. n - 1
    <2>1. i + 1 \in 1 .. n /\ i \in 1 .. n /\ G[i] = F[i + 1] /\ G[i + 1] = F[i + 1 + 1]
      BY <1>0
    <2> HIDE DEF G
    <2> QED BY <1>2, <1>3, <2>1
  <1>7. Len(others) + 1 = n
    BY <1>0, <1>3
  <1> HIDE DEF G, n, others
  <1>8. IsStream(G, T, F[2], others)
    BY <1>3, <1>4, <1>5, <1>6, <1>7, Zenon DEF IsStream
  <1>9. Stream(T, F[2], others)
    BY <1>8, Zenon DEF Stream
  <1> QED BY <1>5, <1>9 DEF others

-----------------------------------------------------------------------------
(***************************************************************************)
(* The functions whose two ends agree.                                     *)
(***************************************************************************)
LEMMA AgreedFormats ==
  ASSUME NEW f \in AgreedFunctions
  PROVE  /\ DllFunction(f) = f /\ ReplyCode(f) = f
         /\ AgreedOuts(Signature(f).outs, ServeFormat(f).writes, CallFormat(f).reply)
  <1>1. f # "TRADE_KIND" /\ f # "TRADE_SETTLE_CURRENCY"
    BY DEF AgreedFunctions, DateTimes, SetConnStatus, UnsubscribeTrades
  <1>2. DllFunction(f) = f /\ ReplyCode(f) = f
    BY <1>1, Zenon DEF DllFunction, ReplyCode
  <1> DEFINE report == f \in {"SEND_ASYNC_TRANSACTION", "CONNECT"} \cup {SetConnStatus}
                          \cup {"DISCONNECT", "IS_QUIK_CONNECTED", "IS_DLL_CONNECTED"}
             plain == f \in {"SUBSCRIBE_ORDERS", "SUBSCRIBE_TRADES"} \cup DateTimes
                         \cup {"UNSUBSCRIBE_ORDERS", UnsubscribeTrades}
  <1>3. CASE report
    <2>1. /\ \E x : Signature(f) = [args |-> x, outs |-> ErrorReport]
          /\ \E x : CallFormat(f) = [request |-> x, reply |-> <<"u32", "u32", "buffer">>]
          /\ \E x : ServeFormat(f) = [reads |-> x, writes |-> <<"u32", "u32", "qstr">>]
      BY <1>3, TextFormats, SetterFormats, SizeFormats, Zenon
    <2>2. /\ Signature(f).outs = ErrorReport
          /\ CallFormat(f).reply = <<"u32", "u32", "buffer">>
          /\ ServeFormat(f).writes = <<"u32", "u32", "qstr">>
      BY <2>1
    <2>3. AgreedOuts(ErrorReport, <<"u32", "u32", "qstr">>, <<"u32", "u32", "buffer">>)
      BY DEF AgreedOuts, ErrorReport
    <2> QED BY <1>2, <2>2, <2>3, Zenon
  <1>4. CASE plain
    <2>1. /\ \E x : Signature(f) = [args |-> x, outs |-> <<"long">>]
          /\ \E x : CallFormat(f) = [request |-> x, reply |-> <<"u32">>]
          /\ \E x : ServeFormat(f) = [reads |-> x, writes |-> <<"u32">>]
      BY <1>4, SubscribeFormats, UnsubscribeFormats, DateTimeFormats, Zenon
    <2>2. /\ Signature(f).outs = <<"long">>
          /\ CallFormat(f).reply = <<"u32">> /\ ServeFormat(f).writes = <<"u32">>
      BY <2>1
    <2>3. AgreedOuts(<<"long">>, <<"u32">>, <<"u32">>)
      BY DEF AgreedOuts
    <2> QED BY <1>2, <2>2, <2>3, Zenon
  <1>5. report \/ plain
    BY Zenon DEF AgreedFunctions
  <1> QED BY <1>3, <1>4, <1>5

\* The results come out as they went in.
LEMMA OutsKept ==
  ASSUME AgreedValues, NEW f \in Functions, f \in AgreedFunctions,
         NEW d, d.f = f, NEW outs \in Outs(d)
  PROVE  /\ \E S : outs \in Seq(S)
         /\ AllKept(ServeFormat(f).writes, CallFormat(f).reply, outs)
         /\ Framed(Reply(f, outs), f, Fields(ServeFormat(f).writes, outs))
  <1> DEFINE types == Signature(f).outs
             writes == ServeFormat(f).writes
             reads == CallFormat(f).reply
  <1>1. /\ DllFunction(f) = f /\ ReplyCode(f) = f
        /\ AgreedOuts(types, writes, reads)
    BY AgreedFormats
  <1> f \in Cases
    BY AgreedCases, Zenon
  <1>2. /\ \E S : outs \in Seq(S)
        /\ Len(outs) = Len(types)
        /\ \A i \in 1 .. Len(outs) : outs[i] \in OutValues(types[i])
    BY <1>1, OutsForm, Zenon
  <1>3. Framed(Reply(f, outs), f, Fields(writes, outs))
    BY <1>1, ReplyForm, Zenon
  <1>4. Len(writes) = Len(outs) /\ Len(reads) = Len(outs)
    BY <1>1, <1>2, Zenon DEF AgreedOuts
  <1>5. ASSUME NEW i \in 1 .. Len(outs) PROVE Kept(writes[i], reads[i], outs[i])
    <2>1. outs[i] \in OutValues(types[i]) /\ i \in 1 .. Len(types)
      BY <1>2, Zenon
    <2>2. \A v \in Results : v \in W32
      BY WordIs, Zenon DEF AgreedValues
    <2>3. CASE types[i] = "long" /\ writes[i] = "u32" /\ reads[i] = "u32"
      BY <2>1, <2>2, <2>3, OutForms, Zenon DEF Kept
    <2>4. CASE types[i] = "buffer" /\ writes[i] = "qstr" /\ reads[i] = "buffer"
      BY <2>1, <2>4, OutForms, ValueFacts, Zenon DEF Kept
    <2> QED BY <1>1, <2>1, <2>3, <2>4, Zenon DEF AgreedOuts
  <1> QED BY <1>2, <1>3, <1>4, <1>5, Zenon DEF AllKept

\* What the DLL reports comes out as it went in.
LEMMA ReportKept ==
  ASSUME AgreedValues, NEW e \in Events
  PROVE  AllKept(StatusWrite, StatusRead, e)
  <1>1. /\ Len(e) = 3 /\ e[1] \in Results /\ e[2] \in Results /\ e[3] \in {Null} \cup Buffers
    BY ReportForm, Zenon
  <1>2. e[3] # <<>> /\ \A v \in Results : v \in W32
    BY WordIs, Zenon DEF AgreedValues
  <1>3. Kept("u32", "u32", e[1]) /\ Kept("u32", "u32", e[2]) /\ Kept("qstr", "lpstr", e[3])
    BY <1>1, <1>2, ValueFacts, Zenon DEF Kept
  <1>4. /\ Len(StatusWrite) = 3 /\ StatusWrite[1] = "u32" /\ StatusWrite[2] = "u32"
        /\ StatusWrite[3] = "qstr"
        /\ Len(StatusRead) = 3 /\ StatusRead[1] = "u32" /\ StatusRead[2] = "u32"
        /\ StatusRead[3] = "lpstr"
    BY DEF StatusWrite, StatusRead
  <1>5. ASSUME NEW i \in 1 .. Len(e) PROVE Kept(StatusWrite[i], StatusRead[i], e[i])
    <2>1. i = 1 \/ i = 2 \/ i = 3
      BY <1>1
    <2> QED BY <1>3, <1>4, <2>1, Zenon
  <1>6. Len(StatusWrite) = Len(e) /\ Len(StatusRead) = Len(e)
    BY <1>1, <1>4
  <1> QED BY <1>5, <1>6, Zenon DEF AllKept

-----------------------------------------------------------------------------
(***************************************************************************)
(* What a reader takes of the first message of the stream.                 *)
(***************************************************************************)
Marks(m) == [i \in DOMAIN m |-> i = 1]

LEMMA MarksForm ==
  ASSUME NEW m \in Seq(W32)
  PROVE  /\ Marks(m) \in Seq(BOOLEAN) /\ Len(Marks(m)) = Len(m)
         /\ m # <<>> => Marks(m) # <<>> /\ Marks(m)[1]
  <1>1. DOMAIN m = 1 .. Len(m) /\ Len(m) \in Nat /\ (m # <<>> => 1 \in 1 .. Len(m))
    OBVIOUS
  <1>2. Marks(m) \in [1 .. Len(m) -> BOOLEAN] /\ (m # <<>> => Marks(m)[1])
    BY <1>1, Zenon DEF Marks
  <1> DEFINE B == BOOLEAN
             s == Marks(m)
  <1>3. s \in [1 .. Len(m) -> B]
    BY <1>2
  <1> HIDE DEF B, s
  <1>4. s \in Seq(B) /\ Len(s) = Len(m)
    BY <1>1, <1>3
  <1>5. m # <<>> => s # <<>>
    BY <1>1, <1>4
  <1> QED BY <1>2, <1>4, <1>5, Zenon DEF B, s

LEMMA FramedSome ==
  ASSUME NEW m, NEW code, NEW fields, Framed(m, code, fields)
  PROVE  m \in Seq(W32) /\ m # <<>>
  <1> DEFINE c == CodeWord[code]
  <1>1. m = <<4 * (Len(fields) + 1), c>> \o fields /\ fields \in Seq(W32) /\ m \in Seq(W32)
    BY Zenon DEF Framed
  <1> HIDE DEF c
  <1>2. m # <<>>
    BY <1>1
  <1> QED BY <1>1, <1>2

LEMMA CodeFound ==
  ASSUME NEW m, NEW code \in ToSet(Enumerators), NEW fields, Framed(m, code, fields),
         NEW rest \in Seq(W32), down = m \o rest,
         NEW n \in 1 .. Len(down), Arrived(n)
  PROVE  /\ Code(n) = CodeWord[code]
         /\ Len(m) \in Nat /\ Taken(m, code, fields, rest, n)
         /\ Payload(n) = SubSeq(m \o rest, 3, n)
  <1>1. Head(m \o rest) <= 4 * (n - 1) /\ n \in 1 .. Len(m \o rest)
    BY DEF Arrived
  <1>2. CodeWord[code] \in W32
    BY CodesDiffer
  <1>3. m \in Seq(W32)
    BY Zenon DEF Framed
  <1>4. Len(m) \in Nat
    BY <1>3
  <1>5. Taken(m, code, fields, rest, n)
    BY <1>1, <1>2, MessageTaken, Zenon
  <1>6. /\ Code(n) = ReadField("u32", SubSeq(m \o rest, 2, n)).value
        /\ Payload(n) = SubSeq(m \o rest, 3, n)
    BY Zenon DEF Code, Payload
  <1> QED BY <1>4, <1>5, <1>6, Zenon DEF Taken

LEMMA FirstTaken ==
  ASSUME NEW m, NEW code \in ToSet(Enumerators), NEW types, NEW S, NEW values \in Seq(S),
         Framed(m, code, Fields(types, values)),
         NEW rest \in Seq(W32), down = m \o rest,
         NEW others \in Seq(BOOLEAN), heads = Marks(m) \o others,
         NEW n \in 1 .. Len(down), Arrived(n),
         NEW reads, AllKept(types, reads, values),
         Leave(ReadFields(reads, Payload(n)).left, n)
  PROVE  /\ ReadFields(reads, Payload(n)).values = values
         /\ down' = rest /\ heads' = others
  <1> DEFINE t == SubSeq(rest, 1, n - Len(m))
  <1>1. /\ Payload(n) = Fields(types, values) \o t
        /\ Len(m) \in Nat /\ t \in Seq(W32) /\ Len(t) = n - Len(m)
    <2>1. /\ Len(m) \in Nat /\ Taken(m, code, Fields(types, values), rest, n)
          /\ Payload(n) = SubSeq(m \o rest, 3, n)
      BY CodeFound, Zenon
    <2> QED BY <2>1, Zenon DEF Taken
  <1> HIDE DEF t
  <1>2. ReadFields(reads, Fields(types, values) \o t) = [values |-> values, left |-> t]
    BY <1>1, RoundTrip, SMT
  <1>3. ReadFields(reads, Payload(n)).values = values /\ ReadFields(reads, Payload(n)).left = t
    BY <1>1, <1>2
  <1>4. down' = From(down, n - Len(t) + 1) /\ heads' = From(heads, n - Len(t) + 1)
    BY <1>3, Zenon DEF Leave
  <1>5. n - Len(t) + 1 = Len(m) + 1
    BY <1>1
  <1>6. m \in Seq(W32) /\ m # <<>>
    BY FramedSome
  <1>7. Marks(m) \in Seq(BOOLEAN) /\ Len(Marks(m)) = Len(m)
    BY <1>6, MarksForm
  <1>8. From(m \o rest, Len(m) + 1) = rest
    BY <1>6, Behind
  <1>9. From(Marks(m) \o others, Len(Marks(m)) + 1) = others
    BY <1>7, Behind
  <1> QED BY <1>3, <1>4, <1>5, <1>7, <1>8, <1>9, Zenon

-----------------------------------------------------------------------------
(***************************************************************************)
(* Messages under way, and which of their words are sizes.                 *)
(***************************************************************************)
MarksOf(msgs) == [i \in 1 .. Len(msgs) |-> Marks(msgs[i])]

UnderWay(words, marks, msgs) ==
    /\ Stream(W32, words, msgs)
    /\ Stream(BOOLEAN, marks, MarksOf(msgs))

LEMMA MarksSeq ==
  ASSUME NEW msgs \in Seq(Seq(W32))
  PROVE  /\ MarksOf(msgs) \in Seq(Seq(BOOLEAN)) /\ Len(MarksOf(msgs)) = Len(msgs)
         /\ \A i \in 1 .. Len(msgs) : MarksOf(msgs)[i] = Marks(msgs[i])
  <1>1. Len(msgs) \in Nat /\ \A i \in 1 .. Len(msgs) : msgs[i] \in Seq(W32)
    OBVIOUS
  <1>2. \A i \in 1 .. Len(msgs) : Marks(msgs[i]) \in Seq(BOOLEAN)
    BY <1>1, MarksForm, Zenon
  <1> DEFINE S == Seq(BOOLEAN)
             s == MarksOf(msgs)
  <1>3. s \in [1 .. Len(msgs) -> S] /\ \A i \in 1 .. Len(msgs) : s[i] = Marks(msgs[i])
    BY <1>2, Zenon DEF MarksOf
  <1> HIDE DEF S, s
  <1>4. s \in Seq(S) /\ Len(s) = Len(msgs)
    BY <1>1, <1>3
  <1> QED BY <1>3, <1>4, Zenon DEF S, s

LEMMA UnderWayNone ==
  ASSUME NEW words, NEW marks
  PROVE  UnderWay(words, marks, <<>>) <=> words = <<>> /\ marks = <<>>
  <1>1. MarksOf(<<>>) = <<>>
    BY DEF MarksOf
  <1>2. Stream(W32, words, <<>>) <=> words = <<>>
    BY StreamNone
  <1>3. Stream(BOOLEAN, marks, <<>>) <=> marks = <<>>
    <2> DEFINE B == BOOLEAN
    <2> HIDE DEF B
    <2>1. Stream(B, marks, <<>>) <=> marks = <<>>
      BY StreamNone
    <2> QED BY <2>1 DEF B
  <1> QED BY <1>1, <1>2, <1>3, Zenon DEF UnderWay

LEMMA UnderWaySend ==
  ASSUME NEW words, NEW marks, NEW msgs \in Seq(Seq(W32)), UnderWay(words, marks, msgs),
         NEW m \in Seq(W32)
  PROVE  UnderWay(words \o m, marks \o Marks(m), Append(msgs, m))
  <1> DEFINE B == BOOLEAN
             before == MarksOf(msgs)
             after == MarksOf(Append(msgs, m))
             s == Marks(m)
  <1>1. /\ before \in Seq(Seq(B)) /\ Len(before) = Len(msgs)
        /\ \A i \in 1 .. Len(msgs) : before[i] = Marks(msgs[i])
    BY MarksSeq, Zenon
  <1>2. Append(msgs, m) \in Seq(Seq(W32)) /\ Len(msgs) \in Nat
        /\ Len(Append(msgs, m)) = Len(msgs) + 1
        /\ \A i \in 1 .. Len(msgs) : Append(msgs, m)[i] = msgs[i]
        /\ Append(msgs, m)[Len(msgs) + 1] = m
    OBVIOUS
  <1>3. /\ after \in Seq(Seq(B)) /\ Len(after) = Len(Append(msgs, m))
        /\ \A i \in 1 .. Len(Append(msgs, m)) : after[i] = Marks(Append(msgs, m)[i])
    BY <1>2, MarksSeq, Zenon
  <1>4. s \in Seq(B)
    BY MarksForm, Zenon
  <1> DEFINE more == Append(before, s)
  <1>5. after = more
    <2>1. /\ Len(after) = Len(msgs) + 1
          /\ \A i \in 1 .. Len(msgs) : after[i] = before[i]
          /\ after[Len(msgs) + 1] = s
      <3>1. Len(msgs) + 1 \in 1 .. Len(Append(msgs, m))
        BY <1>2
      <3>2. \A i \in 1 .. Len(msgs) : i \in 1 .. Len(Append(msgs, m))
        BY <1>2
      <3>3. Len(after) = Len(msgs) + 1
        BY <1>2, <1>3, Zenon
      <3>4. \A i \in 1 .. Len(msgs) : after[i] = before[i]
        BY <1>1, <1>2, <1>3, <3>2, Zenon
      <3>5. after[Len(msgs) + 1] = s
        <4>1. after[Len(msgs) + 1] = Marks(Append(msgs, m)[Len(msgs) + 1])
          BY <1>3, <3>1, Zenon
        <4>2. Append(msgs, m)[Len(msgs) + 1] = m
          BY <1>2
        <4> QED BY <4>1, <4>2, Zenon
      <3> QED BY <3>3, <3>4, <3>5, Zenon
    <2> HIDE DEF B, before, after, s
    <2>2. /\ more \in Seq(Seq(B)) /\ Len(more) = Len(msgs) + 1
          /\ \A i \in 1 .. Len(msgs) : more[i] = before[i]
          /\ more[Len(msgs) + 1] = s
      BY <1>1, <1>4
    <2> HIDE DEF more
    <2>3. ASSUME NEW i \in 1 .. Len(after) PROVE after[i] = more[i]
      <3>1. i \in 1 .. Len(msgs) \/ i = Len(msgs) + 1
        BY <1>2, <2>1
      <3> QED BY <2>1, <2>2, <3>1, Zenon
    <2> QED BY <1>3, <2>1, <2>2, <2>3, SeqEqual
  <1>6. Stream(W32, words \o m, Append(msgs, m))
    BY StreamAppend, Zenon DEF UnderWay
  <1>7. Stream(B, marks \o s, more)
    <2>1. Stream(B, marks, before)
      BY Zenon DEF UnderWay
    <2> HIDE DEF B, before, s
    <2> QED BY <1>1, <1>4, <2>1, StreamAppend, Zenon
  <1> QED BY <1>5, <1>6, <1>7, Zenon DEF UnderWay

LEMMA UnderWayHead ==
  ASSUME NEW words, NEW marks, NEW msgs \in Seq(Seq(W32)), UnderWay(words, marks, msgs),
         msgs # <<>>
  PROVE  \E rest \in Seq(W32) : \E others \in Seq(BOOLEAN) :
            /\ words = msgs[1] \o rest /\ marks = Marks(msgs[1]) \o others
            /\ UnderWay(rest, others, Tail(msgs))
  <1> DEFINE B == BOOLEAN
             before == MarksOf(msgs)
             after == MarksOf(Tail(msgs))
  <1>1. /\ before \in Seq(Seq(B)) /\ Len(before) = Len(msgs)
        /\ \A i \in 1 .. Len(msgs) : before[i] = Marks(msgs[i])
    BY MarksSeq, Zenon
  <1>2. /\ Tail(msgs) \in Seq(Seq(W32)) /\ Len(msgs) \in Nat /\ 1 \in 1 .. Len(msgs)
        /\ Len(Tail(msgs)) = Len(msgs) - 1
        /\ \A i \in 1 .. Len(msgs) - 1 : /\ Tail(msgs)[i] = msgs[i + 1]
                                         /\ i + 1 \in 1 .. Len(msgs)
    OBVIOUS
  <1>3. /\ after \in Seq(Seq(B)) /\ Len(after) = Len(Tail(msgs))
        /\ \A i \in 1 .. Len(Tail(msgs)) : after[i] = Marks(Tail(msgs)[i])
    BY <1>2, MarksSeq, Zenon
  <1> DEFINE less == Tail(before)
  <1>4. after = less
    <2>1. Len(after) = Len(msgs) - 1 /\ \A i \in 1 .. Len(msgs) - 1 : after[i] = before[i + 1]
      BY <1>1, <1>2, <1>3, Zenon
    <2> HIDE DEF B, before, after
    <2>2. /\ less \in Seq(Seq(B)) /\ Len(less) = Len(msgs) - 1
          /\ \A i \in 1 .. Len(msgs) - 1 : less[i] = before[i + 1]
      BY <1>1, <1>2
    <2> HIDE DEF less
    <2>3. \A i \in 1 .. Len(after) : after[i] = less[i]
      BY <2>1, <2>2, Zenon
    <2> QED BY <1>3, <2>1, <2>2, <2>3, SeqEqual
  <1>5. PICK rest \in Seq(W32) : words = msgs[1] \o rest /\ Stream(W32, rest, Tail(msgs))
    BY StreamHead, Zenon DEF UnderWay
  <1>6. \E others \in Seq(B) : marks = before[1] \o others /\ Stream(B, others, less)
    <2>1. Stream(B, marks, before)
      BY Zenon DEF UnderWay
    <2> HIDE DEF B, before
    <2>2. before # <<>>
      BY <1>1, <1>2
    <2> QED BY <1>1, <2>1, <2>2, StreamHead, Zenon
  <1>7. PICK others \in Seq(B) : marks = before[1] \o others /\ Stream(B, others, less)
    BY <1>6
  <1>8. before[1] = Marks(msgs[1])
    BY <1>1, <1>2, Zenon
  <1> QED BY <1>4, <1>5, <1>7, <1>8, Zenon DEF UnderWay

-----------------------------------------------------------------------------
(***************************************************************************)
(* The reply of a call stands among the reports not yet shown.             *)
(***************************************************************************)
Put(s, k, x) ==
    [i \in 1 .. Len(s) + 1 |-> IF i < k THEN s[i] ELSE IF i = k THEN x ELSE s[i - 1]]

\* p is s with x put at k.
IsPut(p, T, s, k, x) ==
    /\ p \in Seq(T) /\ Len(p) = Len(s) + 1 /\ p # <<>>
    /\ \A i \in 1 .. Len(s) + 1 : /\ i < k => p[i] = s[i]
                                  /\ i = k => p[i] = x
                                  /\ i > k => p[i] = s[i - 1]

LEMMA PutForm ==
  ASSUME NEW T, NEW s \in Seq(T), NEW x \in T, NEW k \in 1 .. Len(s) + 1
  PROVE  IsPut(Put(s, k, x), T, s, k, x)
  <1> DEFINE p == Put(s, k, x)
             n == Len(s) + 1
  <1>1. Len(s) \in Nat /\ n \in Nat /\ n >= 1
    OBVIOUS
  <1>2. \A i \in 1 .. n : /\ i < k => p[i] = s[i]
                          /\ i = k => p[i] = x
                          /\ i > k => p[i] = s[i - 1]
    <2> TAKE i \in 1 .. n
    <2>1. p[i] = IF i < k THEN s[i] ELSE IF i = k THEN x ELSE s[i - 1]
      BY Zenon DEF Put
    <2> HIDE DEF p
    <2> QED BY <1>1, <2>1
  <1>3. \A i \in 1 .. n : p[i] \in T
    <2> TAKE i \in 1 .. n
    <2>1. CASE i < k
      <3>1. i \in 1 .. Len(s)
        BY <1>1, <2>1
      <3> HIDE DEF p, n
      <3> QED BY <1>2, <2>1, <3>1
    <2>2. CASE i = k
      BY <1>2, <2>2, Zenon
    <2>3. CASE i > k
      <3>1. i - 1 \in 1 .. Len(s)
        BY <1>1, <2>3
      <3> HIDE DEF p, n
      <3> QED BY <1>2, <2>3, <3>1
    <2> QED BY <1>1, <2>1, <2>2, <2>3
  <1>4. p = [i \in 1 .. n |-> p[i]]
    BY Zenon DEF Put
  <1> HIDE DEF p
  <1>5. p \in Seq(T) /\ Len(p) = n /\ p # <<>>
    <2> HIDE DEF n
    <2>1. p \in [1 .. n -> T]
      BY <1>3, <1>4, Zenon
    <2> QED BY <1>1, <2>1
  <1> QED BY <1>2, <1>5, Zenon DEF p, IsPut

LEMMA PutLast ==
  ASSUME NEW T, NEW s \in Seq(T), NEW x \in T
  PROVE  Put(s, Len(s) + 1, x) = Append(s, x) /\ Len(s) + 1 \in 1 .. Len(s) + 1
  <1> DEFINE k == Len(s) + 1
             a == Put(s, k, x)
             b == Append(s, x)
  <1>1. Len(s) \in Nat /\ k \in 1 .. Len(s) + 1
    OBVIOUS
  <1>2. IsPut(a, T, s, k, x)
    BY <1>1, PutForm, Zenon
  <1> HIDE DEF a
  <1>3. b \in Seq(T) /\ Len(b) = Len(a) /\ \A i \in 1 .. Len(a) : a[i] = b[i]
    BY <1>1, <1>2 DEF IsPut
  <1>4. a = b
    BY <1>2, <1>3, SeqEqual DEF IsPut
  <1> QED BY <1>1, <1>4 DEF a

LEMMA PutAppend ==
  ASSUME NEW T, NEW s \in Seq(T), NEW x \in T, NEW k \in 1 .. Len(s) + 1, NEW y \in T
  PROVE  /\ Append(Put(s, k, x), y) = Put(Append(s, y), k, x)
         /\ k \in 1 .. Len(Append(s, y)) + 1
  <1> DEFINE p == Put(s, k, x)
             q == Append(s, y)
             a == Append(p, y)
             b == Put(q, k, x)
  <1>1. /\ Len(s) \in Nat /\ q \in Seq(T) /\ Len(q) = Len(s) + 1
        /\ k \in 1 .. Len(q) + 1 /\ q[Len(s) + 1] = y
        /\ \A i \in 1 .. Len(s) : q[i] = s[i]
    OBVIOUS
  <1>2. /\ p \in Seq(T) /\ Len(p) = Len(s) + 1 /\ p # <<>>
        /\ \A i \in 1 .. Len(s) + 1 : /\ i < k => p[i] = s[i]
                                      /\ i = k => p[i] = x
                                      /\ i > k => p[i] = s[i - 1]
    <2>1. IsPut(p, T, s, k, x)
      BY PutForm, Zenon
    <2> QED BY <2>1, Zenon DEF IsPut
  <1> HIDE DEF p, q
  <1>3. /\ b \in Seq(T) /\ Len(b) = Len(q) + 1
        /\ \A i \in 1 .. Len(q) + 1 : /\ i < k => b[i] = q[i]
                                      /\ i = k => b[i] = x
                                      /\ i > k => b[i] = q[i - 1]
    <2>1. IsPut(b, T, q, k, x)
      BY <1>1, PutForm, Zenon
    <2> HIDE DEF b
    <2> QED BY <2>1, Zenon DEF IsPut
  <1> HIDE DEF b
  <1>4. /\ a \in Seq(T) /\ Len(a) = Len(s) + 2 /\ a[Len(s) + 2] = y
        /\ \A i \in 1 .. Len(s) + 1 : a[i] = p[i]
    BY <1>1, <1>2
  <1> HIDE DEF a
  <1>5. ASSUME NEW i \in 1 .. Len(s) + 2 PROVE a[i] = b[i]
    <2>1. CASE i = Len(s) + 2
      <3>1. i \in 1 .. Len(q) + 1 /\ i > k /\ i - 1 = Len(s) + 1
        BY <1>1, <2>1
      <3>2. a[i] = y
        BY <1>4, <2>1, Zenon
      <3>3. b[i] = q[i - 1]
        BY <1>3, <3>1, Zenon
      <3> QED BY <1>1, <3>1, <3>2, <3>3, Zenon
    <2>2. CASE i < k
      <3>1. i \in 1 .. Len(s) + 1 /\ i \in 1 .. Len(s) /\ i \in 1 .. Len(q) + 1
        BY <1>1, <2>2
      <3> QED BY <1>1, <1>2, <1>3, <1>4, <2>2, <3>1, Zenon
    <2>3. CASE i = k
      <3>1. i \in 1 .. Len(s) + 1 /\ i \in 1 .. Len(q) + 1
        BY <1>1, <2>3
      <3> QED BY <1>2, <1>3, <1>4, <2>3, <3>1, Zenon
    <2>4. CASE i > k /\ i # Len(s) + 2
      <3>1. i \in 1 .. Len(s) + 1 /\ i - 1 \in 1 .. Len(s) /\ i \in 1 .. Len(q) + 1
        BY <1>1, <2>4
      <3>2. a[i] = p[i] /\ p[i] = s[i - 1]
        BY <1>2, <1>4, <2>4, <3>1, Zenon
      <3>3. b[i] = q[i - 1] /\ q[i - 1] = s[i - 1]
        BY <1>1, <1>3, <2>4, <3>1, Zenon
      <3> QED BY <3>2, <3>3, Zenon
    <2> QED BY <1>1, <2>1, <2>2, <2>3, <2>4
  <1>6. a = b
    <2>1. Len(a) = Len(b)
      BY <1>1, <1>3, <1>4
    <2>2. \A i \in 1 .. Len(a) : a[i] = b[i]
      BY <1>4, <1>5, Zenon
    <2> QED BY <1>3, <1>4, <2>1, <2>2, SeqEqual
  <1> QED BY <1>1, <1>6 DEF a, b, p, q

LEMMA PutFirst ==
  ASSUME NEW T, NEW s \in Seq(T), NEW x \in T
  PROVE  Put(s, 1, x)[1] = x /\ Tail(Put(s, 1, x)) = s
  <1> DEFINE p == Put(s, 1, x)
             a == Tail(p)
  <1>1. Len(s) \in Nat /\ 1 \in 1 .. Len(s) + 1
    OBVIOUS
  <1>2. /\ p \in Seq(T) /\ Len(p) = Len(s) + 1 /\ p # <<>>
        /\ \A i \in 1 .. Len(s) + 1 : /\ i < 1 => p[i] = s[i]
                                      /\ i = 1 => p[i] = x
                                      /\ i > 1 => p[i] = s[i - 1]
    <2>1. IsPut(p, T, s, 1, x)
      BY <1>1, PutForm, Zenon
    <2> QED BY <2>1, Zenon DEF IsPut
  <1> HIDE DEF p
  <1>3. /\ a \in Seq(T) /\ Len(a) = Len(s)
        /\ \A i \in 1 .. Len(s) : a[i] = p[i + 1]
    BY <1>1, <1>2
  <1>4. \A i \in 1 .. Len(a) : a[i] = s[i]
    <2> HIDE DEF a
    <2> TAKE i \in 1 .. Len(a)
    <2>1. i + 1 \in 1 .. Len(s) + 1 /\ i + 1 > 1 /\ i + 1 - 1 = i /\ i \in 1 .. Len(s)
      BY <1>1, <1>3
    <2> QED BY <1>2, <1>3, <2>1
  <1>5. a = s
    BY <1>3, <1>4, SeqEqual
  <1> QED BY <1>1, <1>2, <1>5 DEF p

LEMMA PutTail ==
  ASSUME NEW T, NEW s \in Seq(T), NEW x \in T, NEW k \in 2 .. Len(s) + 1
  PROVE  /\ Put(s, k, x)[1] = s[1] /\ s # <<>>
         /\ Tail(Put(s, k, x)) = Put(Tail(s), k - 1, x)
         /\ k - 1 \in 1 .. Len(Tail(s)) + 1
  <1> DEFINE p == Put(s, k, x)
             q == Tail(s)
             a == Tail(p)
             b == Put(q, k - 1, x)
  <1>1. /\ Len(s) \in Nat /\ k \in 1 .. Len(s) + 1 /\ s # <<>> /\ 1 \in 1 .. Len(s) + 1
        /\ q \in Seq(T) /\ Len(q) = Len(s) - 1 /\ k - 1 \in 1 .. Len(q) + 1
        /\ \A i \in 1 .. Len(s) - 1 : q[i] = s[i + 1]
    OBVIOUS
  <1>2. /\ p \in Seq(T) /\ Len(p) = Len(s) + 1 /\ p # <<>>
        /\ \A i \in 1 .. Len(s) + 1 : /\ i < k => p[i] = s[i]
                                      /\ i = k => p[i] = x
                                      /\ i > k => p[i] = s[i - 1]
    <2>1. IsPut(p, T, s, k, x)
      BY <1>1, PutForm, Zenon
    <2> QED BY <2>1, Zenon DEF IsPut
  <1> HIDE DEF p, q
  <1>3. /\ b \in Seq(T) /\ Len(b) = Len(q) + 1
        /\ \A i \in 1 .. Len(q) + 1 : /\ i < k - 1 => b[i] = q[i]
                                      /\ i = k - 1 => b[i] = x
                                      /\ i > k - 1 => b[i] = q[i - 1]
    <2>1. IsPut(b, T, q, k - 1, x)
      BY <1>1, PutForm, Zenon
    <2> HIDE DEF b
    <2> QED BY <2>1, Zenon DEF IsPut
  <1> HIDE DEF b
  <1>4. /\ a \in Seq(T) /\ Len(a) = Len(s)
        /\ \A i \in 1 .. Len(s) : a[i] = p[i + 1]
    BY <1>1, <1>2
  <1> HIDE DEF a
  <1>5. ASSUME NEW i \in 1 .. Len(s) PROVE a[i] = b[i]
    <2>1. i \in 1 .. Len(q) + 1 /\ i + 1 \in 1 .. Len(s) + 1
      BY <1>1
    <2>2. CASE i < k - 1
      <3>1. i + 1 < k /\ i \in 1 .. Len(s) - 1
        BY <1>1, <2>2
      <3>2. a[i] = p[i + 1] /\ p[i + 1] = s[i + 1]
        BY <1>2, <1>4, <2>1, <3>1
      <3>3. b[i] = q[i] /\ q[i] = s[i + 1]
        BY <1>1, <1>3, <2>1, <2>2, <3>1, Zenon
      <3> QED BY <3>2, <3>3, Zenon
    <2>3. CASE i = k - 1
      <3>1. i + 1 = k
        BY <2>3
      <3> QED BY <1>2, <1>3, <1>4, <2>1, <2>3, <3>1, Zenon
    <2>4. CASE i > k - 1
      <3>1. i + 1 > k /\ i - 1 \in 1 .. Len(s) - 1 /\ i + 1 - 1 = i /\ i - 1 + 1 = i
        BY <1>1, <2>4
      <3>2. a[i] = p[i + 1] /\ p[i + 1] = s[i + 1 - 1]
        <4>1. a[i] = p[i + 1]
          BY <1>4, Zenon
        <4>2. p[i + 1] = s[i + 1 - 1]
          BY <1>2, <2>1, <3>1
        <4> QED BY <4>1, <4>2
      <3>3. b[i] = q[i - 1] /\ q[i - 1] = s[i - 1 + 1]
        BY <1>1, <1>3, <2>1, <2>4, <3>1, Zenon
      <3> QED BY <3>1, <3>2, <3>3, Zenon
    <2> QED BY <1>1, <2>2, <2>3, <2>4
  <1>6. a = b
    <2>1. Len(a) = Len(b) /\ \A i \in 1 .. Len(a) : a[i] = b[i]
      BY <1>1, <1>3, <1>4, <1>5
    <2> QED BY <1>3, <1>4, <2>1, SeqEqual
  <1>7. p[1] = s[1]
    BY <1>1, <1>2
  <1> QED BY <1>1, <1>6, <1>7 DEF a, b, p, q

\* The messages of the reports es.
Reports(es) == [i \in 1 .. Len(es) |-> Report(es[i])]

LEMMA ReportsForm ==
  ASSUME NEW es \in Seq(Events)
  PROVE  /\ Reports(es) \in Seq(Seq(W32)) /\ Len(Reports(es)) = Len(es)
         /\ \A i \in 1 .. Len(es) : Reports(es)[i] = Report(es[i])
  <1>1. Len(es) \in Nat /\ \A i \in 1 .. Len(es) : es[i] \in Events
    OBVIOUS
  <1>2. \A e \in Events : Report(e) \in Seq(W32)
    BY ReportForm, Zenon DEF Framed
  <1> DEFINE S == Seq(W32)
             s == Reports(es)
  <1>3. s \in [1 .. Len(es) -> S] /\ \A i \in 1 .. Len(es) : s[i] = Report(es[i])
    BY <1>1, <1>2, Zenon DEF Reports
  <1> HIDE DEF S, s
  <1>4. s \in Seq(S) /\ Len(s) = Len(es)
    BY <1>1, <1>3
  <1> QED BY <1>3, <1>4, Zenon DEF S, s

LEMMA ReportsNone == Reports(<<>>) = <<>>
  BY DEF Reports

LEMMA ReportsAppend ==
  ASSUME NEW es \in Seq(Events), NEW e \in Events
  PROVE  /\ Reports(Append(es, e)) = Append(Reports(es), Report(e))
         /\ Report(e) \in Seq(W32)
  <1> DEFINE more == Append(es, e)
             s == Reports(es)
             a == Reports(more)
             m == Report(e)
             b == Append(s, m)
  <1>1. /\ more \in Seq(Events) /\ Len(es) \in Nat /\ Len(more) = Len(es) + 1
        /\ more[Len(es) + 1] = e /\ \A i \in 1 .. Len(es) : more[i] = es[i]
    OBVIOUS
  <1> HIDE DEF more
  <1>2. /\ s \in Seq(Seq(W32)) /\ Len(s) = Len(es)
        /\ \A i \in 1 .. Len(es) : s[i] = Report(es[i])
    BY ReportsForm, Zenon
  <1>3. /\ a \in Seq(Seq(W32)) /\ Len(a) = Len(more)
        /\ \A i \in 1 .. Len(more) : a[i] = Report(more[i])
    BY <1>1, ReportsForm, Zenon
  <1>4. m \in Seq(W32)
    BY ReportForm, Zenon DEF Framed
  <1> HIDE DEF s, a
  <1>5. ASSUME NEW i \in 1 .. Len(more) PROVE a[i] = b[i]
    <2>1. CASE i \in 1 .. Len(es)
      <3>1. a[i] = Report(es[i]) /\ s[i] = Report(es[i])
        BY <1>1, <1>2, <1>3, <2>1, Zenon
      <3> HIDE DEF m
      <3>2. b[i] = s[i]
        BY <1>1, <1>2, <1>4, <2>1
      <3> QED BY <3>1, <3>2, Zenon
    <2>2. CASE i = Len(es) + 1
      <3>1. a[i] = m
        BY <1>1, <1>3, <2>2, Zenon
      <3> HIDE DEF m
      <3>2. b[i] = m
        BY <1>1, <1>2, <1>4, <2>2
      <3> QED BY <3>1, <3>2, Zenon
    <2>3. i \in 1 .. Len(es) \/ i = Len(es) + 1
      BY <1>1
    <2> QED BY <2>1, <2>2, <2>3, Zenon
  <1>6. b \in Seq(Seq(W32)) /\ Len(b) = Len(es) + 1
    <2> HIDE DEF m
    <2> QED BY <1>1, <1>2, <1>4
  <1> HIDE DEF b
  <1>7. a = b
    <2>1. Len(a) = Len(b) /\ \A i \in 1 .. Len(a) : a[i] = b[i]
      BY <1>1, <1>3, <1>5, <1>6, Zenon
    <2> QED BY <1>3, <1>6, <2>1, SeqEqual
  <1> QED BY <1>4, <1>7, Zenon DEF a, b, s, m, more

LEMMA ReportsTail ==
  ASSUME NEW es \in Seq(Events), es # <<>>
  PROVE  /\ Reports(es) # <<>> /\ Reports(es)[1] = Report(Head(es)) /\ Head(es) \in Events
         /\ Tail(Reports(es)) = Reports(Tail(es)) /\ Tail(es) \in Seq(Events)
  <1> DEFINE less == Tail(es)
             s == Reports(es)
             a == Reports(less)
             b == Tail(s)
  <1>1. /\ less \in Seq(Events) /\ Len(es) \in Nat /\ Len(less) = Len(es) - 1
        /\ Head(es) = es[1] /\ 1 \in 1 .. Len(es) /\ es[1] \in Events
        /\ \A i \in 1 .. Len(es) - 1 : less[i] = es[i + 1] /\ i + 1 \in 1 .. Len(es)
    OBVIOUS
  <1> HIDE DEF less
  <1>2. /\ s \in Seq(Seq(W32)) /\ Len(s) = Len(es)
        /\ \A i \in 1 .. Len(es) : s[i] = Report(es[i])
    BY ReportsForm, Zenon
  <1>3. /\ a \in Seq(Seq(W32)) /\ Len(a) = Len(less)
        /\ \A i \in 1 .. Len(less) : a[i] = Report(less[i])
    BY <1>1, ReportsForm, Zenon
  <1>4. s[1] = Report(Head(es))
    BY <1>1, <1>2, Zenon
  <1> HIDE DEF s, a
  <1>5. s # <<>> /\ b \in Seq(Seq(W32)) /\ Len(b) = Len(es) - 1
        /\ \A i \in 1 .. Len(es) - 1 : b[i] = s[i + 1]
    BY <1>1, <1>2
  <1> HIDE DEF b
  <1>6. a = b
    <2>1. Len(a) = Len(b) /\ \A i \in 1 .. Len(a) : a[i] = b[i]
      BY <1>1, <1>2, <1>3, <1>5, Zenon
    <2> QED BY <1>3, <1>5, <2>1, SeqEqual
  <1> QED BY <1>1, <1>4, <1>5, <1>6, Zenon DEF a, b, s, less

-----------------------------------------------------------------------------
(***************************************************************************)
(* What is under way to the client when both ends agree: a message for     *)
(* each report not yet shown, in order, and somewhere among them the reply *)
(* of an executed call that has not returned.                              *)
(***************************************************************************)
InOrder(words, marks, es) ==
    IF busy /\ executed # <<>>
    THEN \E k \in 1 .. Len(Reports(es)) + 1 :
            UnderWay(words, marks, Put(Reports(es), k, Reply(call.f, executed[2])))
    ELSE UnderWay(words, marks, Reports(es))

\* What waits for the server is the request of the call it has not executed.
Sent ==
    /\ busy => call \in Calls
    /\ up = IF busy /\ executed = <<>> THEN Request(call) ELSE <<>>
    /\ executed # <<>> => executed[1].f = DllFunction(call.f)

LEMMA OwnCode ==
  ASSUME Functions \subseteq Cases, NEW f \in Functions
  PROVE  f \in Cases /\ CallCode(f) = f
  BY FunctionsKnown, CallCodes, Zenon

\* There is a case for every request.
LEMMA AllServed ==
  ASSUME Functions \subseteq Cases, Sent
  PROVE  ~ServeNothing
  <1> SUFFICES ASSUME ServeNothing PROVE FALSE
    OBVIOUS
  <1>1. up # <<>> /\ \A f \in Cases : ~Served(f)
    BY Zenon DEF ServeNothing, Waited
  <1>2. call \in Calls /\ up = Request(call)
    BY <1>1, Zenon DEF Sent
  <1>3. call.f \in Cases /\ CallCode(call.f) = call.f
    BY <1>2, CallForm, OwnCode, Zenon
  <1>4. up \in Seq(Word) /\ Len(up) >= 2 /\ up[2] = CodeWord[call.f]
    BY <1>2, <1>3, RequestParts, Zenon
  <1> QED BY <1>1, <1>3, <1>4, ServedCode, Zenon

\* The request of the call is the one served, and nothing is left of it.
LEMMA ServesCall ==
  ASSUME Functions \subseteq Cases, Sent, Serve
  PROVE  /\ busy /\ executed = <<>> /\ call \in Calls
         /\ LET taken == ReadFields(ServeFormat(call.f).reads,
                                    Fields(CallFormat(call.f).request, call.args))
                asked == [f |-> DllFunction(call.f), args |-> taken.values]
            IN  /\ \E outs \in Outs(asked) :
                     /\ executed' = <<asked, outs>>
                     /\ Send(Reply(call.f, outs))
                     /\ registered' = IF call.f = SetConnStatus
                                      THEN taken.values[1] # 0 ELSE registered
                /\ up' = <<>>
  <1>1. up # <<>>
    BY Zenon DEF Serve, Waited
  <1>2. busy /\ executed = <<>> /\ call \in Calls /\ up = Request(call)
    BY <1>1, Zenon DEF Sent
  <1>3. PICK f \in Cases :
          /\ Served(f)
          /\ LET taken == ReadFields(ServeFormat(f).reads, From(up, 3))
                 asked == [f |-> DllFunction(f), args |-> taken.values]
             IN  \E outs \in Outs(asked) :
                   /\ executed' = <<asked, outs>>
                   /\ Send(Reply(f, outs))
                   /\ up' = taken.left
                   /\ registered' = IF f = SetConnStatus
                                    THEN taken.values[1] # 0 ELSE registered
    BY Zenon DEF Serve
  <1>4. f = call.f /\ From(up, 3) = Fields(CallFormat(call.f).request, call.args)
    <2>1. f = CallCode(call.f)
      BY <1>1, <1>2, <1>3, ServedCode, RequestParts, Zenon
    <2>2. CallCode(call.f) = call.f
      BY <1>2, CallForm, OwnCode, Zenon
    <2> QED BY <1>2, <2>1, <2>2, RequestParts, Zenon
  <1>5. ReadFields(ServeFormat(call.f).reads,
                   Fields(CallFormat(call.f).request, call.args)).left = <<>>
    <2>1. call.f \in Cases
      BY <1>2, CallForm, Zenon
    <2> QED BY <1>2, <2>1, RequestTaken
  <1> QED BY <1>2, <1>3, <1>4, <1>5, Zenon

LEMMA SentKept ==
  ASSUME Functions \subseteq Cases, Sent, [Next]_wireVars, ReadReply => executed # <<>>
  PROVE  Sent'
  <1>1. CASE Call
    <2>1. PICK c \in Calls : call' = c /\ up' = up \o Request(c)
      BY <1>1, Zenon DEF Call
    <2>2. up = <<>> /\ busy' = TRUE /\ executed' = <<>>
      BY <1>1, Zenon DEF Call, Sent
    <2>3. up' = Request(c)
      BY <2>1, <2>2, RequestParts, Zenon
    <2> QED BY <2>1, <2>2, <2>3, Zenon DEF Sent
  <1>2. CASE Serve
    <2>1. \E args : \E outs : executed' = <<[f |-> DllFunction(call.f), args |-> args], outs>>
      BY <1>2, ServesCall, Zenon
    <2>2. executed' # <<>> /\ executed'[1].f = DllFunction(call.f)
      BY <2>1
    <2>3. up' = <<>> /\ call \in Calls
      BY <1>2, ServesCall, Zenon
    <2>4. UNCHANGED <<call, busy>>
      BY <1>2, Zenon DEF Serve
    <2> QED BY <2>2, <2>3, <2>4, Zenon DEF Sent
  <1>3. CASE Push \/ ReadEvent \/ SkipEvent \/ ReadOther \/ UNCHANGED wireVars
    <2>1. UNCHANGED <<call, busy, executed, up>>
      BY <1>3, Zenon DEF Push, ReadEvent, SkipEvent, ReadOther, wireVars, rpcVars
    <2> QED BY <2>1, Zenon DEF Sent
  <1>4. CASE ReadReply
    <2>1. busy' = FALSE /\ UNCHANGED <<call, executed, up>>
      BY <1>4, Zenon DEF ReadReply
    <2> QED BY <1>4, <2>1, Zenon DEF Sent
  <1> QED BY <1>1, <1>2, <1>3, <1>4, AllServed, Zenon DEF Next

Agreed == AgreedValues /\ Functions \subseteq AgreedFunctions

LEMMA AgreedCode ==
  ASSUME Agreed
  PROVE  /\ Functions \subseteq Cases
         /\ \A f \in Functions : CallCode(f) = f
  BY AgreedCases, OwnCode, Zenon DEF Agreed

WireInv ==
    /\ TypeInv /\ Sent /\ ~fault
    /\ events \in Seq(Events)
    /\ executed # <<>> => \E outs \in Outs(call) : executed = <<call, outs>>
    /\ registered \/ events # <<>> \/ (busy /\ call.f = SetConnStatus) => handler
    /\ InOrder(down, heads, events)

\* The reply of an executed call: its message, and what it gave.
LEMMA ReplyOf ==
  ASSUME Agreed, WireInv, busy, executed # <<>>
  PROVE  /\ call \in Calls /\ call.f \in Functions /\ call.f \in AgreedFunctions
         /\ executed[2] \in Outs(call) /\ executed = <<call, executed[2]>>
         /\ Reply(call.f, executed[2]) \in Seq(W32)
  <1>1. call \in Calls /\ call.f \in Functions
    BY Zenon DEF WireInv, TypeInv, Sent
  <1>2. call.f \in AgreedFunctions
    BY <1>1, Zenon DEF Agreed
  <1>3. PICK outs \in Outs(call) : executed = <<call, outs>>
    BY Zenon DEF WireInv
  <1>4. executed[2] = outs
    BY <1>3
  <1>5. Framed(Reply(call.f, outs), call.f, Fields(ServeFormat(call.f).writes, outs))
    BY <1>1, <1>2, <1>3, OutsKept, Zenon DEF Agreed
  <1> QED BY <1>1, <1>2, <1>3, <1>4, <1>5, Zenon DEF Framed

\* The message that comes first.
ReportFirst(rest, others) ==
    /\ events # <<>>
    /\ down = Report(Head(events)) \o rest /\ heads = Marks(Report(Head(events))) \o others
    /\ InOrder(rest, others, Tail(events))

ReplyFirst(rest, others) ==
    /\ busy /\ executed # <<>>
    /\ down = Reply(call.f, executed[2]) \o rest
    /\ heads = Marks(Reply(call.f, executed[2])) \o others
    /\ UnderWay(rest, others, Reports(events))

LEMMA FirstMessage ==
  ASSUME Agreed, WireInv, down # <<>>
  PROVE  \E rest \in Seq(W32) : \E others \in Seq(BOOLEAN) :
            ReportFirst(rest, others) \/ ReplyFirst(rest, others)
  <1> DEFINE rs == Reports(events)
             m == Reply(call.f, executed[2])
             S == Seq(W32)
             First(msgs, rest, others) ==
                 /\ down = msgs[1] \o rest /\ heads = Marks(msgs[1]) \o others
                 /\ UnderWay(rest, others, Tail(msgs))
  <1>1. events \in Seq(Events) /\ InOrder(down, heads, events)
    BY Zenon DEF WireInv
  <1>2. rs \in Seq(S) /\ Len(rs) = Len(events) /\ (events = <<>> => rs = <<>>)
    BY <1>1, ReportsForm, ReportsNone, Zenon
  <1>3. ASSUME events # <<>>
        PROVE  rs # <<>> /\ rs[1] = Report(Head(events)) /\ Tail(rs) = Reports(Tail(events))
    BY <1>1, <1>3, ReportsTail, Zenon
  <1>4. ASSUME NEW msgs \in Seq(S), UnderWay(down, heads, msgs), msgs # <<>>
        PROVE  \E rest \in Seq(W32) : \E others \in Seq(BOOLEAN) : First(msgs, rest, others)
    BY <1>4, UnderWayHead, Zenon
  <1>5. CASE ~(busy /\ executed # <<>>)
    <2>1. UnderWay(down, heads, rs)
      BY <1>1, <1>5, Zenon DEF InOrder
    <2>2. rs # <<>>
      BY <2>1, UnderWayNone, Zenon
    <2>3. events # <<>>
      BY <1>2, <2>2, Zenon
    <2>4. PICK rest \in Seq(W32) : \E others \in Seq(BOOLEAN) : First(rs, rest, others)
      BY <1>2, <1>4, <2>1, <2>2, Zenon
    <2>5. PICK others \in Seq(BOOLEAN) : First(rs, rest, others)
      BY <2>4, Zenon
    <2>6. InOrder(rest, others, Tail(events))
      BY <1>3, <1>5, <2>3, <2>5, Zenon DEF InOrder
    <2> QED BY <1>3, <2>3, <2>5, <2>6, Zenon DEF ReportFirst
  <1>6. CASE busy /\ executed # <<>>
    <2>1. PICK k \in 1 .. Len(rs) + 1 : UnderWay(down, heads, Put(rs, k, m))
      BY <1>1, <1>6, Zenon DEF InOrder
    <2>2. m \in S
      BY <1>6, ReplyOf, Zenon
    <2> DEFINE p == Put(rs, k, m)
    <2>3. p \in Seq(S) /\ p # <<>>
      <3>1. IsPut(p, S, rs, k, m)
        BY <1>2, <2>2, PutForm, Zenon
      <3> HIDE DEF p
      <3> QED BY <3>1, Zenon DEF IsPut
    <2>4. PICK rest \in Seq(W32) : \E others \in Seq(BOOLEAN) : First(p, rest, others)
      BY <1>4, <2>1, <2>3, Zenon
    <2>5. PICK others \in Seq(BOOLEAN) : First(p, rest, others)
      BY <2>4, Zenon
    <2>6. CASE k = 1
      <3>1. p[1] = m /\ Tail(p) = rs
        <4> HIDE DEF rs, m, S
        <4>1. Put(rs, 1, m)[1] = m
          BY <1>2, <2>2, PutFirst, Zenon
        <4>2. Tail(Put(rs, 1, m)) = rs
          BY <1>2, <2>2, PutFirst, Zenon
        <4> QED BY <2>6, <4>1, <4>2, Zenon
      <3> QED BY <1>6, <2>5, <3>1, Zenon DEF ReplyFirst
    <2>7. CASE k # 1
      <3>1. k \in 2 .. Len(rs) + 1
        <4> HIDE DEF rs, S
        <4> QED BY <1>2, <2>7
      <3>2. /\ p[1] = rs[1] /\ rs # <<>> /\ Tail(p) = Put(Tail(rs), k - 1, m)
            /\ k - 1 \in 1 .. Len(Tail(rs)) + 1
        <4> HIDE DEF rs, m, S
        <4>1. p[1] = rs[1] /\ rs # <<>>
          BY <1>2, <2>2, <3>1, PutTail, Zenon
        <4>2. Tail(p) = Put(Tail(rs), k - 1, m)
          BY <1>2, <2>2, <3>1, PutTail, Zenon
        <4>3. k - 1 \in 1 .. Len(Tail(rs)) + 1
          BY <1>2, <2>2, <3>1, PutTail, Zenon
        <4> QED BY <4>1, <4>2, <4>3
      <3>3. events # <<>>
        BY <1>2, <3>2, Zenon
      <3>4. /\ k - 1 \in 1 .. Len(Reports(Tail(events))) + 1
            /\ UnderWay(rest, others, Put(Reports(Tail(events)), k - 1, m))
        BY <1>3, <2>5, <3>2, <3>3, Zenon
      <3>5. InOrder(rest, others, Tail(events))
        BY <1>6, <3>4, Zenon DEF InOrder
      <3> QED BY <1>3, <2>5, <3>2, <3>3, <3>5, Zenon DEF ReportFirst
    <2> QED BY <2>6, <2>7
  <1> QED BY <1>5, <1>6

LEMMA ReportRead ==
  ASSUME Agreed, WireInv, NEW rest \in Seq(W32), NEW others \in Seq(BOOLEAN),
         ReportFirst(rest, others), NEW n \in 1 .. Len(down), Arrived(n)
  PROVE  /\ Code(n) = CodeWord[ConnStatus] /\ handler
         /\ Leave(ReadFields(StatusRead, Payload(n)).left, n) =>
                /\ ReadFields(StatusRead, Payload(n)).values = Head(events)
                /\ down' = rest /\ heads' = others
  <1> DEFINE e == Head(events)
             m == Report(e)
  <1>1. events \in Seq(Events) /\ events # <<>> /\ handler
    BY Zenon DEF WireInv, ReportFirst
  <1>2. e \in Events
    BY <1>1
  <1>3. ConnStatus \in ToSet(Enumerators)
    BY CasesEnumerated, Zenon DEF CallbackCodes
  <1> HIDE DEF e
  <1>4. PICK S : e \in Seq(S)
    BY <1>2, ReportForm, Zenon
  <1>5. Framed(m, ConnStatus, Fields(StatusWrite, e))
    BY <1>2, ReportForm, Zenon
  <1>6. down = m \o rest /\ heads = Marks(m) \o others
    BY Zenon DEF ReportFirst, e
  <1>7. Code(n) = CodeWord[ConnStatus]
    BY <1>3, <1>5, <1>6, CodeFound, Zenon
  <1>8. AllKept(StatusWrite, StatusRead, e)
    BY <1>2, ReportKept, Zenon DEF Agreed
  <1>9. ASSUME Leave(ReadFields(StatusRead, Payload(n)).left, n)
        PROVE  /\ ReadFields(StatusRead, Payload(n)).values = e
               /\ down' = rest /\ heads' = others
    BY <1>3, <1>4, <1>5, <1>6, <1>8, <1>9, FirstTaken, Zenon
  <1> QED BY <1>1, <1>7, <1>9, Zenon DEF e

LEMMA ReplyRead ==
  ASSUME Agreed, WireInv, NEW rest \in Seq(W32), NEW others \in Seq(BOOLEAN),
         ReplyFirst(rest, others), NEW n \in 1 .. Len(down), Arrived(n)
  PROVE  /\ Code(n) = CodeWord[call.f] /\ call.f \in Functions
         /\ Leave(ReadFields(CallFormat(call.f).reply, Payload(n)).left, n) =>
                /\ ReadFields(CallFormat(call.f).reply, Payload(n)).values = executed[2]
                /\ down' = rest /\ heads' = others
  <1> DEFINE f == call.f
             outs == executed[2]
             m == Reply(f, outs)
             writes == ServeFormat(f).writes
             reads == CallFormat(f).reply
  <1>1. /\ f \in Functions /\ f \in AgreedFunctions /\ outs \in Outs(call)
        /\ f \in ToSet(Enumerators)
    <2>1. busy /\ executed # <<>>
      BY Zenon DEF ReplyFirst
    <2>2. f \in Functions /\ f \in AgreedFunctions /\ outs \in Outs(call)
      BY <2>1, ReplyOf, Zenon
    <2> QED BY <2>2, AgreedCases, CasesKnown, Zenon
  <1>2. /\ \E S : outs \in Seq(S)
        /\ AllKept(writes, reads, outs)
        /\ Framed(m, f, Fields(writes, outs))
    <2>1. call.f = f
      OBVIOUS
    <2> HIDE DEF f, outs
    <2> QED BY <1>1, <2>1, OutsKept, Zenon DEF Agreed
  <1>3. PICK S : outs \in Seq(S)
    BY <1>2, Zenon
  <1>4. down = m \o rest /\ heads = Marks(m) \o others
    BY Zenon DEF ReplyFirst
  <1> HIDE DEF f, outs, writes, reads, m
  <1>5. Code(n) = CodeWord[f]
    BY <1>1, <1>2, <1>4, CodeFound, Zenon
  <1>6. ASSUME Leave(ReadFields(reads, Payload(n)).left, n)
        PROVE  /\ ReadFields(reads, Payload(n)).values = outs
               /\ down' = rest /\ heads' = others
    BY <1>1, <1>2, <1>3, <1>4, <1>6, FirstTaken, Zenon
  <1> QED BY <1>1, <1>5, <1>6, Zenon DEF f, outs, reads

-----------------------------------------------------------------------------
(***************************************************************************)
(* The steps, when both ends agree.                                        *)
(***************************************************************************)

\* The DLL is asked for the call as it was made.
LEMMA CallServed ==
  ASSUME Agreed, WireInv, Serve
  PROVE  /\ busy /\ executed = <<>> /\ call \in Calls
         /\ \E outs \in Outs(call) :
               executed' = <<call, outs>> /\ Send(Reply(call.f, outs))
         /\ registered' => registered \/ call.f = SetConnStatus
  <1>1. Sent
    BY Zenon DEF WireInv
  <1>2. busy /\ executed = <<>> /\ call \in Calls
    BY <1>1, AgreedCode, ServesCall, Zenon
  <1>3. /\ call.f \in Functions /\ call.f \in AgreedFunctions
        /\ call = [f |-> call.f, args |-> call.args]
    BY <1>2, CallForm, Zenon DEF Agreed
  <1>4. ReadFields(ServeFormat(call.f).reads, Fields(CallFormat(call.f).request, call.args))
            = [values |-> call.args, left |-> <<>>]
    BY <1>2, <1>3, ArgsTaken, Zenon DEF Agreed
  <1> DEFINE taken == ReadFields(ServeFormat(call.f).reads,
                                 Fields(CallFormat(call.f).request, call.args))
             asked == [f |-> DllFunction(call.f), args |-> taken.values]
  <1>5. asked = call
    <2>1. taken.values = call.args
      BY <1>4
    <2>2. DllFunction(call.f) = call.f
      BY <1>3, AgreedFormats, Zenon
    <2> QED BY <1>3, <2>1, <2>2, Zenon
  <1>6. /\ \E outs \in Outs(asked) :
             /\ executed' = <<asked, outs>>
             /\ Send(Reply(call.f, outs))
             /\ registered' = IF call.f = SetConnStatus
                              THEN taken.values[1] # 0 ELSE registered
    BY <1>1, AgreedCode, ServesCall, Zenon
  <1> HIDE DEF asked, taken
  <1> QED BY <1>2, <1>5, <1>6, Zenon

LEMMA SomethingUnderWay ==
  ASSUME WireInv, NEW n \in 1 .. Len(down)
  PROVE  down # <<>>
  BY DEF WireInv, TypeInv, TypeOK

\* ReadEvent shows the first report not yet shown.
LEMMA EventTaken ==
  ASSUME Agreed, WireInv, ReadEvent
  PROVE  \E rest \in Seq(W32) : \E others \in Seq(BOOLEAN) :
            /\ ReportFirst(rest, others) /\ down' = rest /\ heads' = others
            /\ shown' = <<Head(events)>> /\ events' = Tail(events)
  <1>1. PICK n \in 1 .. Len(down) :
          /\ Arrived(n) /\ Code(n) = CodeWord[ConnStatus]
          /\ shown' = <<ReadFields(StatusRead, Payload(n)).values>>
          /\ Leave(ReadFields(StatusRead, Payload(n)).left, n)
    BY Zenon DEF ReadEvent
  <1>2. down # <<>>
    BY SomethingUnderWay
  <1>3. PICK rest \in Seq(W32) : \E others \in Seq(BOOLEAN) :
            ReportFirst(rest, others) \/ ReplyFirst(rest, others)
    BY <1>2, FirstMessage
  <1>4. PICK others \in Seq(BOOLEAN) : ReportFirst(rest, others) \/ ReplyFirst(rest, others)
    BY <1>3
  <1>5. ~ReplyFirst(rest, others)
    <2> SUFFICES ASSUME ReplyFirst(rest, others) PROVE FALSE
      OBVIOUS
    <2>1. Code(n) = CodeWord[call.f] /\ call.f \in Functions
      BY <1>1, ReplyRead, Zenon
    <2>2. CodeWord[ConnStatus] # CodeWord[call.f]
      BY <2>1, AgreedCode, CallbacksApart, Zenon
    <2> QED BY <1>1, <2>1, <2>2
  <1>6. ReportFirst(rest, others)
    BY <1>4, <1>5
  <1>7. /\ ReadFields(StatusRead, Payload(n)).values = Head(events)
        /\ down' = rest /\ heads' = others
    BY <1>1, <1>6, ReportRead, Zenon
  <1>8. events' = Tail(events)
    BY <1>6, Zenon DEF ReadEvent, ReportFirst
  <1> QED BY <1>1, <1>6, <1>7, <1>8, Zenon

\* ReadReply returns what the execution of the call gave.
LEMMA ReplyTaken ==
  ASSUME Agreed, WireInv, ReadReply
  PROVE  \E rest \in Seq(W32) : \E others \in Seq(BOOLEAN) :
            /\ ReplyFirst(rest, others) /\ down' = rest /\ heads' = others
            /\ returned' = <<executed[2]>>
  <1>1. PICK n \in 1 .. Len(down) :
          /\ Arrived(n) /\ Code(n) = CodeWord[CallCode(call.f)]
          /\ returned' = <<ReadFields(CallFormat(call.f).reply, Payload(n)).values>>
          /\ Leave(ReadFields(CallFormat(call.f).reply, Payload(n)).left, n)
    BY Zenon DEF ReadReply
  <1>2. down # <<>>
    BY SomethingUnderWay
  <1>3. PICK rest \in Seq(W32) : \E others \in Seq(BOOLEAN) :
            ReportFirst(rest, others) \/ ReplyFirst(rest, others)
    BY <1>2, FirstMessage
  <1>4. PICK others \in Seq(BOOLEAN) : ReportFirst(rest, others) \/ ReplyFirst(rest, others)
    BY <1>3
  <1>5. ~ReportFirst(rest, others)
    <2> SUFFICES ASSUME ReportFirst(rest, others) PROVE FALSE
      OBVIOUS
    <2>1. Code(n) = CodeWord[ConnStatus]
      BY <1>1, ReportRead, Zenon
    <2>2. call.f \in Functions
      BY Zenon DEF ReadReply, WireInv, TypeInv
    <2> QED BY <1>1, <2>1, <2>2, CallbacksApart, Zenon
  <1>6. ReplyFirst(rest, others)
    BY <1>4, <1>5
  <1>7. /\ ReadFields(CallFormat(call.f).reply, Payload(n)).values = executed[2]
        /\ down' = rest /\ heads' = others
    BY <1>1, <1>6, ReplyRead, Zenon
  <1> QED BY <1>1, <1>6, <1>7, Zenon

\* No request is passed over, no report is thrown away, and no Q_ASSERT of a
\* reader fails.
LEMMA NothingElse ==
  ASSUME Agreed, WireInv
  PROVE  ~ServeNothing /\ ~SkipEvent /\ ~ReadOther
  <1>0. ~ServeNothing
    BY AgreedCode, AllServed, Zenon DEF WireInv
  <1> SUFFICES ASSUME SkipEvent \/ ReadOther PROVE FALSE
    BY <1>0
  <1>1. PICK n \in 1 .. Len(down) :
          /\ Arrived(n)
          /\ \/ IsCallback(n) /\ ~(handler /\ Code(n) = CodeWord[ConnStatus])
             \/ ~IsCallback(n) /\ ~(busy /\ Code(n) = CodeWord[CallCode(call.f)])
    BY Zenon DEF SkipEvent, ReadOther
  <1>2. down # <<>>
    BY SomethingUnderWay
  <1>3. PICK rest \in Seq(W32) : \E others \in Seq(BOOLEAN) :
            ReportFirst(rest, others) \/ ReplyFirst(rest, others)
    BY <1>2, FirstMessage
  <1>4. PICK others \in Seq(BOOLEAN) : ReportFirst(rest, others) \/ ReplyFirst(rest, others)
    BY <1>3
  <1>5. CASE ReportFirst(rest, others)
    <2>1. Code(n) = CodeWord[ConnStatus] /\ handler
      BY <1>1, <1>5, ReportRead, Zenon
    <2> QED BY <1>1, <2>1, Zenon DEF IsCallback, CallbackCodes
  <1>6. CASE ReplyFirst(rest, others)
    <2>1. Code(n) = CodeWord[call.f] /\ call.f \in Functions
      BY <1>1, <1>6, ReplyRead, Zenon
    <2>2. busy /\ call.f \in Cases /\ CallCode(call.f) = call.f
      BY <1>6, <2>1, AgreedCode, Zenon DEF ReplyFirst
    <2> QED BY <1>1, <2>1, <2>2, CallbacksApart, Zenon DEF IsCallback
  <1> QED BY <1>4, <1>5, <1>6

LEMMA SendUnderWay ==
  ASSUME NEW msgs \in Seq(Seq(W32)), UnderWay(down, heads, msgs), NEW m \in Seq(W32), Send(m)
  PROVE  UnderWay(down', heads', Append(msgs, m))
  <1>1. down' = down \o m /\ heads' = heads \o Marks(m)
    BY Zenon DEF Send, Marks
  <1> QED BY <1>1, UnderWaySend, Zenon

LEMMA OrderKept ==
  ASSUME Agreed, WireInv, Next
  PROVE  InOrder(down, heads, events)'
  <1> DEFINE rs == Reports(events)
             S == Seq(W32)
  <1>1. events \in Seq(Events) /\ InOrder(down, heads, events)
    BY Zenon DEF WireInv
  <1>2. rs \in Seq(S) /\ Len(rs) = Len(events)
    BY <1>1, ReportsForm, Zenon
  <1>3. CASE Call
    <2>1. ~busy /\ busy' = TRUE /\ executed' = <<>> /\ UNCHANGED <<events, down, heads>>
      BY <1>3, Zenon DEF Call, downVars
    <2> QED BY <1>1, <2>1, Zenon DEF InOrder
  <1>4. CASE Serve
    <2>1. PICK outs \in Outs(call) : executed' = <<call, outs>> /\ Send(Reply(call.f, outs))
      BY <1>4, CallServed, Zenon
    <2>2. busy /\ executed = <<>> /\ call \in Calls
      BY <1>4, CallServed, Zenon
    <2>3. UNCHANGED <<call, busy, events>>
      BY <1>4, Zenon DEF Serve
    <2> DEFINE m == Reply(call.f, outs)
    <2>4. m \in S
      <3>1. call.f \in Functions /\ call.f \in AgreedFunctions
        BY <2>2, CallForm, Zenon DEF Agreed
      <3>2. Framed(m, call.f, Fields(ServeFormat(call.f).writes, outs))
        BY <3>1, OutsKept, Zenon DEF Agreed
      <3> QED BY <3>2, Zenon DEF Framed
    <2>5. UnderWay(down, heads, rs)
      BY <1>1, <2>2, Zenon DEF InOrder
    <2>6. UnderWay(down', heads', Append(rs, m))
      BY <1>2, <2>1, <2>4, <2>5, SendUnderWay, Zenon
    <2>7. Append(rs, m) = Put(rs, Len(rs) + 1, m) /\ Len(rs) + 1 \in 1 .. Len(rs) + 1
      <3> HIDE DEF rs, m, S
      <3> QED BY <1>2, <2>4, PutLast, Zenon
    <2>8. executed' # <<>> /\ executed'[2] = outs
      BY <2>1
    <2>9. \E k \in 1 .. Len(rs) + 1 : UnderWay(down', heads', Put(rs, k, m))
      BY <2>6, <2>7, Zenon
    <2> QED BY <2>2, <2>3, <2>8, <2>9, Zenon DEF InOrder
  <1>5. CASE Push
    <2>1. PICK e \in Events : events' = Append(events, e) /\ Send(Report(e))
      BY <1>5, Zenon DEF Push
    <2>2. UNCHANGED <<call, busy, executed>>
      BY <1>5, Zenon DEF Push
    <2> DEFINE m == Report(e)
    <2>3. Reports(events') = Append(rs, m) /\ m \in S
      BY <1>1, <2>1, ReportsAppend, Zenon
    <2>4. CASE ~(busy /\ executed # <<>>)
      <3>1. UnderWay(down, heads, rs)
        BY <1>1, <2>4, Zenon DEF InOrder
      <3>2. UnderWay(down', heads', Append(rs, m))
        BY <1>2, <2>1, <2>3, <3>1, SendUnderWay, Zenon
      <3> QED BY <2>2, <2>3, <2>4, <3>2, Zenon DEF InOrder
    <2>5. CASE busy /\ executed # <<>>
      <3> DEFINE r == Reply(call.f, executed[2])
      <3>1. PICK k \in 1 .. Len(rs) + 1 : UnderWay(down, heads, Put(rs, k, r))
        BY <1>1, <2>5, Zenon DEF InOrder
      <3>2. r \in S
        BY <2>5, ReplyOf, Zenon
      <3> DEFINE p == Put(rs, k, r)
      <3>3. p \in Seq(S)
        <4>1. IsPut(p, S, rs, k, r)
          BY <1>2, <3>2, PutForm, Zenon
        <4> HIDE DEF p
        <4> QED BY <4>1, Zenon DEF IsPut
      <3>4. UnderWay(down', heads', Append(p, m))
        BY <2>1, <2>3, <3>1, <3>3, SendUnderWay, Zenon
      <3>5. Append(p, m) = Put(Append(rs, m), k, r) /\ k \in 1 .. Len(Append(rs, m)) + 1
        <4>1. rs \in Seq(S) /\ m \in S
          BY <1>2, <2>3, Zenon
        <4> HIDE DEF rs, m, r, S
        <4>2. Append(p, m) = Put(Append(rs, m), k, r)
          BY <3>2, <4>1, PutAppend, SMTT(30)
        <4>3. k \in 1 .. Len(Append(rs, m)) + 1
          BY <3>2, <4>1, PutAppend, Zenon
        <4> QED BY <4>2, <4>3
      <3>6. \E j \in 1 .. Len(Reports(events')) + 1 :
                UnderWay(down', heads', Put(Reports(events'), j, r))
        BY <2>3, <3>4, <3>5, Zenon
      <3> QED BY <2>2, <2>5, <3>6, Zenon DEF InOrder
    <2> QED BY <2>4, <2>5
  <1>6. CASE ReadEvent
    <2>1. PICK rest \in Seq(W32) : \E others \in Seq(BOOLEAN) :
            /\ ReportFirst(rest, others) /\ down' = rest /\ heads' = others
            /\ events' = Tail(events)
      BY <1>6, EventTaken, Zenon
    <2>2. InOrder(down', heads', events')
      BY <2>1, Zenon DEF ReportFirst
    <2>3. UNCHANGED <<call, busy, executed>>
      BY <1>6, Zenon DEF ReadEvent
    <2> QED BY <2>2, <2>3, Zenon DEF InOrder
  <1>7. CASE ReadReply
    <2>1. PICK rest \in Seq(W32) : \E others \in Seq(BOOLEAN) :
            ReplyFirst(rest, others) /\ down' = rest /\ heads' = others
      BY <1>7, ReplyTaken, Zenon
    <2>2. UnderWay(down', heads', rs)
      BY <2>1, Zenon DEF ReplyFirst
    <2>3. busy' = FALSE /\ UNCHANGED events
      BY <1>7, Zenon DEF ReadReply
    <2> QED BY <2>2, <2>3, Zenon DEF InOrder
  <1>8. ~ServeNothing /\ ~SkipEvent /\ ~ReadOther
    BY NothingElse
  <1> QED BY <1>3, <1>4, <1>5, <1>6, <1>7, <1>8, Zenon DEF Next

LEMMA HandlerKept ==
  ASSUME Agreed, WireInv, Next
  PROVE  (registered \/ events # <<>> \/ (busy /\ call.f = SetConnStatus) => handler)'
  <1> DEFINE needed == registered \/ events # <<>> \/ (busy /\ call.f = SetConnStatus)
  <1>1. needed => handler
    BY Zenon DEF WireInv
  <1>2. CASE Call
    <2>1. PICK c \in Calls :
            call' = c /\ handler' = IF c.f = SetConnStatus THEN c.args[1] # 0 ELSE handler
      BY <1>2, Zenon DEF Call
    <2>2. UNCHANGED <<registered, events>>
      BY <1>2, Zenon DEF Call
    <2>3. ASSUME c.f = SetConnStatus PROVE handler'
      <3>1. Signature(SetConnStatus) = [args |-> <<"flag", "size">>, outs |-> ErrorReport]
        BY SetterFormats, Zenon
      <3>2. Signature(c.f).args = <<"flag", "size">>
        BY <2>3, <3>1
      <3>3. c.args[1] \in ArgValues("flag")
        <4>1. /\ Len(c.args) = Len(<<"flag", "size">>)
              /\ \A i \in 1 .. Len(c.args) : c.args[i] \in ArgValues(<<"flag", "size">>[i])
          BY <3>2, CallForm, Zenon
        <4>2. /\ Len(<<"flag", "size">>) = 2 /\ <<"flag", "size">>[1] = "flag"
              /\ 1 \in 1 .. 2
          OBVIOUS
        <4> QED BY <4>1, <4>2, Zenon
      <3>4. c.args[1] # 0
        BY <3>3, ArgForms, Zenon DEF Agreed, AgreedValues
      <3> QED BY <2>1, <2>3, <3>4, Zenon
    <2>4. CASE c.f # SetConnStatus
      BY <1>1, <2>1, <2>2, <2>4, Zenon
    <2> QED BY <2>3, <2>4
  <1>3. CASE Serve
    <2>1. busy /\ (registered' => registered \/ call.f = SetConnStatus)
      BY <1>3, CallServed, Zenon
    <2>2. UNCHANGED <<call, busy, events, handler>>
      BY <1>3, Zenon DEF Serve
    <2> QED BY <1>1, <2>1, <2>2, Zenon
  <1>4. CASE Push
    BY <1>1, <1>4, Zenon DEF Push
  <1>5. CASE ReadEvent
    <2>1. events # <<>>
      BY <1>5, EventTaken, Zenon DEF ReportFirst
    <2>2. handler /\ UNCHANGED handler
      BY <1>1, <1>5, <2>1, Zenon DEF ReadEvent
    <2> QED BY <2>2
  <1>6. CASE ReadReply
    BY <1>1, <1>6, Zenon DEF ReadReply
  <1>7. ~ServeNothing /\ ~SkipEvent /\ ~ReadOther
    BY NothingElse
  <1> QED BY <1>2, <1>3, <1>4, <1>5, <1>6, <1>7, Zenon DEF Next

LEMMA OutcomeKept ==
  ASSUME Agreed, WireInv, Next
  PROVE  (executed # <<>> => \E outs \in Outs(call) : executed = <<call, outs>>)'
  <1>1. executed # <<>> => \E outs \in Outs(call) : executed = <<call, outs>>
    BY Zenon DEF WireInv
  <1>2. CASE Call
    BY <1>2, Zenon DEF Call
  <1>3. CASE Serve
    <2>1. \E outs \in Outs(call) : executed' = <<call, outs>>
      BY <1>3, CallServed, Zenon
    <2>2. call' = call
      BY <1>3, Zenon DEF Serve
    <2> QED BY <2>1, <2>2, Zenon DEF Outs
  <1>4. CASE Push \/ ReadEvent \/ ReadReply
    <2>1. UNCHANGED <<call, executed>>
      BY <1>4, Zenon DEF Push, ReadEvent, ReadReply
    <2> QED BY <1>1, <2>1, Zenon DEF Outs
  <1>5. ~ServeNothing /\ ~SkipEvent /\ ~ReadOther
    BY NothingElse
  <1> QED BY <1>2, <1>3, <1>4, <1>5, Zenon DEF Next

LEMMA EventsKept ==
  ASSUME Agreed, WireInv, Next
  PROVE  (events \in Seq(Events))'
  <1>1. events \in Seq(Events)
    BY Zenon DEF WireInv
  <1>2. CASE Push
    <2>1. \E e \in Events : events' = Append(events, e)
      BY <1>2, Zenon DEF Push
    <2> QED BY <1>1, <2>1
  <1>3. CASE ReadEvent
    <2>1. events # <<>> /\ events' = Tail(events)
      BY <1>3, EventTaken, Zenon DEF ReportFirst
    <2> QED BY <1>1, <2>1
  <1>4. CASE Call \/ Serve \/ ReadReply
    <2>1. UNCHANGED events
      BY <1>4, Zenon DEF Call, Serve, ReadReply
    <2> QED BY <1>1, <2>1, Zenon
  <1>5. ~ServeNothing /\ ~SkipEvent /\ ~ReadOther
    BY NothingElse
  <1> QED BY <1>2, <1>3, <1>4, <1>5, Zenon DEF Next

LEMMA WireStart ==
  ASSUME Init, TypeInv
  PROVE  WireInv
  <1>1. /\ call = [f |-> "none", args |-> <<>>] /\ busy = FALSE /\ executed = <<>>
        /\ events = <<>> /\ down = <<>> /\ heads = <<>> /\ up = <<>>
        /\ registered = FALSE /\ fault = FALSE
    BY Zenon DEF Init
  <1>2. Sent
    BY <1>1, Zenon DEF Sent
  <1>3. <<>> \in Seq(Events)
    OBVIOUS
  <1>4. InOrder(down, heads, events)
    BY <1>1, ReportsNone, UnderWayNone, Zenon DEF InOrder
  <1> QED BY <1>1, <1>2, <1>3, <1>4, Zenon DEF WireInv

LEMMA WireStep ==
  ASSUME Agreed, WireInv, [Next]_wireVars, TypeInv'
  PROVE  WireInv'
  <1>1. CASE Next
    <2>1. ~ServeNothing /\ ~SkipEvent /\ ~ReadOther
      BY NothingElse
    <2>2. ReadReply => executed # <<>>
      BY ReplyTaken, Zenon DEF ReplyFirst
    <2>3. Sent'
      BY <1>1, <2>2, AgreedCode, SentKept, Zenon DEF WireInv
    <2>4. (~fault)'
      <3>1. fault' = fault
        BY <1>1, <2>1, Zenon DEF Next, Call, Serve, Push, ReadEvent, ReadReply
      <3> QED BY <3>1, Zenon DEF WireInv
    <2> QED BY <1>1, <2>3, <2>4, HandlerKept, OutcomeKept, EventsKept, OrderKept, Zenon
            DEF WireInv
  <1>2. CASE UNCHANGED wireVars
    <2>1. UNCHANGED <<call, busy, executed, events, up, down, heads, handler,
                      registered, fault>>
      BY <1>2, Zenon DEF wireVars
    <2>2. Sent'
      BY <2>1, Zenon DEF WireInv, Sent
    <2>3. InOrder(down, heads, events)'
      BY <2>1, Zenon DEF WireInv, InOrder
    <2>4. (executed # <<>> => \E outs \in Outs(call) : executed = <<call, outs>>)'
      BY <2>1, Zenon DEF WireInv, Outs
    <2> QED BY <2>1, <2>2, <2>3, <2>4, Zenon DEF WireInv
  <1> QED BY <1>1, <1>2

LEMMA WireInvHolds ==
  ASSUME Agreed
  PROVE  Spec => []WireInv
  <1>1. Init /\ TypeInv => WireInv
    BY WireStart
  <1>2. WireInv /\ [Next]_wireVars /\ TypeInv' => WireInv'
    BY WireStep
  <1>3. Spec => []TypeInv
    BY TypeInvHolds
  <1> QED BY <1>1, <1>2, <1>3, PTL DEF Spec

\* Where both ends agree on the fields and their types tell the values apart,
\* the client stands at the size of a message whenever it has read one: no
\* reader of CallbackIfNeeded or WaitReadMessage takes data for a header.
THEOREM FramesStay ==
  ASSUME AgreedValues, Functions \subseteq AgreedFunctions
  PROVE  Spec => []FramesKept
  <1>1. Spec => []WireInv
    BY WireInvHolds, Zenon DEF Agreed
  <1>2. WireInv => FramesKept
    <2> SUFFICES ASSUME WireInv, down # <<>> PROVE heads[1]
      BY DEF FramesKept
    <2>1. PICK rest \in Seq(W32) : \E others \in Seq(BOOLEAN) :
              ReportFirst(rest, others) \/ ReplyFirst(rest, others)
      BY FirstMessage, Zenon DEF Agreed
    <2>2. PICK others \in Seq(BOOLEAN) : ReportFirst(rest, others) \/ ReplyFirst(rest, others)
      BY <2>1
    <2>3. PICK m \in Seq(W32) : m # <<>> /\ heads = Marks(m) \o others
      <3>1. CASE ReportFirst(rest, others)
        <4>1. /\ events \in Seq(Events) /\ events # <<>>
              /\ heads = Marks(Report(Head(events))) \o others
          BY <3>1, Zenon DEF WireInv, ReportFirst
        <4>2. Framed(Report(Head(events)), ConnStatus, Fields(StatusWrite, Head(events)))
          BY <4>1, ReportsTail, ReportForm, Zenon
        <4> QED BY <4>1, <4>2, FramedSome, Zenon
      <3>2. CASE ReplyFirst(rest, others)
        <4>1. busy /\ executed # <<>> /\ heads = Marks(Reply(call.f, executed[2])) \o others
          BY <3>2, Zenon DEF ReplyFirst
        <4>2. /\ call.f \in Functions /\ call.f \in AgreedFunctions
              /\ executed[2] \in Outs(call)
          BY <4>1, ReplyOf, Zenon DEF Agreed
        <4>3. Framed(Reply(call.f, executed[2]), call.f,
                     Fields(ServeFormat(call.f).writes, executed[2]))
          BY <4>2, OutsKept, Zenon
        <4> QED BY <4>1, <4>3, FramedSome, Zenon
      <3> QED BY <2>2, <3>1, <3>2
    <2>4. Marks(m) \in Seq(BOOLEAN) /\ Marks(m) # <<>> /\ Marks(m)[1]
      BY <2>3, MarksForm, Zenon
    <2> QED BY <2>3, <2>4
  <1> QED BY <1>1, <1>2, PTL

\* Under the same conditions the wrapper keeps the promise of T2QRpc: a call
\* is executed once, with its own arguments, returns what its execution gave,
\* and every report is shown once, unaltered and in order.
THEOREM Refines ==
  ASSUME AgreedValues, Functions \subseteq AgreedFunctions
  PROVE  Spec => Implements
  <1> DEFINE RpcNext == Rpc!Invoke \/ Rpc!Execute \/ Rpc!Return \/ Rpc!Report \/ Rpc!Show
  <1>1. Spec => []WireInv
    BY WireInvHolds, Zenon DEF Agreed
  <1>2. Init => Rpc!Init
    BY Zenon DEF Init, Rpc!Init
  <1>3. WireInv /\ [Next]_wireVars => [RpcNext]_(Rpc!rpcVars)
    <2> SUFFICES ASSUME WireInv, [Next]_wireVars PROVE [RpcNext]_(Rpc!rpcVars)
      OBVIOUS
    <2>0. Agreed
      BY Zenon DEF Agreed
    <2>1. CASE Call
      <3>1. Rpc!Invoke
        BY <2>1, Zenon DEF Call, Rpc!Invoke
      <3> QED BY <3>1, Zenon
    <2>2. CASE Serve
      <3>1. busy /\ executed = <<>> /\ \E outs \in Outs(call) : executed' = <<call, outs>>
        BY <2>0, <2>2, CallServed, Zenon
      <3>2. Rpc!Execute
        BY <2>2, <3>1, Zenon DEF Serve, Rpc!Execute
      <3> QED BY <3>2, Zenon
    <2>3. CASE Push
      <3>1. Rpc!Report
        BY <2>3, Zenon DEF Push, Rpc!Report
      <3> QED BY <3>1, Zenon
    <2>4. CASE ReadEvent
      <3>1. events # <<>> /\ shown' = <<Head(events)>> /\ events' = Tail(events)
        BY <2>0, <2>4, EventTaken, Zenon DEF ReportFirst
      <3>2. Rpc!Show
        BY <2>4, <3>1, Zenon DEF ReadEvent, Rpc!Show
      <3> QED BY <3>2, Zenon
    <2>5. CASE ReadReply
      <3>1. busy /\ executed # <<>> /\ returned' = <<executed[2]>>
        BY <2>0, <2>5, ReplyTaken, Zenon DEF ReplyFirst
      <3>2. Rpc!Return
        BY <2>5, <3>1, Zenon DEF ReadReply, Rpc!Return
      <3> QED BY <3>2, Zenon
    <2>6. CASE UNCHANGED wireVars
      BY <2>6, Zenon DEF wireVars, Rpc!rpcVars
    <2>7. ~ServeNothing /\ ~SkipEvent /\ ~ReadOther
      BY <2>0, NothingElse
    <2> QED BY <2>1, <2>2, <2>3, <2>4, <2>5, <2>6, <2>7, Zenon DEF Next
  <1> QED BY <1>1, <1>2, <1>3, PTL DEF Spec, Implements, Rpc!Spec

\* Then the DLL is called with the arguments of the call, each request is
\* served under its own code and nothing is left of it, and no result and no
\* report needs to differ from the codes of the functions.
THEOREM ArgsArrive ==
  ASSUME AgreedValues, Functions \subseteq AgreedFunctions
  PROVE  Spec => [](ServerInStep /\ ArgsReachDll)
  <1>1. Spec => []WireInv
    BY WireInvHolds, Zenon DEF Agreed
  <1>2. WireInv => ServerInStep
    <2> SUFFICES ASSUME WireInv PROVE ServerInStep
      OBVIOUS
    <2>1. Functions \subseteq Cases /\ \A f \in Functions : CallCode(f) = f
      BY AgreedCode, Zenon DEF Agreed
    <2>2. executed # <<>> => \E outs \in Outs(call) : executed = <<call, outs>>
      BY Zenon DEF WireInv
    <2>3. call.f \in Functions \cup {"none"}
      BY Zenon DEF WireInv, TypeInv, TypeOK
    <2>4. CallCode("none") = "none"
      BY Zenon DEF CallCode, StraySetters
    <2>5. CallCode(call.f) = call.f
      BY <2>1, <2>3, <2>4, Zenon
    <2> QED BY <2>5, Zenon DEF WireInv, Sent, ServerInStep
  <1>3. WireInv => ArgsReachDll
    <2> SUFFICES ASSUME WireInv, executed # <<>> PROVE executed[1] = call
      BY DEF ArgsReachDll
    <2>1. PICK outs \in Outs(call) : executed = <<call, outs>>
      BY Zenon DEF WireInv
    <2> QED BY <2>1
  <1> QED BY <1>1, <1>2, <1>3, PTL

=============================================================================
