-------------------------- MODULE T2QFormats_proofs --------------------------
(***************************************************************************)
(* Proofs about the stream reader and writer of T2QFormats.                *)
(***************************************************************************)
EXTENDS T2QFormats, TLAPS, SequenceTheorems, WellFoundedInduction

-----------------------------------------------------------------------------
(***************************************************************************)
(* Induction.  The provers cannot apply an induction principle to a        *)
(* predicate, but they can cite a fact about sets: what fails somewhere    *)
(* fails somewhere first.                                                  *)
(***************************************************************************)
LEMMA Least ==
  ASSUME NEW S \in SUBSET Nat, S # {}
  PROVE  \E n \in S : \A m \in S : n <= m
  <1> DEFINE R == {ss \in Nat \X Nat : ss[1] < ss[2]}
  <1>1. IsWellFoundedOn(R, Nat)
    BY NatLessThanWellFounded, Zenon DEF OpToRel
  <1>2. PICK n \in S : \A m \in S : ~(<<m, n>> \in R)
    <2> HIDE DEF R
    <2> QED BY <1>1, WFMin
  <1>3. \A m \in S : ~(m < n)
    BY <1>2
  <1> QED BY <1>3

\* A set of numbers that holds zero, and with a number below n the next one,
\* holds all numbers up to n.
LEMMA UpTo ==
  ASSUME NEW n \in Nat, NEW S, 0 \in S,
         \A i \in 0 .. n - 1 : i \in S => i + 1 \in S
  PROVE  0 .. n \subseteq S
  <1> DEFINE T == {i \in 0 .. n : i \notin S}
  <1> SUFFICES ASSUME T # {} PROVE FALSE
    OBVIOUS
  <1>1. PICK m \in T : \A k \in T : m <= k
    <2>1. T \in SUBSET Nat
      OBVIOUS
    <2> HIDE DEF T
    <2> QED BY <2>1, Least
  <1>2. m \in 1 .. n /\ m - 1 \in 0 .. n - 1 /\ m - 1 \in S
    BY <1>1
  <1> QED BY <1>1, <1>2

-----------------------------------------------------------------------------
(***************************************************************************)
(* The recursive functions exist: the equations that define them hold.     *)
(***************************************************************************)
IsWords(w, types, values) ==
    w = [i \in 1 .. Len(types) + 1 |->
            IF i > Len(types) THEN <<>>
            ELSE Field(types[i], values[i]) \o w[i + 1]]

LEMMA FieldsDefined ==
  ASSUME NEW types, NEW values, Len(types) \in Nat
  PROVE  \E w : IsWords(w, types, values) /\ Fields(types, values) = w[1]
  <1> DEFINE n == Len(types)
             Put(i, others) == Field(types[i], values[i]) \o others
             Part(k, w) == w = [i \in n + 1 - k .. n + 1 |->
                                  IF i > n THEN <<>> ELSE Put(i, w[i + 1])]
             S == {k \in 0 .. n : \E w : Part(k, w)}
  <1>0. n \in Nat
    OBVIOUS
  <1>1. 0 \in S
    <2>1. Part(0, [i \in n + 1 .. n + 1 |-> <<>>])
      <3> HIDE DEF n, Put
      <3> QED BY <1>0
    <2> HIDE DEF Part, n
    <2> QED BY <1>0, <2>1
  <1>2. ASSUME NEW k \in 0 .. n - 1, k \in S PROVE k + 1 \in S
    <2>1. PICK w : Part(k, w)
      BY <1>2
    <2> DEFINE v == [i \in n - k .. n + 1 |-> IF i = n - k THEN Put(i, w[i + 1]) ELSE w[i]]
    <2>2. Part(k + 1, v)
      <3> HIDE DEF n, Put
      <3>1. n + 1 - (k + 1) = n - k
        BY <1>0
      <3>2. \A i \in n - k .. n + 1 : v[i] = IF i > n THEN <<>> ELSE Put(i, v[i + 1])
        BY <1>0, <1>2, <2>1
      <3> QED BY <1>0, <3>1, <3>2
    <2> HIDE DEF Part, v, n
    <2> QED BY <1>0, <1>2, <2>2
  <1>3. n \in S
    <2> HIDE DEF S
    <2>1. \A k \in 0 .. n - 1 : k \in S => k + 1 \in S
      BY <1>2
    <2>2. 0 .. n \subseteq S
      <3> HIDE DEF n
      <3> QED BY <1>0, <1>1, <2>1, UpTo
    <2> QED BY <1>0, <2>2
  <1>4. \E w : IsWords(w, types, values)
    <2>1. PICK w : Part(n, w)
      BY <1>3
    <2>2. n + 1 - n = 1
      BY <1>0
    <2>3. IsWords(w, types, values)
      BY <2>1, <2>2, Zenon DEF IsWords
    <2> QED BY <2>3
  <1> DEFINE f == CHOOSE w : w = [i \in 1 .. Len(types) + 1 |->
                                    IF i > Len(types) THEN <<>>
                                    ELSE Field(types[i], values[i]) \o w[i + 1]]
  <1>5. IsWords(f, types, values)
    BY <1>4, Zenon DEF IsWords
  <1>6. Fields(types, values) = f[1]
    BY Zenon DEF Fields
  <1> HIDE DEF f
  <1> QED BY <1>5, <1>6

IsReading(r, types, words) ==
    r = [i \in 0 .. Len(types) |->
            IF i = 0 THEN [values |-> <<>>, left |-> words]
            ELSE LET before == r[i - 1]
                     f == ReadField(types[i], before.left)
                 IN  [values |-> Append(before.values, f.value), left |-> f.left]]

LEMMA ReadingDefined ==
  ASSUME NEW types, NEW words, Len(types) \in Nat
  PROVE  \E r : IsReading(r, types, words) /\ ReadFields(types, words) = r[Len(types)]
  <1> DEFINE n == Len(types)
             After(i, before) ==
               LET f == ReadField(types[i], before.left)
               IN  [values |-> Append(before.values, f.value), left |-> f.left]
             Start == [values |-> <<>>, left |-> words]
             Part(k, r) == r = [i \in 0 .. k |-> IF i = 0 THEN Start ELSE After(i, r[i - 1])]
             S == {k \in 0 .. n : \E r : Part(k, r)}
  <1>0. n \in Nat
    OBVIOUS
  <1>1. 0 \in S
    <2>1. Part(0, [i \in 0 .. 0 |-> Start])
      <3> HIDE DEF Start, After
      <3> QED OBVIOUS
    <2> HIDE DEF Part
    <2> QED BY <1>0, <2>1
  <1>2. ASSUME NEW k \in 0 .. n - 1, k \in S PROVE k + 1 \in S
    <2> HIDE DEF Start, After
    <2>1. PICK r : Part(k, r)
      BY <1>2
    <2> DEFINE v == [i \in 0 .. k + 1 |-> IF i = k + 1 THEN After(i, r[i - 1]) ELSE r[i]]
    <2>2. \A i \in 0 .. k + 1 : v[i] = IF i = 0 THEN Start ELSE After(i, v[i - 1])
      BY <2>1
    <2>3. Part(k + 1, v)
      BY <2>2
    <2> HIDE DEF Part, v
    <2> QED BY <1>0, <2>3
  <1>3. n \in S
    <2> HIDE DEF S
    <2>1. \A k \in 0 .. n - 1 : k \in S => k + 1 \in S
      BY <1>2
    <2>2. 0 .. n \subseteq S
      <3> HIDE DEF n
      <3> QED BY <1>0, <1>1, <2>1, UpTo
    <2> QED BY <1>0, <2>2
  <1>4. \E r : IsReading(r, types, words)
    <2>1. PICK r : Part(n, r)
      BY <1>3
    <2>2. IsReading(r, types, words)
      BY <2>1, Zenon DEF IsReading
    <2> QED BY <2>2
  <1> DEFINE g == CHOOSE r : r = [i \in 0 .. Len(types) |->
            IF i = 0 THEN [values |-> <<>>, left |-> words]
            ELSE LET before == r[i - 1]
                     f == ReadField(types[i], before.left)
                 IN  [values |-> Append(before.values, f.value), left |-> f.left]]
  <1>5. IsReading(g, types, words)
    BY <1>4, Zenon DEF IsReading
  <1>6. ReadFields(types, words) = g[Len(types)]
    BY Zenon DEF ReadFields
  <1> HIDE DEF g
  <1> QED BY <1>5, <1>6

-----------------------------------------------------------------------------
(***************************************************************************)
(* One field.                                                              *)
(***************************************************************************)
W32 == 0 .. Base - 1

\* A text shorter than the 2^32 bytes a quint32 counts.
Content(v) == v \in Seq(W32) /\ 4 * Len(v) < Base - 1
Text(v) == v = Null \/ Content(v)

\* What may be written as a type.
Writable(type, v) ==
    \/ type \in {"u32", "i64"} /\ v \in Int
    \/ type = "f64" /\ v \in Nat /\ Base \div 4 + v < Base
    \/ type \in {"qstr", "lptstr"} /\ Text(v)

\* A field written as w is as wide as what is read as r.
SameWidth(w, r) ==
    \/ w = "u32" /\ r \in {"u32", "i32"}
    \/ w = "i64" /\ r \in {"i64", "u64"}
    \/ w \in {"qstr", "lptstr"} /\ r \in {"lpstr", "buffer"}

\* A value that a type of this sort can tell from all others.
Kept(w, r, v) ==
    \/ w = "u32" /\ r = "u32" /\ v \in W32
    \/ w = "u32" /\ r = "i32" /\ v \in -(Base \div 2) .. (Base \div 2) - 1
    \/ /\ w = "i64" /\ r = "i64"
       /\ v \in -(Base * (Base \div 2)) .. Base * (Base \div 2) - 1
    \/ w = "qstr" /\ r = "lpstr" /\ Text(v) /\ v # <<>>
    \/ w = "qstr" /\ r = "buffer" /\ Content(v)

AllKept(types, reads, values) ==
    /\ Len(types) = Len(values) /\ Len(reads) = Len(values)
    /\ \A i \in 1 .. Len(values) : Kept(types[i], reads[i], values[i])

LEMMA BaseValue ==
  /\ Base \in Nat /\ Base > 8
  /\ Base \div 2 \in Nat /\ 2 * (Base \div 2) = Base
  /\ Base \div 4 \in Nat /\ 4 * (Base \div 4) = Base
  <1>1. Len(Enumerators) \in Nat
    BY DEF Enumerators
  <1>2. Len(Enumerators) > 8
    BY DEF Enumerators
  <1> HIDE DEF Enumerators
  <1> QED BY <1>1, <1>2, FormatsAssumption

LEMMA NullIsNoText == Null \notin Seq(W32)
  <1> SUFFICES ASSUME Null \in Seq(W32) PROVE FALSE
    OBVIOUS
  <1>1. Null[1] = -1 /\ Len(Null) = 1
    BY DEF Null
  <1>2. Null[1] \in W32
    <2> HIDE DEF Null
    <2> QED BY <1>1
  <1>3. -1 \notin W32
    BY BaseValue DEF W32
  <1> QED BY <1>1, <1>2, <1>3

LEMMA WordOf ==
  ASSUME NEW v \in Int
  PROVE  v % Base \in W32 /\ (v \div Base) % Base \in W32 /\ v \div Base \in Int
  BY BaseValue DEF W32

\* The cases of the stream's operators, one by one.
LEMMA FieldForms ==
  ASSUME NEW v
  PROVE  /\ Field("u32", v) = <<v % Base>>
         /\ Field("i64", v) = <<(v \div Base) % Base, v % Base>>
         /\ Field("f64", v) = Bits(v)
         /\ v # Null => Field("qstr", v) = <<4 * Len(v)>> \o v
         /\ v # Null => Field("lptstr", v) = <<4 * Len(v)>> \o v
         /\ Field("qstr", Null) = <<Base - 1>>
         /\ Field("lptstr", Null) = <<0>>
  BY Zenon DEF Field

LEMMA ReadForms ==
  ASSUME NEW words
  PROVE  /\ ReadField("u32", words) =
                IF words = <<>> THEN [value |-> 0, left |-> <<>>]
                ELSE [value |-> Head(words), left |-> Tail(words)]
         /\ ReadField("i32", words) =
                IF words = <<>> THEN [value |-> 0, left |-> <<>>]
                ELSE [value |-> IF Head(words) < Base \div 2 THEN Head(words)
                                ELSE Head(words) - Base,
                      left  |-> Tail(words)]
         /\ ReadField("i64", words) =
                IF Len(words) < 2 THEN [value |-> 0, left |-> <<>>]
                ELSE [value |-> Signed(words[1] * Base + words[2]),
                      left  |-> From(words, 3)]
         /\ ReadField("u64", words) =
                IF Len(words) < 2 THEN [value |-> 0, left |-> <<>>]
                ELSE [value |-> words[1] * Base + words[2],
                      left  |-> From(words, 3)]
  BY Zenon DEF ReadField

LEMMA TextForms ==
  ASSUME NEW words, NEW value, NEW left,
         \/ words = <<>> /\ value = <<>> /\ left = <<>>
         \/ words # <<>> /\ ReadString(words) = [value |-> value, left |-> left]
  PROVE  /\ ReadField("lpstr", words) =
                [value |-> IF value = <<>> THEN Null ELSE value, left |-> left]
         /\ ReadField("buffer", words) =
                [value |-> IF value = Null THEN <<>> ELSE value, left |-> left]
  <1> DEFINE s == IF words = <<>> THEN [value |-> <<>>, left |-> <<>>]
                  ELSE ReadString(words)
  <1>1. s = [value |-> value, left |-> left]
    OBVIOUS
  <1>2. /\ ReadField("lpstr", words) = IF s.value \in {Null, <<>>}
                THEN [s EXCEPT !.value = Null] ELSE s
        /\ ReadField("buffer", words) = IF s.value \in {Null, <<>>}
                THEN [s EXCEPT !.value = <<>>] ELSE s
    BY Zenon DEF ReadField
  <1>3. /\ [s EXCEPT !.value = Null] = [value |-> Null, left |-> left]
        /\ [s EXCEPT !.value = <<>>] = [value |-> <<>>, left |-> left]
    BY <1>1
  <1> HIDE DEF s, Null
  <1> QED BY <1>1, <1>2, <1>3

LEMMA NothingRead ==
  /\ ReadField("lpstr", <<>>) = [value |-> Null, left |-> <<>>]
  /\ ReadField("buffer", <<>>) = [value |-> <<>>, left |-> <<>>]
  <1> DEFINE s == IF <<>> = <<>> THEN [value |-> <<>>, left |-> <<>>]
                  ELSE ReadString(<<>>)
  <1>1. s = [value |-> <<>>, left |-> <<>>]
    OBVIOUS
  <1>2. /\ ReadField("lpstr", <<>>) = IF s.value \in {Null, <<>>}
                THEN [s EXCEPT !.value = Null] ELSE s
        /\ ReadField("buffer", <<>>) = IF s.value \in {Null, <<>>}
                THEN [s EXCEPT !.value = <<>>] ELSE s
    BY Zenon DEF ReadField
  <1>3. /\ [s EXCEPT !.value = Null] = [value |-> Null, left |-> <<>>]
        /\ [s EXCEPT !.value = <<>>] = [value |-> <<>>, left |-> <<>>]
    BY <1>1
  <1> HIDE DEF s, Null
  <1> QED BY <1>1, <1>2, <1>3

LEMMA StringForms ==
  ASSUME NEW words, NEW n, NEW there, n = Head(words), there = Tail(words),
         n \in Nat, Len(there) \in Nat
  PROVE  /\ n = Base - 1 => ReadString(words) = [value |-> Null, left |-> there]
         /\ n # Base - 1 /\ n % 2 = 1 =>
                ReadString(words) = [value |-> <<>>, left |-> there]
         /\ n # Base - 1 /\ n % 2 = 0 /\ n > 4 * Len(there) =>
                ReadString(words) = [value |-> <<>>, left |-> <<>>]
         /\ n # Base - 1 /\ n % 2 = 0 /\ n <= 4 * Len(there) =>
                ReadString(words) = [value |-> SubSeq(there, 1, n \div 4),
                                     left  |-> From(there, n \div 4 + 1)]
  <1>1. /\ (Base - 1) % 2 # 0
        /\ n % 2 = 1 => n % 2 # 0
        /\ n <= 4 * Len(there) => ~(n > 4 * Len(there))
        /\ n > 4 * Len(there) => ~(n <= 4 * Len(there))
        /\ 1 # 0
    BY BaseValue
  <1> QED BY <1>1, Zenon DEF ReadString

LEMMA WordsOf ==
  ASSUME NEW a \in W32, NEW b \in W32
  PROVE  /\ <<a>> \in Seq(W32) /\ <<a>> # <<>> /\ Len(<<a>>) = 1 /\ <<a>>[1] = a
         /\ <<a, b>> \in Seq(W32) /\ <<a, b>> # <<>> /\ Len(<<a, b>>) = 2
         /\ <<a, b>>[1] = a /\ <<a, b>>[2] = b
  OBVIOUS

LEMMA FieldTyped ==
  ASSUME NEW type, NEW v, Writable(type, v)
  PROVE  Field(type, v) \in Seq(W32) /\ Field(type, v) # <<>>
  <1>1. CASE type \in {"u32", "i64"} /\ v \in Int
    <2> DEFINE high == (v \div Base) % Base
               low == v % Base
    <2>1. high \in W32 /\ low \in W32
      BY <1>1, WordOf
    <2>2. Field(type, v) = <<low>> \/ Field(type, v) = <<high, low>>
      BY <1>1, FieldForms, Zenon
    <2> HIDE DEF high, low
    <2>3. /\ <<low>> \in Seq(W32) /\ <<low>> # <<>>
          /\ <<high, low>> \in Seq(W32) /\ <<high, low>> # <<>>
      BY <2>1
    <2> QED BY <2>2, <2>3, Zenon
  <1>2. CASE type = "f64" /\ v \in Nat /\ Base \div 4 + v < Base
    <2>1. Base \div 4 + v \in 0 .. Base - 1 /\ 0 \in 0 .. Base - 1
      BY <1>2, BaseValue
    <2>2. Field(type, v) = <<0, 0>> \/ Field(type, v) = <<Base \div 4 + v, 0>>
      BY <1>2, FieldForms, Zenon DEF Bits
    <2> DEFINE bits == Base \div 4 + v
    <2>3. bits \in W32 /\ 0 \in W32
      BY <2>1, Zenon DEF W32
    <2>4. /\ <<0, 0>> \in Seq(W32) /\ <<0, 0>> # <<>>
          /\ <<bits, 0>> \in Seq(W32) /\ <<bits, 0>> # <<>>
      <3> HIDE DEF bits
      <3> QED BY <2>3
    <2> QED BY <2>2, <2>4, Zenon
  <1>3. CASE type \in {"qstr", "lptstr"} /\ Text(v)
    <2>1. CASE v = Null
      <3>1. Base - 1 \in W32 /\ 0 \in W32
        BY BaseValue DEF W32
      <3>2. Field(type, v) = <<Base - 1>> \/ Field(type, v) = <<0>>
        BY <1>3, <2>1, FieldForms, Zenon
      <3> QED BY <3>1, <3>2, WordsOf, Zenon
    <2>2. CASE v # Null
      <3>1. v \in Seq(W32) /\ 4 * Len(v) \in W32
        BY <1>3, <2>2, BaseValue DEF Text, Content, W32
      <3>2. Field(type, v) = <<4 * Len(v)>> \o v
        BY <1>3, <2>2, FieldForms, Zenon
      <3>3. (<<4 * Len(v)>> \o v) \in Seq(W32) /\ (<<4 * Len(v)>> \o v) # <<>>
        BY <3>1
      <3> QED BY <3>2, <3>3, Zenon
    <2> QED BY <2>1, <2>2
  <1> QED BY <1>1, <1>2, <1>3, Zenon DEF Writable

LEMMA StringRead ==
  ASSUME NEW v, Content(v), NEW s \in Seq(W32)
  PROVE  ReadString((<<4 * Len(v)>> \o v) \o s) = [value |-> v, left |-> s]
  <1> DEFINE n == 4 * Len(v)
             words == (<<n>> \o v) \o s
  <1>1. n \in W32 /\ v \in Seq(W32) /\ Len(v) \in Nat
    BY BaseValue DEF Content, W32
  <1>2. /\ Head(words) = n /\ Tail(words) = v \o s
        /\ SubSeq(v \o s, 1, Len(v)) = v
        /\ SubSeq(v \o s, Len(v) + 1, Len(v \o s)) = s
        /\ Len(v \o s) = Len(v) + Len(s) /\ Len(s) \in Nat
    <2> HIDE DEF n
    <2>1. Head(words) = n /\ Tail(words) = v \o s
      BY <1>1
    <2>2. /\ SubSeq(v \o s, 1, Len(v)) = v
          /\ SubSeq(v \o s, Len(v) + 1, Len(v \o s)) = s
          /\ Len(v \o s) = Len(v) + Len(s) /\ Len(s) \in Nat
      BY <1>1
    <2> QED BY <2>1, <2>2
  <1>3. n # Base - 1 /\ n % 2 = 0 /\ n \in Nat /\ n \div 4 = Len(v)
    BY <1>1 DEF Content
  <1>4. n <= 4 * Len(v \o s)
    BY <1>1, <1>2
  <1> HIDE DEF n, words
  <1>5. ReadString(words) = [value |-> SubSeq(Tail(words), 1, n \div 4),
                             left  |-> From(Tail(words), n \div 4 + 1)]
    <2> DEFINE there == Tail(words)
    <2>1. n = Head(words) /\ there = Tail(words) /\ Len(there) \in Nat
      BY <1>2
    <2>2. n <= 4 * Len(there)
      BY <1>2, <1>4
    <2> HIDE DEF there
    <2>3. ReadString(words) = [value |-> SubSeq(there, 1, n \div 4),
                               left  |-> From(there, n \div 4 + 1)]
      BY <1>3, <2>1, <2>2, StringForms, Zenon
    <2> QED BY <2>1, <2>3, Zenon
  <1> QED BY <1>2, <1>3, <1>5 DEF From, words, n

LEMMA NullRead ==
  ASSUME NEW s \in Seq(W32)
  PROVE  ReadString(<<Base - 1>> \o s) = [value |-> Null, left |-> s]
  <1>1. Head(<<Base - 1>> \o s) = Base - 1 /\ Tail(<<Base - 1>> \o s) = s
    OBVIOUS
  <1>2. Base - 1 \in Nat /\ Len(s) \in Nat
    BY BaseValue
  <1> HIDE DEF Null
  <1> QED BY <1>1, <1>2, StringForms


\* Division.
LEMMA DivUnique ==
  ASSUME NEW B \in Nat, B > 0, NEW v \in Int, NEW q \in Int, NEW r \in 0 .. B - 1,
         v = q * B + r
  PROVE  v % B = r /\ v \div B = q
  OBVIOUS

LEMMA DivExists ==
  ASSUME NEW B \in Nat, B > 0, NEW v \in Int
  PROVE  \E q \in Int, r \in 0 .. B - 1 :
            v = q * B + r /\ v % B = r /\ v \div B = q
  <1>1. PICK q \in Int : q = v \div B
    OBVIOUS
  <1>2. v >= q * B /\ v < (q + 1) * B
    BY <1>1
  <1>3. (q + 1) * B = q * B + B
    OBVIOUS
  <1>4. PICK r \in 0 .. B - 1 : v = q * B + r
    <2>1. v - q * B \in 0 .. B - 1 /\ v = q * B + (v - q * B)
      BY <1>2, <1>3
    <2> QED BY <2>1
  <1>5. v % B = r
    BY <1>4, DivUnique
  <1> QED BY <1>1, <1>4, <1>5, Zenon

\* A number that fits 2n bits comes back from its two halves of n bits.
LEMMA TwoWords ==
  ASSUME NEW B \in Nat, B > 0, NEW H \in Nat, B = 2 * H,
         NEW v \in -(B * H) .. B * H - 1
  PROVE  \E high \in 0 .. B - 1, low \in 0 .. B - 1, n \in Int :
            /\ (v \div B) % B = high /\ v % B = low
            /\ n = high * B + low
            /\ v = IF n < B * H THEN n ELSE n - B * B
  <1>1. PICK q \in Int, low \in 0 .. B - 1 :
            v = q * B + low /\ v % B = low /\ v \div B = q
    BY DivExists
  <1>2. q < H
    BY <1>1
  <1>3. q >= -H
    BY <1>1
  <1>4. CASE q >= 0
    <2>1. q \in 0 .. B - 1 /\ q % B = q
      BY <1>2, <1>4
    <2>2. q * B + B <= H * B
      BY <1>2, <1>4
    <2>3. q * B + low < B * H
      BY <2>2
    <2> QED BY <1>1, <2>1, <2>3
  <1>5. CASE q < 0
    <2>1. q + B \in 0 .. B - 1 /\ q % B = q + B
      BY <1>3, <1>5
    <2>2. /\ q * B >= -(H * B) /\ (q + B) * B = q * B + B * B
          /\ B * B = 2 * (B * H)
      BY <1>3, <1>5
    <2>3. ~((q + B) * B + low < B * H) /\ (q + B) * B + low - B * B = q * B + low
      BY <2>2
    <2> QED BY <1>1, <2>1, <2>3
  <1> QED BY <1>4, <1>5

-----------------------------------------------------------------------------
\* A field read as it was written: the value, and the words behind it.
LEMMA WordRead ==
  ASSUME NEW a \in W32, NEW s \in Seq(W32)
  PROVE  LET words == <<a>> \o s
         IN  words # <<>> /\ Head(words) = a /\ Tail(words) = s
  OBVIOUS

LEMMA TwoWordsRead ==
  ASSUME NEW a \in W32, NEW b \in W32, NEW s \in Seq(W32)
  PROVE  LET words == <<a, b>> \o s
         IN  /\ ~(Len(words) < 2) /\ words[1] = a /\ words[2] = b
             /\ From(words, 3) = s
  BY DEF From

LEMMA FieldKept ==
  ASSUME NEW w, NEW r, NEW v, Kept(w, r, v), NEW s \in Seq(W32)
  PROVE  ReadField(r, Field(w, v) \o s) = [value |-> v, left |-> s]
  <1>1. CASE w = "u32" /\ r = "u32" /\ v \in W32
    <2>1. v % Base = v
      BY <1>1, BaseValue DEF W32
    <2>2. Field(w, v) = <<v>>
      BY <1>1, <2>1, FieldForms, Zenon
    <2>3. ReadField("u32", <<v>> \o s) = [value |-> v, left |-> s]
      BY <1>1, ReadForms, WordRead, Zenon
    <2> QED BY <1>1, <2>2, <2>3, Zenon
  <1>2. CASE w = "u32" /\ r = "i32" /\ v \in -(Base \div 2) .. (Base \div 2) - 1
    <2> DEFINE a == v % Base
               H == Base \div 2
    <2>1. a \in W32
      BY <1>2, WordOf
    <2>2. v = IF a < H THEN a ELSE a - Base
      <3>1. Base \in Nat /\ Base > 0 /\ H \in Nat /\ Base = 2 * H /\ v \in -H .. H - 1
        BY <1>2, BaseValue
      <3>2. CASE v >= 0
        <4>1. v \in 0 .. Base - 1 /\ v = 0 * Base + v /\ v \in Int
          <5> HIDE DEF H
          <5> QED BY <3>1, <3>2
        <4>2. a = v
          BY <3>1, <4>1, DivUnique
        <4> HIDE DEF a, H
        <4> QED BY <3>1, <4>2
      <3>3. CASE v < 0
        <4>1. v + Base \in 0 .. Base - 1 /\ v = (-1) * Base + (v + Base) /\ v \in Int
          <5> HIDE DEF H
          <5> QED BY <3>1, <3>3
        <4>2. a = v + Base
          BY <3>1, <4>1, DivUnique
        <4> HIDE DEF a, H
        <4> QED BY <3>1, <3>3, <4>2
      <3> QED BY <3>1, <3>2, <3>3
    <2>3. Field(w, v) = <<a>>
      BY <1>2, FieldForms, Zenon
    <2> HIDE DEF a, H
    <2>4. ReadField("i32", <<a>> \o s) =
            [value |-> IF a < H THEN a ELSE a - Base, left |-> s]
      BY <2>1, ReadForms, WordRead, Zenon DEF H
    <2> QED BY <1>2, <2>2, <2>3, <2>4, Zenon
  <1>3. CASE /\ w = "i64" /\ r = "i64"
             /\ v \in -(Base * (Base \div 2)) .. Base * (Base \div 2) - 1
    <2>1. PICK a \in 0 .. Base - 1, b \in 0 .. Base - 1, n \in Int :
            /\ (v \div Base) % Base = a /\ v % Base = b
            /\ n = a * Base + b
            /\ v = IF n < Base * (Base \div 2) THEN n ELSE n - Base * Base
      <3> DEFINE H == Base \div 2
      <3>1. Base \in Nat /\ Base > 0 /\ H \in Nat /\ Base = 2 * H
        BY BaseValue
      <3>2. v \in -(Base * H) .. Base * H - 1
        BY <1>3
      <3> HIDE DEF H
      <3>3. \E a \in 0 .. Base - 1, b \in 0 .. Base - 1, n \in Int :
            /\ (v \div Base) % Base = a /\ v % Base = b
            /\ n = a * Base + b
            /\ v = IF n < Base * H THEN n ELSE n - Base * Base
        BY <3>1, <3>2, TwoWords
      <3> QED BY <3>3, Zenon DEF H
    <2>2. Field(w, v) = <<a, b>>
      BY <1>3, <2>1, FieldForms, Zenon
    <2>3. v = Signed(a * Base + b)
      <3>1. Signed(n) = IF n < Base * (Base \div 2) THEN n ELSE n - Base * Base
        BY Zenon DEF Signed
      <3>2. v = Signed(n)
        BY <2>1, <3>1, Zenon
      <3> QED BY <2>1, <3>2, Zenon
    <2>4. a \in W32 /\ b \in W32
      BY Zenon DEF W32
    <2>5. ReadField("i64", <<a, b>> \o s) =
            [value |-> Signed(a * Base + b), left |-> s]
      <3> DEFINE words == <<a, b>> \o s
      <3>1. ~(Len(words) < 2) /\ words[1] = a /\ words[2] = b /\ From(words, 3) = s
        BY <2>4, TwoWordsRead
      <3> HIDE DEF words
      <3>2. ReadField("i64", words) =
              [value |-> Signed(words[1] * Base + words[2]), left |-> From(words, 3)]
        BY <3>1, ReadForms, Zenon
      <3> QED BY <3>1, <3>2, Zenon DEF words
    <2> QED BY <1>3, <2>2, <2>3, <2>5, Zenon
  <1>4. CASE w = "qstr" /\ r \in {"lpstr", "buffer"} /\ Content(v)
             /\ (r = "lpstr" => v # <<>>)
    <2>1. v # Null
      BY <1>4, NullIsNoText DEF Content
    <2> DEFINE words == (<<4 * Len(v)>> \o v) \o s
    <2>2. Field(w, v) \o s = words
      BY <1>4, <2>1, FieldForms, Zenon
    <2>3. words # <<>>
      <3>1. v \in Seq(W32) /\ 4 * Len(v) \in W32
        BY <1>4, BaseValue DEF Content, W32
      <3> QED BY <3>1
    <2>4. ReadString(words) = [value |-> v, left |-> s]
      BY <1>4, StringRead
    <2> HIDE DEF words
    <2>5. ReadField("lpstr", words) =
              [value |-> IF v = <<>> THEN Null ELSE v, left |-> s]
      BY <2>3, <2>4, TextForms, Zenon
    <2>6. ReadField("buffer", words) = [value |-> v, left |-> s]
      BY <2>1, <2>3, <2>4, TextForms, Zenon
    <2> QED BY <1>4, <2>2, <2>5, <2>6, Zenon
  <1>5. CASE w = "qstr" /\ r = "lpstr" /\ v = Null
    <2> DEFINE words == <<Base - 1>> \o s
    <2>1. words # <<>>
      <3>1. Base - 1 \in W32
        BY BaseValue DEF W32
      <3> QED BY <3>1
    <2>2. Field(w, v) \o s = words
      BY <1>5, FieldForms, Zenon
    <2>3. ReadString(words) = [value |-> Null, left |-> s]
      BY NullRead
    <2>4. Null # <<>>
      BY DEF Null
    <2> HIDE DEF words
    <2> QED BY <1>5, <2>1, <2>2, <2>3, <2>4, TextForms, Zenon
  <1> QED BY <1>1, <1>2, <1>3, <1>4, <1>5, Zenon DEF Kept, Text

LEMMA KeptWritable ==
  ASSUME NEW w, NEW r, NEW v, Kept(w, r, v)
  PROVE  Writable(w, v) /\ SameWidth(w, r)
  <1>1. CASE w = "u32" /\ r \in {"u32", "i32"} /\ v \in Int
    BY <1>1, Zenon DEF Writable, SameWidth
  <1>2. CASE w = "i64" /\ r = "i64" /\ v \in Int
    BY <1>2, Zenon DEF Writable, SameWidth
  <1>3. CASE w = "qstr" /\ r \in {"lpstr", "buffer"} /\ Text(v)
    BY <1>3, Zenon DEF Writable, SameWidth
  <1>4. /\ \A n \in W32 : n \in Int
        /\ \A n \in -(Base \div 2) .. (Base \div 2) - 1 : n \in Int
    BY BaseValue DEF W32
  <1>5. \A n \in -(Base * (Base \div 2)) .. Base * (Base \div 2) - 1 : n \in Int
    <2> DEFINE P == Base * (Base \div 2)
    <2>1. P \in Int
      BY BaseValue
    <2> HIDE DEF P
    <2>2. \A n \in -P .. P - 1 : n \in Int
      BY <2>1
    <2> QED BY <2>2, Zenon DEF P
  <1>6. \/ w = "u32" /\ r \in {"u32", "i32"} /\ v \in Int
        \/ w = "i64" /\ r = "i64" /\ v \in Int
        \/ w = "qstr" /\ r \in {"lpstr", "buffer"} /\ Text(v)
    BY <1>4, <1>5, Zenon DEF Kept, Text
  <1> QED BY <1>1, <1>2, <1>3, <1>6, Zenon

\* A reader of r takes v, written as w, for value, whatever follows it.
Takes(w, r, v, value) ==
    \A s \in Seq(W32) :
        ReadField(r, Field(w, v) \o s) = [value |-> value, left |-> s]

\* Of two types of one width, what is read may differ from what was written,
\* but the reader takes no more and no less.
LEMMA SameWidthRead ==
  ASSUME NEW w, NEW r, NEW v, Writable(w, v), SameWidth(w, r)
  PROVE  \E value : Takes(w, r, v, value)
  <1>1. CASE w = "u32" /\ r \in {"u32", "i32"} /\ v \in Int
    <2> DEFINE a == v % Base
               value == IF r = "u32" THEN a
                        ELSE IF a < Base \div 2 THEN a ELSE a - Base
    <2>1. a \in W32
      BY <1>1, WordOf
    <2>2. Field(w, v) = <<a>>
      BY <1>1, FieldForms, Zenon
    <2> HIDE DEF a
    <2>3. ASSUME NEW s \in Seq(W32)
          PROVE  ReadField(r, <<a>> \o s) = [value |-> value, left |-> s]
      <3> DEFINE words == <<a>> \o s
      <3>1. words # <<>> /\ Head(words) = a /\ Tail(words) = s
        BY <2>1, WordRead
      <3> HIDE DEF words
      <3>2. /\ ReadField("u32", words) = [value |-> a, left |-> s]
            /\ ReadField("i32", words) =
                  [value |-> IF a < Base \div 2 THEN a ELSE a - Base, left |-> s]
        BY <3>1, ReadForms, Zenon
      <3>3. CASE r = "u32"
        BY <3>2, <3>3, Zenon DEF words
      <3>4. CASE r = "i32"
        <4>1. value = IF a < Base \div 2 THEN a ELSE a - Base
          BY <3>4, Zenon
        <4> QED BY <3>2, <3>4, <4>1, Zenon DEF words
      <3> QED BY <1>1, <3>3, <3>4, Zenon
    <2> QED BY <2>2, <2>3, Zenon DEF Takes
  <1>2. CASE w = "i64" /\ r \in {"i64", "u64"} /\ v \in Int
    <2> DEFINE a == (v \div Base) % Base
               b == v % Base
               value == IF r = "i64" THEN Signed(a * Base + b) ELSE a * Base + b
    <2>1. a \in W32 /\ b \in W32
      BY <1>2, WordOf
    <2>2. Field(w, v) = <<a, b>>
      BY <1>2, FieldForms, Zenon
    <2> HIDE DEF a, b
    <2>3. ASSUME NEW s \in Seq(W32)
          PROVE  ReadField(r, <<a, b>> \o s) = [value |-> value, left |-> s]
      <3> DEFINE words == <<a, b>> \o s
      <3>1. ~(Len(words) < 2) /\ words[1] = a /\ words[2] = b /\ From(words, 3) = s
        BY <2>1, TwoWordsRead
      <3> HIDE DEF words
      <3>2. /\ ReadField("i64", words) =
                  [value |-> Signed(words[1] * Base + words[2]), left |-> From(words, 3)]
            /\ ReadField("u64", words) =
                  [value |-> words[1] * Base + words[2], left |-> From(words, 3)]
        BY <3>1, ReadForms, Zenon
      <3>3. CASE r = "i64"
        BY <3>1, <3>2, <3>3, Zenon DEF words
      <3>4. CASE r = "u64"
        <4>1. value = a * Base + b
          BY <3>4, Zenon
        <4> QED BY <3>1, <3>2, <3>4, <4>1, Zenon DEF words
      <3> QED BY <1>2, <3>3, <3>4, Zenon
    <2> QED BY <2>2, <2>3, Zenon DEF Takes
  <1>3. CASE w \in {"qstr", "lptstr"} /\ r \in {"lpstr", "buffer"} /\ Text(v)
    <2>1. CASE \E n \in W32 : Field(w, v) = <<n>> /\ n \in {0, Base - 1}
      <3>1. PICK n \in W32 : Field(w, v) = <<n>> /\ n \in {0, Base - 1}
        BY <2>1
      <3> DEFINE value == IF r = "lpstr" THEN Null ELSE <<>>
      <3>2. ASSUME NEW s \in Seq(W32)
            PROVE  ReadField(r, <<n>> \o s) = [value |-> value, left |-> s]
        <4> DEFINE words == <<n>> \o s
        <4>1. words # <<>> /\ n = Head(words) /\ s = Tail(words)
          BY WordRead
        <4>2. Len(s) \in Nat /\ n \in Nat
          BY BaseValue DEF W32
        <4> HIDE DEF words
        <4>3. \E x \in {Null, <<>>} : ReadString(words) = [value |-> x, left |-> s]
          <5>1. CASE n = Base - 1
            BY <4>1, <4>2, <5>1, StringForms, Zenon
          <5>2. CASE n = 0
            <6>1. n # Base - 1 /\ n % 2 = 0 /\ n <= 4 * Len(s) /\ n \div 4 = 0
              BY <4>2, <5>2, BaseValue
            <6>2. ReadString(words) = [value |-> SubSeq(s, 1, n \div 4),
                                       left |-> From(s, n \div 4 + 1)]
              BY <4>1, <4>2, <6>1, StringForms, Zenon
            <6>3. SubSeq(s, 1, 0) = <<>> /\ From(s, 0 + 1) = s
              BY DEF From
            <6> QED BY <6>1, <6>2, <6>3, Zenon
          <5> QED BY <3>1, <5>1, <5>2, Zenon
        <4>4. Null # <<>>
          BY DEF Null
        <4>5. PICK x \in {Null, <<>>} : ReadString(words) = [value |-> x, left |-> s]
          BY <4>3
        <4>6. /\ ReadField("lpstr", words) =
                    [value |-> IF x = <<>> THEN Null ELSE x, left |-> s]
              /\ ReadField("buffer", words) =
                    [value |-> IF x = Null THEN <<>> ELSE x, left |-> s]
          BY <4>1, <4>5, TextForms, Zenon
        <4>7. /\ ReadField("lpstr", words) = [value |-> Null, left |-> s]
              /\ ReadField("buffer", words) = [value |-> <<>>, left |-> s]
          BY <4>4, <4>5, <4>6, Zenon
        <4>8. CASE r = "lpstr"
          BY <4>7, <4>8, Zenon DEF words
        <4>9. CASE r = "buffer"
          BY <4>7, <4>9, Zenon DEF words
        <4> QED BY <1>3, <4>8, <4>9, Zenon
      <3> QED BY <3>1, <3>2, Zenon DEF Takes
    <2>2. CASE Content(v)
      <3> DEFINE value == IF r = "lpstr" /\ v = <<>> THEN Null ELSE v
      <3>1. v # Null
        BY <2>2, NullIsNoText DEF Content
      <3>2. Field(w, v) = <<4 * Len(v)>> \o v
        BY <1>3, <3>1, FieldForms, Zenon
      <3>3. ASSUME NEW s \in Seq(W32)
            PROVE  ReadField(r, (<<4 * Len(v)>> \o v) \o s) = [value |-> value, left |-> s]
        <4> DEFINE words == (<<4 * Len(v)>> \o v) \o s
        <4>1. words # <<>>
          <5>1. v \in Seq(W32) /\ 4 * Len(v) \in W32
            BY <2>2, BaseValue DEF Content, W32
          <5> QED BY <5>1
        <4>2. ReadString(words) = [value |-> v, left |-> s]
          BY <2>2, StringRead
        <4> HIDE DEF words
        <4>3. ReadField("lpstr", words) =
                  [value |-> IF v = <<>> THEN Null ELSE v, left |-> s]
          BY <4>1, <4>2, TextForms, Zenon
        <4>4. ReadField("buffer", words) = [value |-> v, left |-> s]
          BY <3>1, <4>1, <4>2, TextForms, Zenon
        <4>5. CASE r = "lpstr"
          <5>1. value = IF v = <<>> THEN Null ELSE v
            BY <4>5, Zenon
          <5> QED BY <4>3, <4>5, <5>1, Zenon DEF words
        <4>6. CASE r = "buffer"
          <5>1. value = v
            BY <4>6, Zenon
          <5> QED BY <4>4, <4>6, <5>1, Zenon DEF words
        <4> QED BY <1>3, <4>5, <4>6, Zenon
      <3> QED BY <3>2, <3>3, Zenon DEF Takes
    <2>3. CASE v = Null
      <3>1. 0 \in W32 /\ Base - 1 \in W32
        BY BaseValue DEF W32
      <3> QED BY <1>3, <2>1, <2>3, <3>1, FieldForms, Zenon
    <2> QED BY <1>3, <2>2, <2>3, Zenon DEF Text
  <1>4. CASE w = "f64"
    BY <1>4, Zenon DEF SameWidth
  <1> QED BY <1>1, <1>2, <1>3, <1>4, Zenon DEF Writable, SameWidth

-----------------------------------------------------------------------------
(***************************************************************************)
(* Lists of fields.                                                        *)
(***************************************************************************)
LEMMA WordsTyped ==
  ASSUME NEW types, NEW values, NEW w, Len(types) \in Nat,
         IsWords(w, types, values),
         \A i \in 1 .. Len(types) : Writable(types[i], values[i])
  PROVE  \A i \in 1 .. Len(types) + 1 : w[i] \in Seq(W32)
  <1> DEFINE n == Len(types)
             S == {k \in 0 .. n : w[n + 1 - k] \in Seq(W32)}
  <1>0. n \in Nat
    OBVIOUS
  <1>1. \A i \in 1 .. n + 1 :
            w[i] = IF i > n THEN <<>> ELSE Field(types[i], values[i]) \o w[i + 1]
    BY Zenon DEF IsWords
  <1>2. 0 \in S
    <2>1. n + 1 \in 1 .. n + 1 /\ n + 1 > n /\ n + 1 - 0 = n + 1 /\ 0 \in 0 .. n
      BY <1>0
    <2>2. w[n + 1] = <<>>
      BY <1>1, <2>1, Zenon
    <2>3. w[n + 1] \in Seq(W32)
      BY <2>2
    <2> QED BY <2>1, <2>3, Zenon
  <1>3. ASSUME NEW k \in 0 .. n - 1, k \in S PROVE k + 1 \in S
    <2> DEFINE i == n - k
    <2>1. /\ i \in 1 .. n /\ i \in 1 .. n + 1 /\ ~(i > n) /\ k + 1 \in 0 .. n
          /\ n + 1 - (k + 1) = i /\ n + 1 - k = i + 1
      BY <1>0
    <2>2. w[i + 1] \in Seq(W32)
      BY <1>3, <2>1, Zenon
    <2> HIDE DEF i
    <2>3. w[i] = Field(types[i], values[i]) \o w[i + 1]
      BY <1>1, <2>1, Zenon
    <2>4. Field(types[i], values[i]) \in Seq(W32)
      BY <2>1, FieldTyped, Zenon
    <2>5. w[i] \in Seq(W32)
      <3> DEFINE f == Field(types[i], values[i])
      <3>1. \A s, u \in Seq(W32) : s \o u \in Seq(W32)
        BY ConcatProperties
      <3> QED BY <2>2, <2>3, <2>4, <3>1, Zenon
    <2> QED BY <2>1, <2>5, Zenon
  <1>4. 0 .. n \subseteq S
    <2> HIDE DEF S, n
    <2> QED BY <1>0, <1>2, <1>3, UpTo
  <1>5. ASSUME NEW i \in 1 .. n + 1 PROVE w[i] \in Seq(W32)
    <2>1. n + 1 - i \in 0 .. n /\ n + 1 - (n + 1 - i) = i
      BY <1>0
    <2>2. n + 1 - i \in S
      BY <1>4, <2>1, Zenon
    <2> QED BY <2>1, <2>2, Zenon
  <1> QED BY <1>5, Zenon

\* What is written is a sequence of words.
LEMMA FieldsTyped ==
  ASSUME NEW types, NEW values, Len(types) \in Nat,
         \A i \in 1 .. Len(types) : Writable(types[i], values[i])
  PROVE  Fields(types, values) \in Seq(W32)
  <1>1. PICK w : IsWords(w, types, values) /\ Fields(types, values) = w[1]
    BY FieldsDefined, Zenon
  <1>2. \A i \in 1 .. Len(types) + 1 : w[i] \in Seq(W32)
    BY <1>1, WordsTyped, Zenon
  <1>3. 1 \in 1 .. Len(types) + 1
    OBVIOUS
  <1> QED BY <1>1, <1>2, <1>3, Zenon

\* A list of fields, each of which its reader takes whole and reads as got,
\* is read as the list of what was got, and the words behind it are left.
LEMMA ListRead ==
  ASSUME NEW types, NEW values, NEW reads, NEW S, NEW got \in Seq(S),
         Len(types) = Len(got), Len(reads) = Len(got),
         \A i \in 1 .. Len(got) :
            /\ Writable(types[i], values[i])
            /\ Takes(types[i], reads[i], values[i], got[i]),
         NEW t \in Seq(W32)
  PROVE  ReadFields(reads, Fields(types, values) \o t) = [values |-> got, left |-> t]
  <1> DEFINE n == Len(got)
             words == Fields(types, values) \o t
  <1>0. n \in Nat /\ Len(types) \in Nat /\ Len(reads) \in Nat
    OBVIOUS
  <1>1. PICK w : IsWords(w, types, values) /\ Fields(types, values) = w[1]
    BY <1>0, FieldsDefined, Zenon
  <1>2. PICK r : IsReading(r, reads, words) /\ ReadFields(reads, words) = r[n]
    BY <1>0, ReadingDefined, Zenon
  <1>3. \A i \in 1 .. n + 1 : w[i] \in Seq(W32)
    BY <1>0, <1>1, WordsTyped, Zenon
  <1>4. \A i \in 1 .. n + 1 :
            w[i] = IF i > n THEN <<>> ELSE Field(types[i], values[i]) \o w[i + 1]
    BY <1>1, Zenon DEF IsWords
  <1>5. \A i \in 0 .. n : r[i] =
            IF i = 0 THEN [values |-> <<>>, left |-> words]
            ELSE LET before == r[i - 1]
                     f == ReadField(reads[i], before.left)
                 IN  [values |-> Append(before.values, f.value), left |-> f.left]
    BY <1>2, Zenon DEF IsReading
  <1> DEFINE Done(i) == [values |-> SubSeq(got, 1, i), left |-> w[i + 1] \o t]
             P == {i \in 0 .. n : r[i] = Done(i)}
  <1>6. 0 \in P
    <2>1. 0 \in 0 .. n /\ 0 + 1 = 1
      BY <1>0
    <2>2. r[0] = [values |-> <<>>, left |-> words]
      BY <1>5, <2>1, Zenon
    <2>3. SubSeq(got, 1, 0) = <<>>
      OBVIOUS
    <2> QED BY <1>1, <2>1, <2>2, <2>3, Zenon
  <1>7. ASSUME NEW k \in 0 .. n - 1, k \in P PROVE k + 1 \in P
    <2> DEFINE i == k + 1
    <2>1. /\ i \in 1 .. n /\ i \in 0 .. n /\ i # 0 /\ i - 1 = k
          /\ i \in 1 .. n + 1 /\ i + 1 \in 1 .. n + 1 /\ ~(i > n)
      BY <1>0
    <2>2. r[k] = [values |-> SubSeq(got, 1, k), left |-> w[i] \o t]
      BY <1>7, Zenon
    <2> HIDE DEF i
    <2> DEFINE before == r[k]
               f == ReadField(reads[i], before.left)
    <2>3. r[i] = [values |-> Append(before.values, f.value), left |-> f.left]
      BY <1>5, <2>1, Zenon
    <2>4. before.values = SubSeq(got, 1, k) /\ before.left = w[i] \o t
      BY <2>2
    <2>5. w[i] \o t = Field(types[i], values[i]) \o (w[i + 1] \o t)
      <3>1. w[i] = Field(types[i], values[i]) \o w[i + 1]
        BY <1>4, <2>1, Zenon
      <3>2. Field(types[i], values[i]) \in Seq(W32)
        BY <2>1, FieldTyped, Zenon
      <3>3. w[i + 1] \in Seq(W32)
        BY <1>3, <2>1, Zenon
      <3> DEFINE a == Field(types[i], values[i])
                 b == w[i + 1]
      <3>4. (a \o b) \o t = a \o (b \o t)
        <4>1. a \in Seq(W32) /\ b \in Seq(W32)
          BY <3>2, <3>3, Zenon
        <4> HIDE DEF a, b
        <4> QED BY <4>1
      <3> QED BY <3>1, <3>4, Zenon
    <2>6. w[i + 1] \o t \in Seq(W32)
      <3>1. w[i + 1] \in Seq(W32)
        BY <1>3, <2>1, Zenon
      <3>2. \A a, b \in Seq(W32) : a \o b \in Seq(W32)
        OBVIOUS
      <3> QED BY <3>1, <3>2, Zenon
    <2>7. f = [value |-> got[i], left |-> w[i + 1] \o t]
      <3>1. \A s \in Seq(W32) : ReadField(reads[i], Field(types[i], values[i]) \o s)
                                   = [value |-> got[i], left |-> s]
        BY <2>1, Zenon DEF Takes
      <3> QED BY <2>4, <2>5, <2>6, <3>1, Zenon
    <2>8. f.value = got[i] /\ f.left = w[i + 1] \o t
      <3> HIDE DEF f
      <3> QED BY <2>7
    <2>9. Append(SubSeq(got, 1, k), got[i]) = SubSeq(got, 1, i)
      BY <1>0, <2>1 DEF i
    <2>10. r[i] = Done(i)
      <3> HIDE DEF f, before
      <3>1. Append(before.values, f.value) = SubSeq(got, 1, i)
        BY <2>4, <2>8, <2>9
      <3> QED BY <2>3, <2>8, <3>1
    <2> HIDE DEF Done
    <2> QED BY <2>1, <2>10, Zenon DEF i
  <1>8. n \in P
    <2> HIDE DEF P, n
    <2>1. 0 .. n \subseteq P
      BY <1>0, <1>6, <1>7, UpTo
    <2> QED BY <1>0, <2>1
  <1>9. r[n] = [values |-> SubSeq(got, 1, n), left |-> w[n + 1] \o t]
    BY <1>8, Zenon
  <1>10. SubSeq(got, 1, n) = got
    OBVIOUS
  <1>11. w[n + 1] = <<>>
    <2>1. n + 1 \in 1 .. n + 1 /\ n + 1 > n
      BY <1>0
    <2> QED BY <1>4, <2>1, Zenon
  <1>12. <<>> \o t = t
    OBVIOUS
  <1> QED BY <1>2, <1>9, <1>10, <1>11, <1>12, Zenon

\* A value the two types tell from all others comes back as it was sent, and
\* the reader stands behind it: for lists of any length, with any words behind.
THEOREM RoundTrip ==
  ASSUME NEW types, NEW reads, NEW S, NEW values \in Seq(S),
         AllKept(types, reads, values), NEW t \in Seq(W32)
  PROVE  ReadFields(reads, Fields(types, values) \o t) = [values |-> values, left |-> t]
  <1>0. Len(types) = Len(values) /\ Len(reads) = Len(values)
    BY Zenon DEF AllKept
  <1>1. \A i \in 1 .. Len(values) :
            /\ Writable(types[i], values[i])
            /\ Takes(types[i], reads[i], values[i], values[i])
    <2> TAKE i \in 1 .. Len(values)
    <2>1. Kept(types[i], reads[i], values[i])
      BY Zenon DEF AllKept
    <2>2. Writable(types[i], values[i])
      BY <2>1, KeptWritable
    <2>3. Takes(types[i], reads[i], values[i], values[i])
      BY <2>1, FieldKept DEF Takes
    <2> QED BY <2>2, <2>3
  <1> QED BY <1>0, <1>1, ListRead

\* Between types of the same widths the reader stands behind what was sent,
\* whatever it made of it.
LEMMA StaysInStep ==
  ASSUME NEW types, NEW values, NEW reads, Len(types) \in Nat,
         Len(reads) = Len(types),
         \A i \in 1 .. Len(types) :
            Writable(types[i], values[i]) /\ SameWidth(types[i], reads[i]),
         NEW t \in Seq(W32)
  PROVE  ReadFields(reads, Fields(types, values) \o t).left = t
  <1> DEFINE n == Len(types)
             got == [i \in 1 .. n |->
                       CHOOSE value : Takes(types[i], reads[i], values[i], value)]
             S == {got[i] : i \in 1 .. n}
  <1>1. \A i \in 1 .. n : \E value : Takes(types[i], reads[i], values[i], value)
    BY SameWidthRead
  <1>2. \A i \in 1 .. n : Takes(types[i], reads[i], values[i], got[i])
    <2> HIDE DEF n
    <2> QED BY <1>1, Zenon
  <1>3. got \in Seq(S) /\ Len(got) = n
    <2>1. \A i \in 1 .. n : got[i] \in S
      OBVIOUS
    <2>2. got \in [1 .. n -> S]
      <3> HIDE DEF n, S
      <3> QED BY <2>1, Zenon
    <2>3. n \in Nat
      OBVIOUS
    <2> HIDE DEF got, S, n
    <2> QED BY <2>2, <2>3
  <1>4. \A i \in 1 .. Len(got) :
            /\ Writable(types[i], values[i])
            /\ Takes(types[i], reads[i], values[i], got[i])
    BY <1>2, <1>3, Zenon
  <1>5. Len(types) = Len(got) /\ Len(reads) = Len(got)
    BY <1>3
  <1> HIDE DEF got, S
  <1>6. ReadFields(reads, Fields(types, values) \o t) = [values |-> got, left |-> t]
    BY <1>3, <1>4, <1>5, ListRead
  <1> QED BY <1>6

-----------------------------------------------------------------------------
(***************************************************************************)
(* What any reader leaves is an end of what it was given.                  *)
(***************************************************************************)
ReadTypes == {"u32", "i32", "i64", "u64", "lpstr", "buffer"}

IsEnd(s, words) == \E i \in 1 .. Len(words) + 1 : s = From(words, i)

LEMMA FromForms ==
  ASSUME NEW T, NEW words \in Seq(T), NEW i \in 1 .. Len(words) + 1
  PROVE  /\ From(words, i) \in Seq(T)
         /\ Len(From(words, i)) = Len(words) + 1 - i
         /\ \A j \in 1 .. Len(words) + 1 - i : From(words, i)[j] = words[i + j - 1]
         /\ \A j \in 1 .. Len(words) + 2 - i :
                From(From(words, i), j) = From(words, i + j - 1)
  <1>1. /\ From(words, i) \in Seq(T)
        /\ Len(From(words, i)) = Len(words) + 1 - i
        /\ \A j \in 1 .. Len(words) + 1 - i : From(words, i)[j] = words[i + j - 1]
    BY DEF From
  <1>2. ASSUME NEW j \in 1 .. Len(words) + 2 - i
        PROVE  From(From(words, i), j) = From(words, i + j - 1)
    <2> DEFINE s == From(words, i)
    <2>1. s \in Seq(T) /\ Len(s) = Len(words) + 1 - i
      BY <1>1
    <2>2. \A k \in 1 .. Len(words) + 1 - i : s[k] = words[i + k - 1]
      BY <1>1
    <2> HIDE DEF s
    <2>3. From(s, j) = SubSeq(s, j, Len(s)) /\ From(words, i + j - 1) = SubSeq(words, i + j - 1, Len(words))
      BY DEF From
    <2> DEFINE a == SubSeq(s, j, Len(s))
               b == SubSeq(words, i + j - 1, Len(words))
    <2>4. a = b
      <3>1. a \in Seq(T) /\ b \in Seq(T) /\ Len(a) = Len(b)
            /\ Len(a) = Len(words) + 2 - i - j
        BY <2>1
      <3>2. \A k \in 1 .. Len(words) + 2 - i - j :
                a[k] = s[j + k - 1] /\ b[k] = words[i + j - 1 + k - 1]
        BY <2>1
      <3>3. \A k \in 1 .. Len(words) + 2 - i - j : s[j + k - 1] = words[i + j - 1 + k - 1]
        <4> TAKE k \in 1 .. Len(words) + 2 - i - j
        <4>1. j + k - 1 \in 1 .. Len(words) + 1 - i /\ i + (j + k - 1) - 1 = i + j - 1 + k - 1
          OBVIOUS
        <4> QED BY <2>2, <4>1
      <3> HIDE DEF a, b
      <3>4. \A k \in 1 .. Len(a) : a[k] = b[k]
        BY <3>1, <3>2, <3>3
      <3> QED BY <3>1, <3>4, SeqEqual
    <2> QED BY <2>3, <2>4 DEF s
  <1> QED BY <1>1, <1>2

LEMMA FromEnds ==
  ASSUME NEW T, NEW words \in Seq(T)
  PROVE  /\ From(words, 1) = words
         /\ From(words, Len(words) + 1) = <<>>
         /\ words # <<>> => Tail(words) = From(words, 2)
  BY DEF From

LEMMA FieldEnd ==
  ASSUME NEW r \in ReadTypes, NEW T, NEW words \in Seq(T),
         T \subseteq W32
  PROVE  IsEnd(ReadField(r, words).left, words)
  <1> DEFINE n == Len(words)
             f == ReadField(r, words)
  <1>0. n \in Nat /\ \A i \in 1 .. n + 1 : IsEnd(From(words, i), words)
    BY DEF IsEnd
  <1>1. IsEnd(<<>>, words)
    <2>1. From(words, n + 1) = <<>> /\ n + 1 \in 1 .. n + 1
      BY FromEnds
    <2> QED BY <1>0, <2>1, Zenon
  <1>2. words # <<>> => IsEnd(Tail(words), words)
    <2>1. words # <<>> => Tail(words) = From(words, 2) /\ 2 \in 1 .. n + 1
      BY FromEnds
    <2> QED BY <1>0, <2>1, Zenon
  <1>3. CASE r \in {"u32", "i32"}
    <2>1. CASE words = <<>>
      <3>1. f = [value |-> 0, left |-> <<>>]
        BY <1>3, <2>1, ReadForms, Zenon
      <3> QED BY <1>1, <3>1
    <2>2. CASE words # <<>>
      <3>1. f.left = Tail(words)
        <4>1. \E x : f = [value |-> x, left |-> Tail(words)]
          BY <1>3, <2>2, ReadForms, Zenon
        <4> QED BY <4>1
      <3> QED BY <1>2, <2>2, <3>1, Zenon
    <2> QED BY <2>1, <2>2
  <1>4. CASE r \in {"i64", "u64"}
    <2>1. CASE n < 2
      <3>1. f = [value |-> 0, left |-> <<>>]
        BY <1>4, <2>1, ReadForms, Zenon
      <3> QED BY <1>1, <3>1
    <2>2. CASE ~(n < 2)
      <3>1. f.left = From(words, 3)
        <4>1. \E x : f = [value |-> x, left |-> From(words, 3)]
          BY <1>4, <2>2, ReadForms, Zenon
        <4> QED BY <4>1
      <3>2. 3 \in 1 .. n + 1
        BY <1>0, <2>2
      <3> QED BY <1>0, <3>1, <3>2, Zenon
    <2> QED BY <2>1, <2>2
  <1>5. CASE r \in {"lpstr", "buffer"}
    <2>1. CASE words = <<>>
      <3>1. ReadField("lpstr", <<>>).left = <<>> /\ ReadField("buffer", <<>>).left = <<>>
        BY NothingRead
      <3>2. r = "lpstr" \/ r = "buffer"
        BY <1>5, Zenon
      <3> QED BY <1>1, <2>1, <3>1, <3>2, Zenon
    <2>2. CASE words # <<>>
      <3> DEFINE there == Tail(words)
                 size == Head(words)
      <3>1. /\ there = From(words, 2) /\ 2 \in 1 .. n + 1 /\ n >= 1
            /\ there \in Seq(T) /\ Len(there) = n - 1 /\ size \in T
        BY <2>2, FromEnds
      <3>2. size \in Nat
        <4>1. W32 \subseteq Nat
          BY BaseValue DEF W32
        <4> HIDE DEF size, there
        <4> QED BY <3>1, <4>1
      <3>3. \A i \in 1 .. Len(there) + 1 : IsEnd(From(there, i), words)
        <4>1. \A i \in 1 .. Len(there) + 1 :
                 From(there, i) = From(words, 2 + i - 1) /\ 2 + i - 1 \in 1 .. n + 1
          <5> TAKE i \in 1 .. Len(there) + 1
          <5> HIDE DEF there
          <5>1. i \in 1 .. n /\ i \in 1 .. n + 2 - 2 /\ 2 + i - 1 \in 1 .. n + 1
            BY <1>0, <3>1
          <5>2. From(From(words, 2), i) = From(words, 2 + i - 1)
            BY <3>1, <5>1, FromForms
          <5> QED BY <3>1, <5>1, <5>2
        <4> QED BY <1>0, <4>1, Zenon
      <3>4. \E x, y : ReadString(words) = [value |-> x, left |-> y] /\ IsEnd(y, words)
        <4> HIDE DEF there, size
        <4>0. size = Head(words) /\ there = Tail(words) /\ Len(there) \in Nat
          BY <3>1 DEF size, there
        <4>1. CASE size = Base - 1
          BY <1>2, <2>2, <3>2, <4>0, <4>1, StringForms, Zenon
        <4>2. CASE size # Base - 1 /\ size % 2 = 1
          BY <1>2, <2>2, <3>2, <4>0, <4>2, StringForms, Zenon
        <4>3. CASE size # Base - 1 /\ size % 2 = 0 /\ size > 4 * Len(there)
          BY <1>1, <3>2, <4>0, <4>3, StringForms, Zenon
        <4>4. CASE size # Base - 1 /\ size % 2 = 0 /\ size <= 4 * Len(there)
          <5>1. size \div 4 + 1 \in 1 .. Len(there) + 1
            BY <3>2, <4>0, <4>4
          <5>2. ReadString(words) = [value |-> SubSeq(there, 1, size \div 4),
                                     left  |-> From(there, size \div 4 + 1)]
            BY <3>2, <4>0, <4>4, StringForms, Zenon
          <5>3. IsEnd(From(there, size \div 4 + 1), words)
            BY <3>3, <5>1, Zenon
          <5> QED BY <5>2, <5>3, Zenon
        <4>5. \/ size = Base - 1
              \/ size # Base - 1 /\ size % 2 = 1
              \/ size # Base - 1 /\ size % 2 = 0 /\ size > 4 * Len(there)
              \/ size # Base - 1 /\ size % 2 = 0 /\ size <= 4 * Len(there)
          BY <3>2, <4>0
        <4> QED BY <4>1, <4>2, <4>3, <4>4, <4>5, Zenon
      <3>5. PICK x, y : ReadString(words) = [value |-> x, left |-> y] /\ IsEnd(y, words)
        BY <3>4
      <3>6. /\ ReadField("lpstr", words) =
                  [value |-> IF x = <<>> THEN Null ELSE x, left |-> y]
            /\ ReadField("buffer", words) =
                  [value |-> IF x = Null THEN <<>> ELSE x, left |-> y]
        BY <2>2, <3>5, TextForms, Zenon
      <3>7. f = ReadField("lpstr", words) \/ f = ReadField("buffer", words)
        BY <1>5, Zenon
      <3>8. f.left = y
        <4> HIDE DEF f
        <4> QED BY <3>6, <3>7
      <3> QED BY <3>5, <3>8
    <2> QED BY <2>1, <2>2
  <1> QED BY <1>3, <1>4, <1>5 DEF ReadTypes

LEMMA ListEnd ==
  ASSUME NEW reads, Len(reads) \in Nat,
         \A i \in 1 .. Len(reads) : reads[i] \in ReadTypes,
         NEW words \in Seq(W32)
  PROVE  /\ IsEnd(ReadFields(reads, words).left, words)
         /\ ReadFields(reads, words).left \in Seq(W32)
         /\ Len(ReadFields(reads, words).left) <= Len(words)
  <1> DEFINE n == Len(reads)
  <1>0. n \in Nat
    OBVIOUS
  <1>1. PICK r : IsReading(r, reads, words) /\ ReadFields(reads, words) = r[n]
    BY ReadingDefined, Zenon
  <1>2. \A i \in 0 .. n : r[i] =
            IF i = 0 THEN [values |-> <<>>, left |-> words]
            ELSE LET before == r[i - 1]
                     f == ReadField(reads[i], before.left)
                 IN  [values |-> Append(before.values, f.value), left |-> f.left]
    BY <1>1, Zenon DEF IsReading
  <1> DEFINE P == {i \in 0 .. n : IsEnd(r[i].left, words)}
  <1>3. 0 \in P
    <2>1. 0 \in 0 .. n
      BY <1>0
    <2>2. r[0] = [values |-> <<>>, left |-> words]
      BY <1>2, <2>1, Zenon
    <2>3. r[0].left = From(words, 1) /\ 1 \in 1 .. Len(words) + 1
      BY <2>2, FromEnds
    <2> QED BY <2>1, <2>3, Zenon DEF IsEnd
  <1>4. ASSUME NEW k \in 0 .. n - 1, k \in P PROVE k + 1 \in P
    <2> DEFINE i == k + 1
               f == ReadField(reads[i], r[k].left)
    <2>1. i \in 0 .. n /\ i \in 1 .. n /\ i # 0 /\ i - 1 = k
      BY <1>0
    <2>2. PICK j \in 1 .. Len(words) + 1 : r[k].left = From(words, j)
      BY <1>4, Zenon DEF IsEnd
    <2> DEFINE s == r[k].left
    <2>3. s \in Seq(W32) /\ Len(s) = Len(words) + 1 - j
      BY <2>2, FromForms
    <2>4. reads[i] \in ReadTypes
      BY <2>1, Zenon
    <2> HIDE DEF i
    <2>5. PICK m \in 1 .. Len(s) + 1 : f.left = From(s, m)
      BY <2>3, <2>4, FieldEnd, Zenon DEF IsEnd
    <2>6. From(s, m) = From(words, j + m - 1) /\ j + m - 1 \in 1 .. Len(words) + 1
      <3>1. m \in 1 .. Len(words) + 2 - j /\ j + m - 1 \in 1 .. Len(words) + 1
        BY <2>3
      <3>2. From(From(words, j), m) = From(words, j + m - 1)
        BY <3>1, FromForms, Zenon
      <3> QED BY <2>2, <3>1, <3>2, Zenon
    <2>7. r[i].left = f.left
      <3>1. r[i] = [values |-> Append(r[k].values, f.value), left |-> f.left]
        BY <1>2, <2>1, Zenon
      <3> HIDE DEF f
      <3> QED BY <3>1
    <2>8. IsEnd(r[i].left, words)
      BY <2>5, <2>6, <2>7, Zenon DEF IsEnd
    <2> QED BY <2>1, <2>8, Zenon DEF i
  <1>5. n \in P
    <2> HIDE DEF P, n
    <2>1. 0 .. n \subseteq P
      BY <1>0, <1>3, <1>4, UpTo
    <2> QED BY <1>0, <2>1
  <1>6. IsEnd(ReadFields(reads, words).left, words)
    BY <1>1, <1>5, Zenon
  <1>7. PICK i \in 1 .. Len(words) + 1 : ReadFields(reads, words).left = From(words, i)
    BY <1>6, Zenon DEF IsEnd
  <1>8. From(words, i) \in Seq(W32) /\ Len(From(words, i)) <= Len(words)
    BY FromForms
  <1> QED BY <1>6, <1>7, <1>8, Zenon

-----------------------------------------------------------------------------
(***************************************************************************)
(* The function codes are different words.                                 *)
(***************************************************************************)
ReplyPrices == {"TRANSACTION_REPLY_PRICE"}

LEMMA EnumeratorsForm == Len(Enumerators) = 90 /\ DOMAIN Enumerators = 1 .. 90
  BY DEF Enumerators

LEMMA CasesEnumerated == Cases \cup CallbackCodes \subseteq ToSet(Enumerators)
  BY DEF Cases, Orders, Trades, Replies, CallbackCodes, ConnStatus, TransReply,
         OrderStatus, TradeStatus, Enumerators, ToSet, Control, OrderLongs,
         OrderQuantities, OrderDoubles, OrderTexts, TradeLongs, TradeDoubles,
         TradeTexts, ReplyQuantities, ReplyTexts, SetConnStatus, UnsubscribeTrades

LEMMA CodePlace ==
  ASSUME NEW c \in ToSet(Enumerators)
  PROVE  \E i \in 1 .. 90 : Enumerators[i] = c /\ CodeWord[c] = FirstCode + i
  <1>1. CodeWord[c] = FirstCode
                      + (CHOOSE i \in DOMAIN Enumerators : Enumerators[i] = c)
    BY Zenon DEF CodeWord
  <1>2. \E i \in DOMAIN Enumerators : Enumerators[i] = c
    BY Zenon DEF ToSet
  <1> QED BY <1>1, <1>2, EnumeratorsForm, Zenon

LEMMA CodesDiffer ==
  ASSUME NEW c \in ToSet(Enumerators), NEW d \in ToSet(Enumerators)
  PROVE  /\ CodeWord[c] \in W32 /\ CodeWord[c] # 0
         /\ CodeWord[c] = CodeWord[d] => c = d
  <1>1. PICK i \in 1 .. 90 : Enumerators[i] = c /\ CodeWord[c] = FirstCode + i
    BY CodePlace
  <1>2. PICK j \in 1 .. 90 : Enumerators[j] = d /\ CodeWord[d] = FirstCode + j
    BY CodePlace
  <1>3. Len(Enumerators) = 90
    BY EnumeratorsForm
  <1> HIDE DEF Enumerators
  <1>4. FirstCode \in Nat /\ Base \in Nat /\ FirstCode + 90 < Base - 1
    BY <1>3, FormatsAssumption
  <1>5. CodeWord[c] = CodeWord[d] => i = j
    BY <1>1, <1>2, <1>4
  <1> QED BY <1>1, <1>2, <1>4, <1>5 DEF W32

-----------------------------------------------------------------------------
(***************************************************************************)
(* The formats of the functions, kind by kind.                             *)
(***************************************************************************)
LEMMA KindsApart ==
  ASSUME NEW f
  PROVE  /\ f \in Control =>
              f \notin OrderLongs \cup OrderQuantities \cup OrderDoubles \cup
                       OrderTexts \cup TradeLongs \cup TradeDoubles \cup
                       TradeTexts \cup FileTimes \cup DateTimes \cup
                       ReplyQuantities \cup ReplyTexts \cup ReplyPrices
         /\ f \in OrderLongs =>
              f \notin Control \cup OrderQuantities \cup OrderDoubles \cup
                       OrderTexts \cup TradeLongs \cup TradeDoubles \cup
                       TradeTexts \cup FileTimes \cup DateTimes \cup
                       ReplyQuantities \cup ReplyTexts \cup ReplyPrices
         /\ f \in OrderQuantities =>
              f \notin Control \cup OrderLongs \cup OrderDoubles \cup
                       OrderTexts \cup TradeLongs \cup TradeDoubles \cup
                       TradeTexts \cup FileTimes \cup DateTimes \cup
                       ReplyQuantities \cup ReplyTexts \cup ReplyPrices
         /\ f \in OrderDoubles =>
              f \notin Control \cup OrderLongs \cup OrderQuantities \cup
                       OrderTexts \cup TradeLongs \cup TradeDoubles \cup
                       TradeTexts \cup FileTimes \cup DateTimes \cup
                       ReplyQuantities \cup ReplyTexts \cup ReplyPrices
         /\ f \in OrderTexts =>
              f \notin Control \cup OrderLongs \cup OrderQuantities \cup
                       OrderDoubles \cup TradeLongs \cup TradeDoubles \cup
                       TradeTexts \cup FileTimes \cup DateTimes \cup
                       ReplyQuantities \cup ReplyTexts \cup ReplyPrices
         /\ f \in TradeLongs =>
              f \notin Control \cup OrderLongs \cup OrderQuantities \cup
                       OrderDoubles \cup OrderTexts \cup TradeDoubles \cup
                       TradeTexts \cup FileTimes \cup DateTimes \cup
                       ReplyQuantities \cup ReplyTexts \cup ReplyPrices
         /\ f \in TradeDoubles =>
              f \notin Control \cup OrderLongs \cup OrderQuantities \cup
                       OrderDoubles \cup OrderTexts \cup TradeLongs \cup
                       TradeTexts \cup FileTimes \cup DateTimes \cup
                       ReplyQuantities \cup ReplyTexts \cup ReplyPrices
         /\ f \in TradeTexts =>
              f \notin Control \cup OrderLongs \cup OrderQuantities \cup
                       OrderDoubles \cup OrderTexts \cup TradeLongs \cup
                       TradeDoubles \cup FileTimes \cup DateTimes \cup
                       ReplyQuantities \cup ReplyTexts \cup ReplyPrices
         /\ f \in FileTimes =>
              f \notin Control \cup OrderLongs \cup OrderQuantities \cup
                       OrderDoubles \cup OrderTexts \cup TradeLongs \cup
                       TradeDoubles \cup TradeTexts \cup DateTimes \cup
                       ReplyQuantities \cup ReplyTexts \cup ReplyPrices
         /\ f \in DateTimes =>
              f \notin Control \cup OrderLongs \cup OrderQuantities \cup
                       OrderDoubles \cup OrderTexts \cup TradeLongs \cup
                       TradeDoubles \cup TradeTexts \cup FileTimes \cup
                       ReplyQuantities \cup ReplyTexts \cup ReplyPrices
         /\ f \in ReplyQuantities =>
              f \notin Control \cup OrderLongs \cup OrderQuantities \cup
                       OrderDoubles \cup OrderTexts \cup TradeLongs \cup
                       TradeDoubles \cup TradeTexts \cup FileTimes \cup
                       DateTimes \cup ReplyTexts \cup ReplyPrices
         /\ f \in ReplyTexts =>
              f \notin Control \cup OrderLongs \cup OrderQuantities \cup
                       OrderDoubles \cup OrderTexts \cup TradeLongs \cup
                       TradeDoubles \cup TradeTexts \cup FileTimes \cup
                       DateTimes \cup ReplyQuantities \cup ReplyPrices
         /\ f \in ReplyPrices =>
              f \notin Control \cup OrderLongs \cup OrderQuantities \cup
                       OrderDoubles \cup OrderTexts \cup TradeLongs \cup
                       TradeDoubles \cup TradeTexts \cup FileTimes \cup
                       DateTimes \cup ReplyQuantities \cup ReplyTexts
  BY DEF Control, OrderLongs, OrderQuantities, OrderDoubles, OrderTexts, TradeLongs,
         TradeDoubles, TradeTexts, FileTimes, DateTimes, ReplyQuantities, ReplyTexts,
         ReplyPrices, SetConnStatus, UnsubscribeTrades

LEMMA KindsOf ==
  ASSUME NEW f
  PROVE  /\ f \in Orders => f \in OrderLongs \cup OrderQuantities \cup OrderDoubles
                                  \cup OrderTexts \cup FileTimes \cup DateTimes
         /\ f \in Trades => f \in TradeLongs \cup TradeDoubles
                                  \cup FileTimes \cup DateTimes
         /\ f \in Replies => f \in ReplyQuantities \cup ReplyTexts \cup ReplyPrices
         /\ f \in Orders => f \notin Trades
         /\ f \in FileTimes \cup DateTimes => f \in Orders \/ f \in Trades
  BY KindsApart DEF Orders, Trades, Replies, FileTimes, DateTimes, ReplyPrices

LEMMA NoControl ==
  ASSUME NEW f, f \notin Control
  PROVE  /\ f \notin {"SEND_ASYNC_TRANSACTION", "CONNECT"}
         /\ f \notin {"DISCONNECT", "IS_QUIK_CONNECTED", "IS_DLL_CONNECTED"}
         /\ f \notin {"SUBSCRIBE_ORDERS", "SUBSCRIBE_TRADES"}
         /\ f \notin {"UNSUBSCRIBE_ORDERS", UnsubscribeTrades}
         /\ f # "SEND_SYNC_TRANSACTION" /\ f # SetConnStatus
  BY Zenon DEF Control

\* The setters that send another code are none of these.
LEMMA NotStray ==
  ASSUME NEW f,
         f \in Control \cup OrderLongs \cup OrderQuantities \cup OrderDoubles \cup
                  OrderTexts \cup TradeLongs \cup TradeDoubles \cup
                  TradeTexts \cup FileTimes \cup DateTimes \cup
                  ReplyQuantities \cup ReplyTexts \cup ReplyPrices
  PROVE  /\ f \notin StraySetters /\ f # "SET_TRANSACTIONS_REPLY_CALLBACK"
         /\ f # "START_ORDERS" /\ f # "START_TRADES"
  BY DEF StraySetters, Control, OrderLongs, OrderQuantities, OrderDoubles, OrderTexts,
         TradeLongs, TradeDoubles, TradeTexts, FileTimes, DateTimes, ReplyQuantities,
         ReplyTexts, ReplyPrices, SetConnStatus, UnsubscribeTrades

LEMMA OrderLongFormats ==
  ASSUME NEW f \in OrderLongs
  PROVE  /\ Signature(f) = [args |-> <<"number">>, outs |-> <<"long">>]
         /\ CallFormat(f) = [request |-> <<"u32">>, reply |-> <<"i64">>]
         /\ ServeFormat(f) = [reads |-> <<"i64">>, writes |-> <<"u32">>]
  <1>1. f \notin Control \cup OrderQuantities \cup OrderDoubles \cup
                 OrderTexts \cup TradeLongs \cup TradeDoubles \cup
                 TradeTexts \cup FileTimes \cup DateTimes \cup
                 ReplyQuantities \cup ReplyTexts \cup ReplyPrices
    BY KindsApart, Zenon
  <1>2. Signature(f) = [args |-> <<"number">>, outs |-> <<"long">>]
    BY <1>1, NotStray, NoControl, Zenon DEF Signature, ReplyPrices
  <1>3. f \notin Trades \cup TradeTexts \cup Replies /\ f \in Orders
    BY <1>1, KindsOf, Zenon DEF Orders
  <1>4. CallFormat(f) = IntInROut /\ ServeFormat(f) = DescriptorCase(<<"u32">>)
    BY <1>1, <1>3, NotStray, Zenon DEF CallFormat, ServeFormat, OrderCall, OrderCase
  <1> QED BY <1>2, <1>4, Zenon DEF IntInROut, DescriptorCase

LEMMA OrderQuantityFormats ==
  ASSUME NEW f \in OrderQuantities
  PROVE  /\ Signature(f) = [args |-> <<"number">>, outs |-> <<"number">>]
         /\ CallFormat(f) = [request |-> <<"u32">>, reply |-> <<"i64">>]
         /\ ServeFormat(f) = [reads |-> <<"i64">>, writes |-> <<"u32">>]
  <1>1. f \notin Control \cup OrderLongs \cup OrderDoubles \cup OrderTexts \cup
                 TradeLongs \cup TradeDoubles \cup TradeTexts \cup FileTimes \cup
                 DateTimes \cup ReplyQuantities \cup ReplyTexts \cup
                 ReplyPrices
    BY KindsApart, Zenon
  <1>2. Signature(f) = [args |-> <<"number">>, outs |-> <<"number">>]
    BY <1>1, NotStray, NoControl, Zenon DEF Signature, ReplyPrices
  <1>3. f \notin Trades \cup TradeTexts \cup Replies /\ f \in Orders
    BY <1>1, KindsOf, Zenon DEF Orders
  <1>4. CallFormat(f) = IntInROut /\ ServeFormat(f) = DescriptorCase(<<"u32">>)
    BY <1>1, <1>3, NotStray, Zenon DEF CallFormat, ServeFormat, OrderCall, OrderCase
  <1> QED BY <1>2, <1>4, Zenon DEF IntInROut, DescriptorCase

LEMMA OrderDoubleFormats ==
  ASSUME NEW f \in OrderDoubles
  PROVE  /\ Signature(f) = [args |-> <<"number">>, outs |-> <<"double">>]
         /\ CallFormat(f) = [request |-> <<"u32">>, reply |-> <<"i64">>]
         /\ ServeFormat(f) = [reads |-> <<"i64">>, writes |-> <<"f64">>]
  <1>1. f \notin Control \cup OrderLongs \cup OrderQuantities \cup
                 OrderTexts \cup TradeLongs \cup TradeDoubles \cup
                 TradeTexts \cup FileTimes \cup DateTimes \cup
                 ReplyQuantities \cup ReplyTexts \cup ReplyPrices
    BY KindsApart, Zenon
  <1>2. Signature(f) = [args |-> <<"number">>, outs |-> <<"double">>]
    BY <1>1, NotStray, NoControl, Zenon DEF Signature, ReplyPrices
  <1>3. f \notin Trades \cup TradeTexts \cup Replies /\ f \in Orders
    BY <1>1, KindsOf, Zenon DEF Orders
  <1>4. CallFormat(f) = IntInROut /\ ServeFormat(f) = DescriptorCase(<<"f64">>)
    BY <1>1, <1>3, NotStray, Zenon DEF CallFormat, ServeFormat, OrderCall, OrderCase
  <1> QED BY <1>2, <1>4, Zenon DEF IntInROut, DescriptorCase

LEMMA OrderTextFormats ==
  ASSUME NEW f \in OrderTexts
  PROVE  /\ Signature(f) = [args |-> <<"number">>, outs |-> <<"text">>]
         /\ CallFormat(f) = [request |-> <<"u32">>, reply |-> <<"lpstr">>]
         /\ ServeFormat(f) = [reads |-> <<"i64">>, writes |-> <<"lptstr">>]
  <1>1. f \notin Control \cup OrderLongs \cup OrderQuantities \cup
                 OrderDoubles \cup TradeLongs \cup TradeDoubles \cup
                 TradeTexts \cup FileTimes \cup DateTimes \cup
                 ReplyQuantities \cup ReplyTexts \cup ReplyPrices
    BY KindsApart, Zenon
  <1>2. Signature(f) = [args |-> <<"number">>, outs |-> <<"text">>]
    BY <1>1, NotStray, NoControl, Zenon DEF Signature, ReplyPrices
  <1>3. f \notin Trades \cup TradeTexts \cup Replies /\ f \in Orders
    BY <1>1, KindsOf, Zenon DEF Orders
  <1>4. CallFormat(f) = IntInLptstrOut /\ ServeFormat(f) = DescriptorCase(<<"lptstr">>)
    BY <1>1, <1>3, NotStray, Zenon DEF CallFormat, ServeFormat, OrderCall, OrderCase
  <1> QED BY <1>2, <1>4, Zenon DEF IntInLptstrOut, DescriptorCase

LEMMA TradeLongFormats ==
  ASSUME NEW f \in TradeLongs
  PROVE  /\ Signature(f) = [args |-> <<"number">>, outs |-> <<"long">>]
         /\ CallFormat(f) = [request |-> <<"u32">>, reply |-> <<"i64">>]
         /\ ServeFormat(f) = [reads |-> <<"i64">>, writes |-> <<"u32">>]
  <1>1. f \notin Control \cup OrderLongs \cup OrderQuantities \cup
                 OrderDoubles \cup OrderTexts \cup TradeDoubles \cup
                 TradeTexts \cup FileTimes \cup DateTimes \cup
                 ReplyQuantities \cup ReplyTexts \cup ReplyPrices
    BY KindsApart, Zenon
  <1>2. Signature(f) = [args |-> <<"number">>, outs |-> <<"long">>]
    BY <1>1, NotStray, NoControl, Zenon DEF Signature, ReplyPrices
  <1>3. f \notin Orders \cup TradeTexts \cup Replies /\ f \in Trades
    BY <1>1, KindsOf, Zenon DEF Trades
  <1>4. CallFormat(f) = IntInROut /\ ServeFormat(f) = DescriptorCase(<<"u32">>)
    BY <1>1, <1>3, NotStray, Zenon DEF CallFormat, ServeFormat, TradeCall, TradeCase
  <1> QED BY <1>2, <1>4, Zenon DEF IntInROut, DescriptorCase

LEMMA TradeDoubleFormats ==
  ASSUME NEW f \in TradeDoubles
  PROVE  /\ Signature(f) = [args |-> <<"number">>, outs |-> <<"double">>]
         /\ CallFormat(f) = [request |-> <<"u32">>, reply |-> <<"i64">>]
         /\ ServeFormat(f) = [reads |-> <<"i64">>, writes |-> <<"f64">>]
  <1>1. f \notin Control \cup OrderLongs \cup OrderQuantities \cup
                 OrderDoubles \cup OrderTexts \cup TradeLongs \cup
                 TradeTexts \cup FileTimes \cup DateTimes \cup
                 ReplyQuantities \cup ReplyTexts \cup ReplyPrices
    BY KindsApart, Zenon
  <1>2. Signature(f) = [args |-> <<"number">>, outs |-> <<"double">>]
    BY <1>1, NotStray, NoControl, Zenon DEF Signature, ReplyPrices
  <1>3. f \notin Orders \cup TradeTexts \cup Replies /\ f \in Trades
    BY <1>1, KindsOf, Zenon DEF Trades
  <1>4. CallFormat(f) = IntInROut /\ ServeFormat(f) = DescriptorCase(<<"f64">>)
    BY <1>1, <1>3, NotStray, Zenon DEF CallFormat, ServeFormat, TradeCall, TradeCase
  <1> QED BY <1>2, <1>4, Zenon DEF IntInROut, DescriptorCase

LEMMA TradeTextFormats ==
  ASSUME NEW f \in TradeTexts
  PROVE  /\ Signature(f) = [args |-> <<"number">>, outs |-> <<"text">>]
         /\ CallFormat(f) = [request |-> <<"u32">>, reply |-> <<"lpstr">>]
         /\ ServeFormat(f) = [reads |-> <<"i64">>, writes |-> <<"lptstr">>]
  <1>1. f \notin Control \cup OrderLongs \cup OrderQuantities \cup
                 OrderDoubles \cup OrderTexts \cup TradeLongs \cup
                 TradeDoubles \cup FileTimes \cup DateTimes \cup
                 ReplyQuantities \cup ReplyTexts \cup ReplyPrices
    BY KindsApart, Zenon
  <1>2. Signature(f) = [args |-> <<"number">>, outs |-> <<"text">>]
    BY <1>1, NotStray, NoControl, Zenon DEF Signature, ReplyPrices
  <1>3. f \notin Orders \cup Trades \cup Replies
    BY <1>1, KindsOf, Zenon DEF TradeTexts
  <1>4. CallFormat(f) = IntInLptstrOut /\ ServeFormat(f) = DescriptorCase(<<"lptstr">>)
    BY <1>1, <1>3, NotStray, Zenon DEF CallFormat, ServeFormat, TradeTextCall, TradeTextCase
  <1> QED BY <1>2, <1>4, Zenon DEF IntInLptstrOut, DescriptorCase

LEMMA FileTimeFormats ==
  ASSUME NEW f \in FileTimes
  PROVE  /\ Signature(f) = [args |-> <<"number">>, outs |-> <<"size", "size">>]
         /\ CallFormat(f) = [request |-> <<"u32">>, reply |-> <<"u32", "u32">>]
         /\ ServeFormat(f) = [reads |-> <<"i64">>, writes |-> <<"u32", "u32">>]
  <1>1. f \notin Control \cup OrderLongs \cup OrderQuantities \cup
                 OrderDoubles \cup OrderTexts \cup TradeLongs \cup
                 TradeDoubles \cup TradeTexts \cup DateTimes \cup
                 ReplyQuantities \cup ReplyTexts \cup ReplyPrices
    BY KindsApart, Zenon
  <1>2. Signature(f) = [args |-> <<"number">>, outs |-> <<"size", "size">>]
    BY <1>1, NotStray, NoControl, Zenon DEF Signature, ReplyPrices
  <1>3. f \notin TradeTexts \cup Replies
    BY <1>1, KindsOf, Zenon
  <1>4. CallFormat(f) = IntInFiletimeOut /\ ServeFormat(f) = DescriptorCase(<<"u32", "u32">>)
    <2>1. CASE f \in Orders /\ f \notin Trades
      BY <1>1, <1>3, <2>1, NotStray, Zenon DEF CallFormat, ServeFormat, OrderCall, OrderCase
    <2>2. CASE f \in Trades /\ f \notin Orders
      BY <1>1, <1>3, <2>2, NotStray, Zenon DEF CallFormat, ServeFormat, TradeCall, TradeCase
    <2> QED BY <2>1, <2>2, KindsOf, Zenon
  <1> QED BY <1>2, <1>4, Zenon DEF IntInFiletimeOut, DescriptorCase

LEMMA DateTimeFormats ==
  ASSUME NEW f \in DateTimes
  PROVE  /\ Signature(f) = [args |-> <<"number", "long">>, outs |-> <<"long">>]
         /\ CallFormat(f) = [request |-> <<"i64", "u32">>, reply |-> <<"u32">>]
         /\ ServeFormat(f) = [reads |-> <<"i64", "i32">>, writes |-> <<"u32">>]
  <1>1. f \notin Control \cup OrderLongs \cup OrderQuantities \cup
                 OrderDoubles \cup OrderTexts \cup TradeLongs \cup
                 TradeDoubles \cup TradeTexts \cup FileTimes \cup
                 ReplyQuantities \cup ReplyTexts \cup ReplyPrices
    BY KindsApart, Zenon
  <1>2. Signature(f) = [args |-> <<"number", "long">>, outs |-> <<"long">>]
    BY <1>1, NotStray, NoControl, Zenon DEF Signature, ReplyPrices
  <1>3. f \notin TradeTexts \cup Replies
    BY <1>1, KindsOf, Zenon
  <1>4. CallFormat(f) = TwoIntInEmptyOut /\ ServeFormat(f) = DateTimeCase
    <2>1. CASE f \in Orders /\ f \notin Trades
      BY <1>1, <1>3, <2>1, NotStray, Zenon DEF CallFormat, ServeFormat, OrderCall, OrderCase
    <2>2. CASE f \in Trades /\ f \notin Orders
      BY <1>1, <1>3, <2>2, NotStray, Zenon DEF CallFormat, ServeFormat, TradeCall, TradeCase
    <2> QED BY <2>1, <2>2, KindsOf, Zenon
  <1> QED BY <1>2, <1>4, Zenon DEF TwoIntInEmptyOut, DateTimeCase

LEMMA ReplyQuantityFormats ==
  ASSUME NEW f \in ReplyQuantities
  PROVE  /\ Signature(f) = [args |-> <<"number">>, outs |-> <<"number">>]
         /\ CallFormat(f) = [request |-> <<"u32">>, reply |-> <<"i64">>]
         /\ ServeFormat(f) = [reads |-> <<"i64">>, writes |-> <<"i64">>]
  <1>1. f \notin Control \cup OrderLongs \cup OrderQuantities \cup
                 OrderDoubles \cup OrderTexts \cup TradeLongs \cup
                 TradeDoubles \cup TradeTexts \cup FileTimes \cup DateTimes \cup
                 ReplyTexts \cup ReplyPrices
    BY KindsApart, Zenon
  <1>2. Signature(f) = [args |-> <<"number">>, outs |-> <<"number">>]
    BY <1>1, NotStray, NoControl, Zenon DEF Signature, ReplyPrices
  <1>3. f \notin Orders \cup Trades \cup TradeTexts /\ f \in Replies
    BY <1>1, KindsOf, Zenon DEF Replies, ReplyPrices
  <1>4. CallFormat(f) = IntInROut /\ ServeFormat(f) = DescriptorCase(<<"i64">>)
    BY <1>1, <1>3, NotStray, Zenon DEF CallFormat, ServeFormat, ReplyCall, ReplyCase, ReplyPrices
  <1> QED BY <1>2, <1>4, Zenon DEF IntInROut, DescriptorCase

LEMMA ReplyTextFormats ==
  ASSUME NEW f \in ReplyTexts
  PROVE  /\ Signature(f) = [args |-> <<"number">>, outs |-> <<"text">>]
         /\ CallFormat(f) = [request |-> <<"u32">>, reply |-> <<"lpstr">>]
         /\ ServeFormat(f) = [reads |-> <<"i64">>, writes |-> <<"lptstr">>]
  <1>1. f \notin Control \cup OrderLongs \cup OrderQuantities \cup
                 OrderDoubles \cup OrderTexts \cup TradeLongs \cup
                 TradeDoubles \cup TradeTexts \cup FileTimes \cup DateTimes \cup
                 ReplyQuantities \cup ReplyPrices
    BY KindsApart, Zenon
  <1>2. Signature(f) = [args |-> <<"number">>, outs |-> <<"text">>]
    BY <1>1, NotStray, NoControl, Zenon DEF Signature, ReplyPrices
  <1>3. f \notin Orders \cup Trades \cup TradeTexts /\ f \in Replies
    BY <1>1, KindsOf, Zenon DEF Replies, ReplyPrices
  <1>4. CallFormat(f) = IntInLptstrOut /\ ServeFormat(f) = DescriptorCase(<<"lptstr">>)
    BY <1>1, <1>3, NotStray, Zenon DEF CallFormat, ServeFormat, ReplyCall, ReplyCase, ReplyPrices
  <1> QED BY <1>2, <1>4, Zenon DEF IntInLptstrOut, DescriptorCase

LEMMA ReplyPriceFormats ==
  ASSUME NEW f \in ReplyPrices
  PROVE  /\ Signature(f) = [args |-> <<"number">>, outs |-> <<"double">>]
         /\ CallFormat(f) = [request |-> <<"u32">>, reply |-> <<"i64">>]
         /\ ServeFormat(f) = [reads |-> <<"i64">>, writes |-> <<"f64">>]
  <1>1. f \notin Control \cup OrderLongs \cup OrderQuantities \cup
                 OrderDoubles \cup OrderTexts \cup TradeLongs \cup
                 TradeDoubles \cup TradeTexts \cup FileTimes \cup DateTimes \cup
                 ReplyQuantities \cup ReplyTexts
    BY KindsApart, Zenon
  <1>2. Signature(f) = [args |-> <<"number">>, outs |-> <<"double">>]
    BY <1>1, NotStray, NoControl, Zenon DEF Signature, ReplyPrices
  <1>3. f \notin Orders \cup Trades \cup TradeTexts /\ f \in Replies
    BY <1>1, KindsOf, Zenon DEF Replies, ReplyPrices
  <1>4. CallFormat(f) = IntInROut /\ ServeFormat(f) = DescriptorCase(<<"f64">>)
    BY <1>1, <1>3, NotStray, Zenon DEF CallFormat, ServeFormat, ReplyCall, ReplyCase, ReplyPrices
  <1> QED BY <1>2, <1>4, Zenon DEF IntInROut, DescriptorCase

LEMMA SyncFormats ==
  ASSUME NEW f \in {"SEND_SYNC_TRANSACTION"}
  PROVE  /\ Signature(f) = [args |-> <<"text", "size", "size">>,
                   outs |-> <<"long", "long", "size", "entity", "buffer">> \o <<"long", "buffer">>]
         /\ CallFormat(f) = [request |-> <<"qstr", "u32", "u32">>,
                   reply |-> <<"u32", "u32", "u32", "u64", "buffer">> \o <<"u32", "buffer">>]
         /\ ServeFormat(f) = [reads |-> <<"lpstr", "u32", "u32">>,
                   writes |-> <<"u32", "u32", "u32", "u32", "qstr">> \o <<"u32", "qstr">>]
  <1>1. f \in Control
    BY Zenon DEF Control
  <1>2. f \notin OrderLongs \cup OrderQuantities \cup OrderDoubles \cup
                 OrderTexts \cup TradeLongs \cup TradeDoubles \cup
                 TradeTexts \cup FileTimes \cup DateTimes \cup
                 ReplyQuantities \cup ReplyTexts \cup ReplyPrices
    BY <1>1, KindsApart, Zenon
  <1>3. f \notin Orders \cup Trades \cup TradeTexts \cup Replies
    BY <1>2, KindsOf, Zenon
  <1>4. /\ Signature(f) = [args |-> <<"text", "size", "size">>,
                  outs |-> <<"long", "long", "size", "entity", "buffer">> \o <<"long", "buffer">>]
        /\ CallFormat(f) = [request |-> <<"qstr", "u32", "u32">>,
                  reply |-> <<"u32", "u32", "u32", "u64", "buffer">> \o <<"u32", "buffer">>]
        /\ ServeFormat(f) = [reads |-> <<"lpstr", "u32", "u32">>,
                  writes |-> <<"u32", "u32", "u32", "u32", "qstr">> \o <<"u32", "qstr">>]
    BY <1>1, <1>2, <1>3, NotStray, Zenon DEF Signature, CallFormat, ServeFormat,
       ControlCall, ControlCase, IntInExtErrOut, ReplyPrices, SetConnStatus, UnsubscribeTrades
  <1> QED BY <1>4

LEMMA TextFormats ==
  ASSUME NEW f \in {"SEND_ASYNC_TRANSACTION", "CONNECT"}
  PROVE  /\ Signature(f) = [args |-> <<"text", "size">>, outs |-> ErrorReport]
         /\ CallFormat(f) = [request |-> <<"qstr", "u32">>, reply |-> <<"u32", "u32", "buffer">>]
         /\ ServeFormat(f) = [reads |-> <<"lpstr", "u32">>, writes |-> <<"u32", "u32", "qstr">>]
  <1>1. f \in Control
    BY Zenon DEF Control
  <1>2. f \notin OrderLongs \cup OrderQuantities \cup OrderDoubles \cup
                 OrderTexts \cup TradeLongs \cup TradeDoubles \cup
                 TradeTexts \cup FileTimes \cup DateTimes \cup
                 ReplyQuantities \cup ReplyTexts \cup ReplyPrices
    BY <1>1, KindsApart, Zenon
  <1>3. f \notin Orders \cup Trades \cup TradeTexts \cup Replies
    BY <1>2, KindsOf, Zenon
  <1>4. /\ Signature(f) = [args |-> <<"text", "size">>, outs |-> ErrorReport]
        /\ CallFormat(f) = [request |-> <<"qstr", "u32">>, reply |-> <<"u32", "u32", "buffer">>]
        /\ ServeFormat(f) = [reads |-> <<"lpstr", "u32">>, writes |-> <<"u32", "u32", "qstr">>]
    BY <1>1, <1>2, <1>3, NotStray, Zenon DEF Signature, CallFormat, ServeFormat,
       ControlCall, ControlCase, IntInExtErrOut, ReplyPrices, SetConnStatus, UnsubscribeTrades
  <1> QED BY <1>4

LEMMA SetterFormats ==
  ASSUME NEW f \in {SetConnStatus}
  PROVE  /\ Signature(f) = [args |-> <<"flag", "size">>, outs |-> ErrorReport]
         /\ CallFormat(f) = [request |-> <<"u32", "u32">>, reply |-> <<"u32", "u32", "buffer">>]
         /\ ServeFormat(f) = [reads |-> <<"u32", "u32">>, writes |-> <<"u32", "u32", "qstr">>]
  <1>1. f \in Control
    BY Zenon DEF Control
  <1>2. f \notin OrderLongs \cup OrderQuantities \cup OrderDoubles \cup
                 OrderTexts \cup TradeLongs \cup TradeDoubles \cup
                 TradeTexts \cup FileTimes \cup DateTimes \cup
                 ReplyQuantities \cup ReplyTexts \cup ReplyPrices
    BY <1>1, KindsApart, Zenon
  <1>3. f \notin Orders \cup Trades \cup TradeTexts \cup Replies
    BY <1>2, KindsOf, Zenon
  <1>4. /\ Signature(f) = [args |-> <<"flag", "size">>, outs |-> ErrorReport]
        /\ CallFormat(f) = [request |-> <<"u32", "u32">>, reply |-> <<"u32", "u32", "buffer">>]
        /\ ServeFormat(f) = [reads |-> <<"u32", "u32">>, writes |-> <<"u32", "u32", "qstr">>]
    BY <1>1, <1>2, <1>3, NotStray, Zenon DEF Signature, CallFormat, ServeFormat,
       ControlCall, ControlCase, IntInExtErrOut, ReplyPrices, SetConnStatus, UnsubscribeTrades
  <1> QED BY <1>4

LEMMA SizeFormats ==
  ASSUME NEW f \in {"DISCONNECT", "IS_QUIK_CONNECTED", "IS_DLL_CONNECTED"}
  PROVE  /\ Signature(f) = [args |-> <<"size">>, outs |-> ErrorReport]
         /\ CallFormat(f) = [request |-> <<"u32">>, reply |-> <<"u32", "u32", "buffer">>]
         /\ ServeFormat(f) = [reads |-> <<"u32">>, writes |-> <<"u32", "u32", "qstr">>]
  <1>1. f \in Control
    BY Zenon DEF Control
  <1>2. f \notin OrderLongs \cup OrderQuantities \cup OrderDoubles \cup
                 OrderTexts \cup TradeLongs \cup TradeDoubles \cup
                 TradeTexts \cup FileTimes \cup DateTimes \cup
                 ReplyQuantities \cup ReplyTexts \cup ReplyPrices
    BY <1>1, KindsApart, Zenon
  <1>3. f \notin Orders \cup Trades \cup TradeTexts \cup Replies
    BY <1>2, KindsOf, Zenon
  <1>4. /\ Signature(f) = [args |-> <<"size">>, outs |-> ErrorReport]
        /\ CallFormat(f) = [request |-> <<"u32">>, reply |-> <<"u32", "u32", "buffer">>]
        /\ ServeFormat(f) = [reads |-> <<"u32">>, writes |-> <<"u32", "u32", "qstr">>]
    BY <1>1, <1>2, <1>3, NotStray, Zenon DEF Signature, CallFormat, ServeFormat,
       ControlCall, ControlCase, IntInExtErrOut, ReplyPrices, SetConnStatus, UnsubscribeTrades
  <1> QED BY <1>4

LEMMA SubscribeFormats ==
  ASSUME NEW f \in {"SUBSCRIBE_ORDERS", "SUBSCRIBE_TRADES"}
  PROVE  /\ Signature(f) = [args |-> <<"text", "text">>, outs |-> <<"long">>]
         /\ CallFormat(f) = [request |-> <<"qstr", "qstr">>, reply |-> <<"u32">>]
         /\ ServeFormat(f) = [reads |-> <<"lpstr", "lpstr">>, writes |-> <<"u32">>]
  <1>1. f \in Control
    BY Zenon DEF Control
  <1>2. f \notin OrderLongs \cup OrderQuantities \cup OrderDoubles \cup
                 OrderTexts \cup TradeLongs \cup TradeDoubles \cup
                 TradeTexts \cup FileTimes \cup DateTimes \cup
                 ReplyQuantities \cup ReplyTexts \cup ReplyPrices
    BY <1>1, KindsApart, Zenon
  <1>3. f \notin Orders \cup Trades \cup TradeTexts \cup Replies
    BY <1>2, KindsOf, Zenon
  <1>4. /\ Signature(f) = [args |-> <<"text", "text">>, outs |-> <<"long">>]
        /\ CallFormat(f) = [request |-> <<"qstr", "qstr">>, reply |-> <<"u32">>]
        /\ ServeFormat(f) = [reads |-> <<"lpstr", "lpstr">>, writes |-> <<"u32">>]
    BY <1>1, <1>2, <1>3, NotStray, Zenon DEF Signature, CallFormat, ServeFormat,
       ControlCall, ControlCase, IntInExtErrOut, ReplyPrices, SetConnStatus, UnsubscribeTrades
  <1> QED BY <1>4

LEMMA UnsubscribeFormats ==
  ASSUME NEW f \in {"UNSUBSCRIBE_ORDERS", UnsubscribeTrades}
  PROVE  /\ Signature(f) = [args |-> <<>>, outs |-> <<"long">>]
         /\ CallFormat(f) = [request |-> <<>>, reply |-> <<"u32">>]
         /\ ServeFormat(f) = [reads |-> <<>>, writes |-> <<"u32">>]
  <1>1. f \in Control
    BY Zenon DEF Control
  <1>2. f \notin OrderLongs \cup OrderQuantities \cup OrderDoubles \cup
                 OrderTexts \cup TradeLongs \cup TradeDoubles \cup
                 TradeTexts \cup FileTimes \cup DateTimes \cup
                 ReplyQuantities \cup ReplyTexts \cup ReplyPrices
    BY <1>1, KindsApart, Zenon
  <1>3. f \notin Orders \cup Trades \cup TradeTexts \cup Replies
    BY <1>2, KindsOf, Zenon
  <1>4. /\ Signature(f) = [args |-> <<>>, outs |-> <<"long">>]
        /\ CallFormat(f) = [request |-> <<>>, reply |-> <<"u32">>]
        /\ ServeFormat(f) = [reads |-> <<>>, writes |-> <<"u32">>]
    BY <1>1, <1>2, <1>3, NotStray, Zenon DEF Signature, CallFormat, ServeFormat,
       ControlCall, ControlCase, IntInExtErrOut, ReplyPrices, SetConnStatus, UnsubscribeTrades
  <1> QED BY <1>4

-----------------------------------------------------------------------------
(***************************************************************************)
(* What all functions have in common: the sorts of a function's arguments  *)
(* and results, and the types they are written and read as.                *)
(***************************************************************************)
IsList(types) == Len(types) \in Nat /\ DOMAIN types = 1 .. Len(types)

\* Arguments the two ends agree on.
AgreedArgs(types, writes, reads) ==
    /\ IsList(types) /\ Len(writes) = Len(types) /\ Len(reads) = Len(types)
    /\ \A i \in 1 .. Len(types) :
         \/ types[i] = "text" /\ writes[i] = "qstr" /\ reads[i] = "lpstr"
         \/ types[i] \in {"size", "flag"} /\ writes[i] = "u32" /\ reads[i] = "u32"
         \/ types[i] = "number" /\ writes[i] = "i64" /\ reads[i] = "i64"
         \/ types[i] = "long" /\ writes[i] = "u32" /\ reads[i] = "i32"

\* Results the server can write.
WrittenOuts(types, writes) ==
    /\ IsList(types) /\ Len(writes) = Len(types)
    /\ \A i \in 1 .. Len(types) :
         \/ /\ types[i] \in {"long", "size", "entity", "number", "double"}
            /\ writes[i] = "u32"
         \/ types[i] = "number" /\ writes[i] = "i64"
         \/ types[i] = "double" /\ writes[i] = "f64"
         \/ types[i] = "buffer" /\ writes[i] = "qstr"
         \/ types[i] = "text" /\ writes[i] = "lptstr"

\* Results the two ends agree on.
AgreedOuts(types, writes, reads) ==
    /\ Len(types) \in Nat /\ Len(writes) = Len(types) /\ Len(reads) = Len(types)
    /\ \A i \in 1 .. Len(types) :
         \/ types[i] = "long" /\ writes[i] = "u32" /\ reads[i] = "u32"
         \/ types[i] = "buffer" /\ writes[i] = "qstr" /\ reads[i] = "buffer"

Readable(reads) ==
    Len(reads) \in Nat /\ \A i \in 1 .. Len(reads) : reads[i] \in ReadTypes

\* A function of which only a descriptor is asked, sent as a quint32.
AsksDescriptor(f) ==
    /\ Signature(f).args = <<"number">> /\ CallFormat(f).request = <<"u32">>
    /\ ServeFormat(f).reads = <<"i64">>

AgreesOnArgs(f) ==
    AgreedArgs(Signature(f).args, CallFormat(f).request, ServeFormat(f).reads)

LEMMA ArgsSent ==
  ASSUME NEW f \in Cases
  PROVE  /\ AgreesOnArgs(f) \/ AsksDescriptor(f)
         /\ Readable(ServeFormat(f).reads) /\ Readable(CallFormat(f).reply)
         /\ WrittenOuts(Signature(f).outs, ServeFormat(f).writes)
         /\ f \in Control \cup DateTimes => AgreesOnArgs(f)
  <1> DEFINE Goal == /\ AgreesOnArgs(f) \/ AsksDescriptor(f)
                     /\ Readable(ServeFormat(f).reads)
                     /\ Readable(CallFormat(f).reply)
                     /\ WrittenOuts(Signature(f).outs, ServeFormat(f).writes)
                     /\ f \in Control \cup DateTimes => AgreesOnArgs(f)
  <1>1. CASE f \in OrderLongs
    <2>1. /\ Signature(f).args = <<"number">>
          /\ Signature(f).outs = <<"long">>
          /\ CallFormat(f).request = <<"u32">>
          /\ CallFormat(f).reply = <<"i64">>
          /\ ServeFormat(f).reads = <<"i64">>
          /\ ServeFormat(f).writes = <<"u32">>
      <3>1. /\ Signature(f) = [args |-> <<"number">>, outs |-> <<"long">>]
            /\ CallFormat(f) = [request |-> <<"u32">>, reply |-> <<"i64">>]
            /\ ServeFormat(f) = [reads |-> <<"i64">>, writes |-> <<"u32">>]
        BY <1>1, OrderLongFormats, Zenon
      <3> QED BY <3>1
    <2>2. Readable(<<"i64">>) /\ Readable(<<"i64">>)
      BY DEF Readable, ReadTypes
    <2>3. WrittenOuts(<<"long">>, <<"u32">>)
      BY DEF WrittenOuts, IsList
    <2>4. f \notin Control \cup DateTimes
      BY <1>1, KindsApart, Zenon
    <2> QED BY <2>1, <2>2, <2>3, <2>4, Zenon DEF AsksDescriptor
  <1>2. CASE f \in OrderQuantities
    <2>1. /\ Signature(f).args = <<"number">>
          /\ Signature(f).outs = <<"number">>
          /\ CallFormat(f).request = <<"u32">>
          /\ CallFormat(f).reply = <<"i64">>
          /\ ServeFormat(f).reads = <<"i64">>
          /\ ServeFormat(f).writes = <<"u32">>
      <3>1. /\ Signature(f) = [args |-> <<"number">>, outs |-> <<"number">>]
            /\ CallFormat(f) = [request |-> <<"u32">>, reply |-> <<"i64">>]
            /\ ServeFormat(f) = [reads |-> <<"i64">>, writes |-> <<"u32">>]
        BY <1>2, OrderQuantityFormats, Zenon
      <3> QED BY <3>1
    <2>2. Readable(<<"i64">>) /\ Readable(<<"i64">>)
      BY DEF Readable, ReadTypes
    <2>3. WrittenOuts(<<"number">>, <<"u32">>)
      BY DEF WrittenOuts, IsList
    <2>4. f \notin Control \cup DateTimes
      BY <1>2, KindsApart, Zenon
    <2> QED BY <2>1, <2>2, <2>3, <2>4, Zenon DEF AsksDescriptor
  <1>3. CASE f \in OrderDoubles
    <2>1. /\ Signature(f).args = <<"number">>
          /\ Signature(f).outs = <<"double">>
          /\ CallFormat(f).request = <<"u32">>
          /\ CallFormat(f).reply = <<"i64">>
          /\ ServeFormat(f).reads = <<"i64">>
          /\ ServeFormat(f).writes = <<"f64">>
      <3>1. /\ Signature(f) = [args |-> <<"number">>, outs |-> <<"double">>]
            /\ CallFormat(f) = [request |-> <<"u32">>, reply |-> <<"i64">>]
            /\ ServeFormat(f) = [reads |-> <<"i64">>, writes |-> <<"f64">>]
        BY <1>3, OrderDoubleFormats, Zenon
      <3> QED BY <3>1
    <2>2. Readable(<<"i64">>) /\ Readable(<<"i64">>)
      BY DEF Readable, ReadTypes
    <2>3. WrittenOuts(<<"double">>, <<"f64">>)
      BY DEF WrittenOuts, IsList
    <2>4. f \notin Control \cup DateTimes
      BY <1>3, KindsApart, Zenon
    <2> QED BY <2>1, <2>2, <2>3, <2>4, Zenon DEF AsksDescriptor
  <1>4. CASE f \in OrderTexts
    <2>1. /\ Signature(f).args = <<"number">>
          /\ Signature(f).outs = <<"text">>
          /\ CallFormat(f).request = <<"u32">>
          /\ CallFormat(f).reply = <<"lpstr">>
          /\ ServeFormat(f).reads = <<"i64">>
          /\ ServeFormat(f).writes = <<"lptstr">>
      <3>1. /\ Signature(f) = [args |-> <<"number">>, outs |-> <<"text">>]
            /\ CallFormat(f) = [request |-> <<"u32">>, reply |-> <<"lpstr">>]
            /\ ServeFormat(f) = [reads |-> <<"i64">>, writes |-> <<"lptstr">>]
        BY <1>4, OrderTextFormats, Zenon
      <3> QED BY <3>1
    <2>2. Readable(<<"i64">>) /\ Readable(<<"lpstr">>)
      BY DEF Readable, ReadTypes
    <2>3. WrittenOuts(<<"text">>, <<"lptstr">>)
      BY DEF WrittenOuts, IsList
    <2>4. f \notin Control \cup DateTimes
      BY <1>4, KindsApart, Zenon
    <2> QED BY <2>1, <2>2, <2>3, <2>4, Zenon DEF AsksDescriptor
  <1>5. CASE f \in TradeLongs
    <2>1. /\ Signature(f).args = <<"number">>
          /\ Signature(f).outs = <<"long">>
          /\ CallFormat(f).request = <<"u32">>
          /\ CallFormat(f).reply = <<"i64">>
          /\ ServeFormat(f).reads = <<"i64">>
          /\ ServeFormat(f).writes = <<"u32">>
      <3>1. /\ Signature(f) = [args |-> <<"number">>, outs |-> <<"long">>]
            /\ CallFormat(f) = [request |-> <<"u32">>, reply |-> <<"i64">>]
            /\ ServeFormat(f) = [reads |-> <<"i64">>, writes |-> <<"u32">>]
        BY <1>5, TradeLongFormats, Zenon
      <3> QED BY <3>1
    <2>2. Readable(<<"i64">>) /\ Readable(<<"i64">>)
      BY DEF Readable, ReadTypes
    <2>3. WrittenOuts(<<"long">>, <<"u32">>)
      BY DEF WrittenOuts, IsList
    <2>4. f \notin Control \cup DateTimes
      BY <1>5, KindsApart, Zenon
    <2> QED BY <2>1, <2>2, <2>3, <2>4, Zenon DEF AsksDescriptor
  <1>6. CASE f \in TradeDoubles
    <2>1. /\ Signature(f).args = <<"number">>
          /\ Signature(f).outs = <<"double">>
          /\ CallFormat(f).request = <<"u32">>
          /\ CallFormat(f).reply = <<"i64">>
          /\ ServeFormat(f).reads = <<"i64">>
          /\ ServeFormat(f).writes = <<"f64">>
      <3>1. /\ Signature(f) = [args |-> <<"number">>, outs |-> <<"double">>]
            /\ CallFormat(f) = [request |-> <<"u32">>, reply |-> <<"i64">>]
            /\ ServeFormat(f) = [reads |-> <<"i64">>, writes |-> <<"f64">>]
        BY <1>6, TradeDoubleFormats, Zenon
      <3> QED BY <3>1
    <2>2. Readable(<<"i64">>) /\ Readable(<<"i64">>)
      BY DEF Readable, ReadTypes
    <2>3. WrittenOuts(<<"double">>, <<"f64">>)
      BY DEF WrittenOuts, IsList
    <2>4. f \notin Control \cup DateTimes
      BY <1>6, KindsApart, Zenon
    <2> QED BY <2>1, <2>2, <2>3, <2>4, Zenon DEF AsksDescriptor
  <1>7. CASE f \in TradeTexts
    <2>1. /\ Signature(f).args = <<"number">>
          /\ Signature(f).outs = <<"text">>
          /\ CallFormat(f).request = <<"u32">>
          /\ CallFormat(f).reply = <<"lpstr">>
          /\ ServeFormat(f).reads = <<"i64">>
          /\ ServeFormat(f).writes = <<"lptstr">>
      <3>1. /\ Signature(f) = [args |-> <<"number">>, outs |-> <<"text">>]
            /\ CallFormat(f) = [request |-> <<"u32">>, reply |-> <<"lpstr">>]
            /\ ServeFormat(f) = [reads |-> <<"i64">>, writes |-> <<"lptstr">>]
        BY <1>7, TradeTextFormats, Zenon
      <3> QED BY <3>1
    <2>2. Readable(<<"i64">>) /\ Readable(<<"lpstr">>)
      BY DEF Readable, ReadTypes
    <2>3. WrittenOuts(<<"text">>, <<"lptstr">>)
      BY DEF WrittenOuts, IsList
    <2>4. f \notin Control \cup DateTimes
      BY <1>7, KindsApart, Zenon
    <2> QED BY <2>1, <2>2, <2>3, <2>4, Zenon DEF AsksDescriptor
  <1>8. CASE f \in FileTimes
    <2>1. /\ Signature(f).args = <<"number">>
          /\ Signature(f).outs = <<"size", "size">>
          /\ CallFormat(f).request = <<"u32">>
          /\ CallFormat(f).reply = <<"u32", "u32">>
          /\ ServeFormat(f).reads = <<"i64">>
          /\ ServeFormat(f).writes = <<"u32", "u32">>
      <3>1. /\ Signature(f) = [args |-> <<"number">>, outs |-> <<"size", "size">>]
            /\ CallFormat(f) = [request |-> <<"u32">>, reply |-> <<"u32", "u32">>]
            /\ ServeFormat(f) = [reads |-> <<"i64">>, writes |-> <<"u32", "u32">>]
        BY <1>8, FileTimeFormats, Zenon
      <3> QED BY <3>1
    <2>2. Readable(<<"i64">>) /\ Readable(<<"u32", "u32">>)
      BY DEF Readable, ReadTypes
    <2>3. WrittenOuts(<<"size", "size">>, <<"u32", "u32">>)
      BY DEF WrittenOuts, IsList
    <2>4. f \notin Control \cup DateTimes
      BY <1>8, KindsApart, Zenon
    <2> QED BY <2>1, <2>2, <2>3, <2>4, Zenon DEF AsksDescriptor
  <1>9. CASE f \in DateTimes
    <2>1. /\ Signature(f).args = <<"number", "long">>
          /\ Signature(f).outs = <<"long">>
          /\ CallFormat(f).request = <<"i64", "u32">>
          /\ CallFormat(f).reply = <<"u32">>
          /\ ServeFormat(f).reads = <<"i64", "i32">>
          /\ ServeFormat(f).writes = <<"u32">>
      <3>1. /\ Signature(f) = [args |-> <<"number", "long">>, outs |-> <<"long">>]
            /\ CallFormat(f) = [request |-> <<"i64", "u32">>, reply |-> <<"u32">>]
            /\ ServeFormat(f) = [reads |-> <<"i64", "i32">>, writes |-> <<"u32">>]
        BY <1>9, DateTimeFormats, Zenon
      <3> QED BY <3>1
    <2>2. Readable(<<"i64", "i32">>) /\ Readable(<<"u32">>)
      BY DEF Readable, ReadTypes
    <2>3. WrittenOuts(<<"long">>, <<"u32">>)
      BY DEF WrittenOuts, IsList
    <2>4. AgreedArgs(<<"number", "long">>, <<"i64", "u32">>, <<"i64", "i32">>)
      BY DEF AgreedArgs, IsList
    <2> QED BY <2>1, <2>2, <2>3, <2>4, Zenon DEF AgreesOnArgs
  <1>10. CASE f \in ReplyQuantities
    <2>1. /\ Signature(f).args = <<"number">>
          /\ Signature(f).outs = <<"number">>
          /\ CallFormat(f).request = <<"u32">>
          /\ CallFormat(f).reply = <<"i64">>
          /\ ServeFormat(f).reads = <<"i64">>
          /\ ServeFormat(f).writes = <<"i64">>
      <3>1. /\ Signature(f) = [args |-> <<"number">>, outs |-> <<"number">>]
            /\ CallFormat(f) = [request |-> <<"u32">>, reply |-> <<"i64">>]
            /\ ServeFormat(f) = [reads |-> <<"i64">>, writes |-> <<"i64">>]
        BY <1>10, ReplyQuantityFormats, Zenon
      <3> QED BY <3>1
    <2>2. Readable(<<"i64">>) /\ Readable(<<"i64">>)
      BY DEF Readable, ReadTypes
    <2>3. WrittenOuts(<<"number">>, <<"i64">>)
      BY DEF WrittenOuts, IsList
    <2>4. f \notin Control \cup DateTimes
      BY <1>10, KindsApart, Zenon
    <2> QED BY <2>1, <2>2, <2>3, <2>4, Zenon DEF AsksDescriptor
  <1>11. CASE f \in ReplyTexts
    <2>1. /\ Signature(f).args = <<"number">>
          /\ Signature(f).outs = <<"text">>
          /\ CallFormat(f).request = <<"u32">>
          /\ CallFormat(f).reply = <<"lpstr">>
          /\ ServeFormat(f).reads = <<"i64">>
          /\ ServeFormat(f).writes = <<"lptstr">>
      <3>1. /\ Signature(f) = [args |-> <<"number">>, outs |-> <<"text">>]
            /\ CallFormat(f) = [request |-> <<"u32">>, reply |-> <<"lpstr">>]
            /\ ServeFormat(f) = [reads |-> <<"i64">>, writes |-> <<"lptstr">>]
        BY <1>11, ReplyTextFormats, Zenon
      <3> QED BY <3>1
    <2>2. Readable(<<"i64">>) /\ Readable(<<"lpstr">>)
      BY DEF Readable, ReadTypes
    <2>3. WrittenOuts(<<"text">>, <<"lptstr">>)
      BY DEF WrittenOuts, IsList
    <2>4. f \notin Control \cup DateTimes
      BY <1>11, KindsApart, Zenon
    <2> QED BY <2>1, <2>2, <2>3, <2>4, Zenon DEF AsksDescriptor
  <1>12. CASE f \in ReplyPrices
    <2>1. /\ Signature(f).args = <<"number">>
          /\ Signature(f).outs = <<"double">>
          /\ CallFormat(f).request = <<"u32">>
          /\ CallFormat(f).reply = <<"i64">>
          /\ ServeFormat(f).reads = <<"i64">>
          /\ ServeFormat(f).writes = <<"f64">>
      <3>1. /\ Signature(f) = [args |-> <<"number">>, outs |-> <<"double">>]
            /\ CallFormat(f) = [request |-> <<"u32">>, reply |-> <<"i64">>]
            /\ ServeFormat(f) = [reads |-> <<"i64">>, writes |-> <<"f64">>]
        BY <1>12, ReplyPriceFormats, Zenon
      <3> QED BY <3>1
    <2>2. Readable(<<"i64">>) /\ Readable(<<"i64">>)
      BY DEF Readable, ReadTypes
    <2>3. WrittenOuts(<<"double">>, <<"f64">>)
      BY DEF WrittenOuts, IsList
    <2>4. f \notin Control \cup DateTimes
      BY <1>12, KindsApart, Zenon
    <2> QED BY <2>1, <2>2, <2>3, <2>4, Zenon DEF AsksDescriptor
  <1>13. CASE f \in {"SEND_SYNC_TRANSACTION"}
    <2>1. /\ Signature(f).args = <<"text", "size", "size">>
          /\ Signature(f).outs = <<"long", "long", "size", "entity", "buffer">> \o <<"long", "buffer">>
          /\ CallFormat(f).request = <<"qstr", "u32", "u32">>
          /\ CallFormat(f).reply = <<"u32", "u32", "u32", "u64", "buffer">> \o <<"u32", "buffer">>
          /\ ServeFormat(f).reads = <<"lpstr", "u32", "u32">>
          /\ ServeFormat(f).writes = <<"u32", "u32", "u32", "u32", "qstr">> \o <<"u32", "qstr">>
      <3>1. /\ Signature(f) = [args |-> <<"text", "size", "size">>, outs |-> <<"long", "long", "size", "entity", "buffer">> \o <<"long", "buffer">>]
            /\ CallFormat(f) = [request |-> <<"qstr", "u32", "u32">>, reply |-> <<"u32", "u32", "u32", "u64", "buffer">> \o <<"u32", "buffer">>]
            /\ ServeFormat(f) = [reads |-> <<"lpstr", "u32", "u32">>, writes |-> <<"u32", "u32", "u32", "u32", "qstr">> \o <<"u32", "qstr">>]
        BY <1>13, SyncFormats, Zenon
      <3> QED BY <3>1
    <2>2. Readable(<<"lpstr", "u32", "u32">>) /\ Readable(<<"u32", "u32", "u32", "u64", "buffer">> \o <<"u32", "buffer">>)
      BY DEF Readable, ReadTypes
    <2>3. WrittenOuts(<<"long", "long", "size", "entity", "buffer">> \o <<"long", "buffer">>, <<"u32", "u32", "u32", "u32", "qstr">> \o <<"u32", "qstr">>)
      BY DEF WrittenOuts, IsList
    <2>4. AgreedArgs(<<"text", "size", "size">>, <<"qstr", "u32", "u32">>, <<"lpstr", "u32", "u32">>)
      BY DEF AgreedArgs, IsList
    <2> QED BY <2>1, <2>2, <2>3, <2>4, Zenon DEF AgreesOnArgs
  <1>14. CASE f \in {"SEND_ASYNC_TRANSACTION", "CONNECT"}
    <2>1. /\ Signature(f).args = <<"text", "size">>
          /\ Signature(f).outs = ErrorReport
          /\ CallFormat(f).request = <<"qstr", "u32">>
          /\ CallFormat(f).reply = <<"u32", "u32", "buffer">>
          /\ ServeFormat(f).reads = <<"lpstr", "u32">>
          /\ ServeFormat(f).writes = <<"u32", "u32", "qstr">>
      <3>1. /\ Signature(f) = [args |-> <<"text", "size">>, outs |-> ErrorReport]
            /\ CallFormat(f) = [request |-> <<"qstr", "u32">>, reply |-> <<"u32", "u32", "buffer">>]
            /\ ServeFormat(f) = [reads |-> <<"lpstr", "u32">>, writes |-> <<"u32", "u32", "qstr">>]
        BY <1>14, TextFormats, Zenon
      <3> QED BY <3>1
    <2>2. Readable(<<"lpstr", "u32">>) /\ Readable(<<"u32", "u32", "buffer">>)
      BY DEF Readable, ReadTypes
    <2>3. WrittenOuts(ErrorReport, <<"u32", "u32", "qstr">>)
      BY DEF WrittenOuts, IsList, ErrorReport
    <2>4. AgreedArgs(<<"text", "size">>, <<"qstr", "u32">>, <<"lpstr", "u32">>)
      BY DEF AgreedArgs, IsList
    <2> QED BY <2>1, <2>2, <2>3, <2>4, Zenon DEF AgreesOnArgs
  <1>15. CASE f \in {SetConnStatus}
    <2>1. /\ Signature(f).args = <<"flag", "size">>
          /\ Signature(f).outs = ErrorReport
          /\ CallFormat(f).request = <<"u32", "u32">>
          /\ CallFormat(f).reply = <<"u32", "u32", "buffer">>
          /\ ServeFormat(f).reads = <<"u32", "u32">>
          /\ ServeFormat(f).writes = <<"u32", "u32", "qstr">>
      <3>1. /\ Signature(f) = [args |-> <<"flag", "size">>, outs |-> ErrorReport]
            /\ CallFormat(f) = [request |-> <<"u32", "u32">>, reply |-> <<"u32", "u32", "buffer">>]
            /\ ServeFormat(f) = [reads |-> <<"u32", "u32">>, writes |-> <<"u32", "u32", "qstr">>]
        BY <1>15, SetterFormats, Zenon
      <3> QED BY <3>1
    <2>2. Readable(<<"u32", "u32">>) /\ Readable(<<"u32", "u32", "buffer">>)
      BY DEF Readable, ReadTypes
    <2>3. WrittenOuts(ErrorReport, <<"u32", "u32", "qstr">>)
      BY DEF WrittenOuts, IsList, ErrorReport
    <2>4. AgreedArgs(<<"flag", "size">>, <<"u32", "u32">>, <<"u32", "u32">>)
      BY DEF AgreedArgs, IsList
    <2> QED BY <2>1, <2>2, <2>3, <2>4, Zenon DEF AgreesOnArgs
  <1>16. CASE f \in {"DISCONNECT", "IS_QUIK_CONNECTED", "IS_DLL_CONNECTED"}
    <2>1. /\ Signature(f).args = <<"size">>
          /\ Signature(f).outs = ErrorReport
          /\ CallFormat(f).request = <<"u32">>
          /\ CallFormat(f).reply = <<"u32", "u32", "buffer">>
          /\ ServeFormat(f).reads = <<"u32">>
          /\ ServeFormat(f).writes = <<"u32", "u32", "qstr">>
      <3>1. /\ Signature(f) = [args |-> <<"size">>, outs |-> ErrorReport]
            /\ CallFormat(f) = [request |-> <<"u32">>, reply |-> <<"u32", "u32", "buffer">>]
            /\ ServeFormat(f) = [reads |-> <<"u32">>, writes |-> <<"u32", "u32", "qstr">>]
        BY <1>16, SizeFormats, Zenon
      <3> QED BY <3>1
    <2>2. Readable(<<"u32">>) /\ Readable(<<"u32", "u32", "buffer">>)
      BY DEF Readable, ReadTypes
    <2>3. WrittenOuts(ErrorReport, <<"u32", "u32", "qstr">>)
      BY DEF WrittenOuts, IsList, ErrorReport
    <2>4. AgreedArgs(<<"size">>, <<"u32">>, <<"u32">>)
      BY DEF AgreedArgs, IsList
    <2> QED BY <2>1, <2>2, <2>3, <2>4, Zenon DEF AgreesOnArgs
  <1>17. CASE f \in {"SUBSCRIBE_ORDERS", "SUBSCRIBE_TRADES"}
    <2>1. /\ Signature(f).args = <<"text", "text">>
          /\ Signature(f).outs = <<"long">>
          /\ CallFormat(f).request = <<"qstr", "qstr">>
          /\ CallFormat(f).reply = <<"u32">>
          /\ ServeFormat(f).reads = <<"lpstr", "lpstr">>
          /\ ServeFormat(f).writes = <<"u32">>
      <3>1. /\ Signature(f) = [args |-> <<"text", "text">>, outs |-> <<"long">>]
            /\ CallFormat(f) = [request |-> <<"qstr", "qstr">>, reply |-> <<"u32">>]
            /\ ServeFormat(f) = [reads |-> <<"lpstr", "lpstr">>, writes |-> <<"u32">>]
        BY <1>17, SubscribeFormats, Zenon
      <3> QED BY <3>1
    <2>2. Readable(<<"lpstr", "lpstr">>) /\ Readable(<<"u32">>)
      BY DEF Readable, ReadTypes
    <2>3. WrittenOuts(<<"long">>, <<"u32">>)
      BY DEF WrittenOuts, IsList
    <2>4. AgreedArgs(<<"text", "text">>, <<"qstr", "qstr">>, <<"lpstr", "lpstr">>)
      BY DEF AgreedArgs, IsList
    <2> QED BY <2>1, <2>2, <2>3, <2>4, Zenon DEF AgreesOnArgs
  <1>18. CASE f \in {"UNSUBSCRIBE_ORDERS", UnsubscribeTrades}
    <2>1. /\ Signature(f).args = <<>>
          /\ Signature(f).outs = <<"long">>
          /\ CallFormat(f).request = <<>>
          /\ CallFormat(f).reply = <<"u32">>
          /\ ServeFormat(f).reads = <<>>
          /\ ServeFormat(f).writes = <<"u32">>
      <3>1. /\ Signature(f) = [args |-> <<>>, outs |-> <<"long">>]
            /\ CallFormat(f) = [request |-> <<>>, reply |-> <<"u32">>]
            /\ ServeFormat(f) = [reads |-> <<>>, writes |-> <<"u32">>]
        BY <1>18, UnsubscribeFormats, Zenon
      <3> QED BY <3>1
    <2>2. Readable(<<>>) /\ Readable(<<"u32">>)
      BY DEF Readable, ReadTypes
    <2>3. WrittenOuts(<<"long">>, <<"u32">>)
      BY DEF WrittenOuts, IsList
    <2>4. AgreedArgs(<<>>, <<>>, <<>>)
      BY DEF AgreedArgs, IsList
    <2> QED BY <2>1, <2>2, <2>3, <2>4, Zenon DEF AgreesOnArgs
  <1> HIDE DEF Goal
  <1>19. f \in Control =>
            f \in UNION {{"SEND_SYNC_TRANSACTION"}, {"SEND_ASYNC_TRANSACTION", "CONNECT"},
                       {SetConnStatus},
                       {"DISCONNECT", "IS_QUIK_CONNECTED", "IS_DLL_CONNECTED"},
                       {"SUBSCRIBE_ORDERS", "SUBSCRIBE_TRADES"},
                       {"UNSUBSCRIBE_ORDERS", UnsubscribeTrades}}
    BY DEF Control, SetConnStatus, UnsubscribeTrades
  <1>20. f \in Control \cup Orders \cup Trades \cup TradeTexts \cup Replies
    BY Zenon DEF Cases
  <1> QED BY <1>1, <1>2, <1>3, <1>4, <1>5, <1>6, <1>7, <1>8, <1>9, <1>10, <1>11, <1>12,
             <1>13, <1>14, <1>15, <1>16, <1>17, <1>18, <1>19, <1>20, KindsOf, Zenon

LEMMA OutsWritten ==
  ASSUME NEW f \in Cases
  PROVE  /\ DllFunction(f) \in Cases
         /\ WrittenOuts(Signature(DllFunction(f)).outs, ServeFormat(f).writes)
  <1>1. CASE f # "TRADE_KIND"
    <2>1. DllFunction(f) = f
      BY <1>1, Zenon DEF DllFunction
    <2> QED BY <2>1, ArgsSent, Zenon
  <1>2. CASE f = "TRADE_KIND"
    <2> DEFINE g == "TRADE_ACCRUED_INT2"
    <2>1. DllFunction(f) = g
      BY <1>2, Zenon DEF DllFunction
    <2>2. f \in TradeLongs /\ g \in TradeDoubles
      BY <1>2, Zenon DEF TradeLongs, TradeDoubles
    <2>3. g \in Cases
      BY <2>2, Zenon DEF Cases, Trades
    <2>4. /\ Signature(g) = [args |-> <<"number">>, outs |-> <<"double">>]
          /\ ServeFormat(f) = [reads |-> <<"i64">>, writes |-> <<"u32">>]
      BY <2>2, TradeLongFormats, TradeDoubleFormats, Zenon
    <2>5. Signature(g).outs = <<"double">> /\ ServeFormat(f).writes = <<"u32">>
      BY <2>4
    <2>6. WrittenOuts(<<"double">>, <<"u32">>)
      BY DEF WrittenOuts, IsList
    <2> QED BY <2>1, <2>3, <2>5, <2>6, Zenon
  <1> QED BY <1>1, <1>2

\* The setters that send another code, of which only one has a case.
LEMMA StrayFormats ==
  ASSUME NEW f \in StraySetters
  PROVE  \/ /\ f = "SET_TRANSACTIONS_REPLY_CALLBACK"
            /\ CallCode(f) = TransReply
            /\ Signature(f).args = <<"flag", "size">>
            /\ CallFormat(f).request = <<"u32", "u32">>
            /\ CallFormat(f).reply = <<"u32", "u32", "buffer">>
         \/ /\ f \in {"START_ORDERS", "START_TRADES"}
            /\ CallCode(f) = IF f = "START_ORDERS" THEN OrderStatus ELSE UnsubscribeTrades
            /\ Signature(f).args = <<"flag">>
            /\ CallFormat(f).request = <<"u32">> /\ CallFormat(f).reply = <<"i64">>
  <1>1. f \notin Cases
    BY NotStray, KindsOf, Zenon DEF Cases
  <1>2. /\ f \notin Control \cup OrderLongs \cup OrderQuantities \cup OrderDoubles \cup
                      OrderTexts \cup TradeLongs \cup TradeDoubles \cup
                      TradeTexts \cup FileTimes \cup DateTimes \cup
                      ReplyQuantities \cup ReplyTexts \cup ReplyPrices
        /\ f \notin Control \cup Orders \cup Trades \cup TradeTexts \cup Replies
    BY <1>1, NotStray, Zenon DEF Cases
  <1>3. CallFormat(f) = StrayCall(f)
    BY <1>2, Zenon DEF CallFormat
  <1>4. CASE f = "SET_TRANSACTIONS_REPLY_CALLBACK"
    <2>1. Signature(f) = [args |-> <<"flag", "size">>, outs |-> ErrorReport]
      BY <1>2, <1>4, NoControl, Zenon DEF Signature, ReplyPrices
    <2>2. CallFormat(f) = [request |-> <<"u32", "u32">>, reply |-> <<"u32", "u32", "buffer">>]
      BY <1>3, <1>4, Zenon DEF StrayCall, IntInExtErrOut
    <2>3. CallCode(f) = TransReply
      BY <1>4, Zenon DEF CallCode
    <2> QED BY <1>4, <2>1, <2>2, <2>3
  <1>5. CASE f \in {"START_ORDERS", "START_TRADES"}
    <2>1. Signature(f) = [args |-> <<"flag">>, outs |-> <<"long">>]
      BY <1>2, <1>5, NoControl, Zenon DEF Signature, ReplyPrices
    <2>2. CallFormat(f) = [request |-> <<"u32">>, reply |-> <<"i64">>]
      BY <1>3, <1>5, Zenon DEF StrayCall, IntInROut
    <2>3. CallCode(f) = IF f = "START_ORDERS" THEN OrderStatus ELSE UnsubscribeTrades
      BY <1>5, Zenon DEF CallCode
    <2> QED BY <1>5, <2>1, <2>2, <2>3
  <1> QED BY <1>4, <1>5, Zenon DEF StraySetters

\* The codes functions wait for, and those of callbacks, are different words.
LEMMA CallCodes ==
  ASSUME NEW f \in ApiFunctions
  PROVE  /\ f \in Cases => CallCode(f) = f
         /\ f \in StraySetters => CallCode(f) \in {TransReply, OrderStatus, UnsubscribeTrades}
         /\ CallCode(f) \in ToSet(Enumerators)
         /\ CallCode(f) \in Cases => f \in Cases \/ f = "START_TRADES"
         /\ UnsubscribeTrades \in Cases /\ Cases \cap CallbackCodes = {}
         /\ CallCode(f) # ConnStatus /\ ConnStatus \in ToSet(Enumerators)
  <1>1. f \in Cases => CallCode(f) = f
    <2> SUFFICES ASSUME f \in Cases PROVE CallCode(f) = f
      OBVIOUS
    <2>1. f \notin StraySetters
      BY NotStray, KindsOf, Zenon DEF Cases
    <2> QED BY <2>1, Zenon DEF CallCode, StraySetters
  <1>2. Cases \cap CallbackCodes = {}
    BY DEF Cases, Orders, Trades, Replies, CallbackCodes, ConnStatus,
         TransReply, OrderStatus, TradeStatus, Control, OrderLongs,
         OrderQuantities, OrderDoubles, OrderTexts, TradeLongs, TradeDoubles,
         TradeTexts, ReplyQuantities, ReplyTexts, SetConnStatus, UnsubscribeTrades
  <1>3. UnsubscribeTrades \in Cases
    BY Zenon DEF Cases, Control
  <1>4. f \in StraySetters =>
            \/ CallCode(f) \in {TransReply, OrderStatus}
            \/ (f = "START_TRADES" /\ CallCode(f) = UnsubscribeTrades)
    BY StrayFormats, Zenon DEF StraySetters
  <1>5. TransReply # ConnStatus /\ OrderStatus # ConnStatus
    BY DEF TransReply, OrderStatus, ConnStatus
  <1>6. {ConnStatus, TransReply, OrderStatus} \subseteq CallbackCodes
    BY Zenon DEF CallbackCodes
  <1>7. f \in Cases \/ f \in StraySetters
    BY Zenon DEF ApiFunctions
  <1>8. \A c \in Cases \cup CallbackCodes : c \in ToSet(Enumerators)
    BY CasesEnumerated, Zenon
  <1>9. \A c \in Cases : c # ConnStatus /\ c # TransReply /\ c # OrderStatus
    BY <1>2, <1>6
  <1> QED BY <1>1, <1>2, <1>3, <1>4, <1>5, <1>6, <1>7, <1>8, <1>9, Zenon

-----------------------------------------------------------------------------
(***************************************************************************)
(* A message, and what a reader that has waited for it finds.              *)
(***************************************************************************)
Framed(m, code, fields) ==
    /\ m = <<4 * (Len(fields) + 1), CodeWord[code]>> \o fields
    /\ m \in Seq(W32) /\ fields \in Seq(W32)

LEMMA MessageForm ==
  ASSUME NEW code \in ToSet(Enumerators), NEW types, NEW values, Len(types) \in Nat,
         \A i \in 1 .. Len(types) : Writable(types[i], values[i]),
         Head(Message(code, types, values)) < Base
  PROVE  Framed(Message(code, types, values), code, Fields(types, values))
  <1> DEFINE F == Fields(types, values)
             c == CodeWord[code]
             size == 4 * (Len(F) + 1)
  <1>1. F \in Seq(W32) /\ c \in W32
    BY FieldsTyped, CodesDiffer, Zenon
  <1>2. Message(code, types, values) = <<4 * Len(<<c>> \o F)>> \o (<<c>> \o F)
    BY Zenon DEF Message
  <1> HIDE DEF F, c
  <1>3. /\ Len(<<c>> \o F) = Len(F) + 1
        /\ \A n \in Nat : <<n>> \o (<<c>> \o F) = <<n, c>> \o F
        /\ \A n \in Nat : Head(<<n, c>> \o F) = n
        /\ \A n \in W32 : <<n, c>> \o F \in Seq(W32)
        /\ size \in Nat
    <2>1. \A n \in Nat : Head(<<n, c>> \o F) = n
      BY <1>1
    <2>2. \A n \in Nat : <<n>> \o (<<c>> \o F) = <<n, c>> \o F
      BY <1>1
    <2>3. \A n \in W32 : <<n, c>> \o F \in Seq(W32)
      BY <1>1
    <2>4. Len(<<c>> \o F) = Len(F) + 1 /\ size \in Nat
      BY <1>1
    <2> QED BY <2>1, <2>2, <2>3, <2>4, Zenon
  <1> HIDE DEF size
  <1>4. Message(code, types, values) = <<size, c>> \o F
    BY <1>2, <1>3, Zenon DEF size
  <1>5. size < Base
    BY <1>3, <1>4, Zenon
  <1>6. size \in W32
    BY <1>3, <1>5, BaseValue DEF W32
  <1> QED BY <1>1, <1>3, <1>4, <1>6, Zenon DEF Framed, F, c, size

LEMMA Slice ==
  ASSUME NEW T, NEW s \in Seq(T), NEW a \in 1 .. Len(s) + 1, NEW b \in a - 1 .. Len(s)
  PROVE  /\ SubSeq(s, a, b) \in Seq(T) /\ Len(SubSeq(s, a, b)) = b - a + 1
         /\ \A i \in 1 .. b - a + 1 : SubSeq(s, a, b)[i] = s[a + i - 1]
  OBVIOUS

LEMMA Join ==
  ASSUME NEW T, NEW s \in Seq(T), NEW t \in Seq(T)
  PROVE  /\ s \o t \in Seq(T) /\ Len(s \o t) = Len(s) + Len(t)
         /\ \A i \in 1 .. Len(s) : (s \o t)[i] = s[i]
         /\ \A i \in 1 .. Len(t) : (s \o t)[Len(s) + i] = t[i]
  OBVIOUS

\* The reader of m takes its code and its fields, and the words of rest that
\* have arrived with it, when the first n words have.
Taken(m, code, fields, rest, n) ==
    /\ n - Len(m) \in 0 .. Len(rest)
    /\ ReadField("u32", SubSeq(m \o rest, 2, n)).value = CodeWord[code]
    /\ SubSeq(m \o rest, 3, n) = fields \o SubSeq(rest, 1, n - Len(m))
    /\ SubSeq(rest, 1, n - Len(m)) \in Seq(W32)
    /\ Len(SubSeq(rest, 1, n - Len(m))) = n - Len(m)

LEMMA MessageTaken ==
  ASSUME NEW m, NEW code, NEW fields, Framed(m, code, fields), NEW rest \in Seq(W32),
         CodeWord[code] \in W32,
         NEW n \in 1 .. Len(m \o rest), Head(m \o rest) <= 4 * (n - 1)
  PROVE  Taken(m, code, fields, rest, n)
  <1> DEFINE c == CodeWord[code]
             words == m \o rest
             size == 4 * (Len(fields) + 1)
             k == n - Len(m)
             there == SubSeq(words, 2, n)
             s == SubSeq(rest, 1, k)
             a == SubSeq(words, 3, n)
             b == fields \o s
  <1>1. /\ m = <<size, c>> \o fields /\ m \in Seq(W32) /\ fields \in Seq(W32)
        /\ c \in W32
    BY Zenon DEF Framed
  <1>2. Len(fields) \in Nat /\ Len(rest) \in Nat
    BY <1>1
  <1> HIDE DEF c
  <1>3. Len(m) = Len(fields) + 2 /\ m[1] = size /\ m[2] = c /\ m # <<>>
    BY <1>1, <1>2
  <1>4. \A i \in 1 .. Len(fields) : m[2 + i] = fields[i]
    BY <1>1, <1>2
  <1>5. /\ words \in Seq(W32) /\ Len(words) = Len(m) + Len(rest)
        /\ \A i \in 1 .. Len(m) : words[i] = m[i]
        /\ \A i \in 1 .. Len(rest) : words[Len(m) + i] = rest[i]
    BY <1>1, Join
  <1> HIDE DEF words
  <1>6. Head(words) = size
    BY <1>1, <1>2, <1>3, <1>5
  <1>7. n >= Len(m) /\ k \in 0 .. Len(rest) /\ n \in 1 .. Len(words)
    BY <1>2, <1>3, <1>5, <1>6 DEF words
  <1>8. ReadField("u32", there).value = c
    <2>1. there \in Seq(W32) /\ Len(there) = n - 1 /\ there[1] = words[2]
      <3>1. 2 \in 1 .. Len(words) + 1 /\ n \in 2 - 1 .. Len(words) /\ 1 \in 1 .. n - 2 + 1
        BY <1>2, <1>3, <1>5, <1>7
      <3>2. /\ there \in Seq(W32) /\ Len(there) = n - 2 + 1
            /\ \A i \in 1 .. n - 2 + 1 : there[i] = words[2 + i - 1]
        BY <1>5, <3>1, Slice
      <3> QED BY <3>1, <3>2
    <2>2. there # <<>> /\ Head(there) = c
      <3> HIDE DEF there
      <3> QED BY <1>2, <1>3, <1>5, <1>7, <2>1
    <2>3. ReadField("u32", there) = [value |-> Head(there), left |-> Tail(there)]
      BY <2>2, ReadForms, Zenon
    <2> QED BY <2>2, <2>3
  <1>9. /\ s \in Seq(W32) /\ Len(s) = k
        /\ \A i \in 1 .. k : s[i] = rest[i]
    <2> HIDE DEF k
    <2>1. k \in 1 - 1 .. Len(rest) /\ 1 \in 1 .. Len(rest) + 1 /\ k - 1 + 1 = k
      BY <1>2, <1>7
    <2>2. /\ s \in Seq(W32) /\ Len(s) = k - 1 + 1
          /\ \A i \in 1 .. k - 1 + 1 : s[i] = rest[1 + i - 1]
      BY <2>1, Slice
    <2> HIDE DEF s
    <2> QED BY <1>2, <2>1, <2>2
  <1>10. a = b
    <2>1. /\ a \in Seq(W32) /\ Len(a) = Len(fields) + k
          /\ \A i \in 1 .. Len(fields) + k : a[i] = words[2 + i]
      <3>1. 3 \in 1 .. Len(words) + 1 /\ n \in 3 - 1 .. Len(words) /\ n - 3 + 1 = Len(fields) + k
        BY <1>2, <1>3, <1>5, <1>7
      <3>2. /\ a \in Seq(W32) /\ Len(a) = n - 3 + 1
            /\ \A i \in 1 .. n - 3 + 1 : a[i] = words[3 + i - 1]
        BY <1>5, <3>1, Slice
      <3> HIDE DEF a, k
      <3> QED BY <1>2, <1>7, <3>1, <3>2
    <2> HIDE DEF s, k
    <2>2. /\ b \in Seq(W32) /\ Len(b) = Len(fields) + k
          /\ \A i \in 1 .. Len(fields) : b[i] = fields[i]
          /\ \A i \in 1 .. k : b[Len(fields) + i] = s[i]
      <3>1. /\ b \in Seq(W32) /\ Len(b) = Len(fields) + Len(s)
            /\ \A i \in 1 .. Len(fields) : b[i] = fields[i]
            /\ \A i \in 1 .. Len(s) : b[Len(fields) + i] = s[i]
        <4>1. fields \in Seq(W32) /\ s \in Seq(W32)
          BY <1>1, <1>9, Zenon
        <4> QED BY <4>1, Join
      <3> QED BY <1>9, <3>1, Zenon
    <2> HIDE DEF a, b
    <2>3. ASSUME NEW i \in 1 .. Len(a) PROVE a[i] = b[i]
      <3>0. i \in 1 .. Len(fields) + k /\ a[i] = words[2 + i] /\ k \in Nat
        BY <1>7, <2>1
      <3>1. CASE i \in 1 .. Len(fields)
        <4>1. 2 + i \in 1 .. Len(m)
          BY <1>2, <1>3, <3>1
        <4> QED BY <1>4, <1>5, <2>2, <3>0, <3>1, <4>1
      <3>2. CASE i > Len(fields)
        <4>1. PICK j \in 1 .. k : i = Len(fields) + j
          <5>1. i - Len(fields) \in 1 .. k /\ i = Len(fields) + (i - Len(fields))
            BY <1>2, <3>0, <3>2
          <5> QED BY <5>1
        <4>2. j \in 1 .. Len(rest) /\ 2 + i = Len(m) + j
          BY <1>2, <1>3, <1>7, <4>1
        <4> QED BY <1>5, <1>9, <2>2, <3>0, <4>1, <4>2
      <3> QED BY <1>2, <3>0, <3>1, <3>2
    <2> QED BY <2>1, <2>2, <2>3, SeqEqual
  <1> QED BY <1>7, <1>8, <1>9, <1>10, Zenon DEF Taken, c, words

LEMMA Behind ==
  ASSUME NEW T, NEW m \in Seq(T), NEW rest \in Seq(T)
  PROVE  From(m \o rest, Len(m) + 1) = rest
  BY DEF From

=============================================================================
