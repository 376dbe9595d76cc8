---------------------------- MODULE Framing_proofs ---------------------------
(***************************************************************************)
(* Framing, for every length of message, buffer and header: the messages   *)
(* arrive whole and in order however the stream is cut (StreamIsExact),    *)
(* and no wakeup is lost (NoWakeupIsLost).                                 *)
(*                                                                         *)
(* StreamExact follows from an invariant that names what it leaves out.    *)
(* The messages not yet parsed, written as bytes, are what is in the       *)
(* reader's buffer, in the socket and still to come; of a connection that  *)
(* is not reset, what is to come is the rest of the current write.  A      *)
(* write, a read and a reset only move the cuts.  ParseOne needs more: that*)
(* the front of the buffer, once it is as long as a header, is the header  *)
(* that was written, that its number reads as it was written (RoundTrip),  *)
(* and that the buffer is then known to hold the body.                     *)
(***************************************************************************)
EXTENDS Framing, DataLemmas

-----------------------------------------------------------------------------
(* The header's number.                                                    *)

\* The recursive function of Shifted divides by Base, step by step.
LEMMA ShiftedIs ==
  ASSUME NEW n \in Nat
  PROVE  /\ Shifted(n) \in [0..LenBytes -> Nat]
         /\ Shifted(n)[0] = n
         /\ \A i \in 1..LenBytes : Shifted(n)[i] = Shifted(n)[i - 1] \div Base
<1> DEFINE By(k) == k \div Base
           step == [p \in Nat \X Nat |-> By(p[2])]
           s == Shifted(n)
           Is(t) == t = [i \in 0..LenBytes |-> IF i = 0 THEN n ELSE By(t[i - 1])]
<1>1. LenBytes \in Nat /\ LenBytes > 0 /\ \A k \in Nat : By(k) \in Nat
  BY SizesAssumption
<1>2. s = CHOOSE t : Is(t)
  BY DEF Shifted
<1> HIDE DEF s, By
<1>3. PICK f \in [Nat -> Nat] : f[0] = n /\ \A i \in Nat : f[i + 1] = By(f[i])
  <2>1. step \in [Nat \X Nat -> Nat] /\ \A i, k \in Nat : step[<<i, k>>] = By(k)
    BY <1>1
  <2> HIDE DEF step
  <2>2. PICK f \in [Nat -> Nat] : Iterates(f, n, step)
    BY <2>1, Recursion
  <2> QED BY <2>1, <2>2 DEF Iterates
<1> DEFINE g == [i \in 0..LenBytes |-> f[i]]
<1>4. Is(g)
  <2>1. \A i \in 1..LenBytes : f[i] = By(f[i - 1])
    <3> SUFFICES ASSUME NEW i \in 1..LenBytes PROVE f[i] = By(f[i - 1])
      OBVIOUS
    <3>1. i - 1 \in Nat /\ (i - 1) + 1 = i
      OBVIOUS
    <3>2. f[(i - 1) + 1] = By(f[i - 1])
      BY <1>3, <3>1
    <3> QED BY <3>1, <3>2
  <2>2. \A i \in 0..LenBytes : f[i] = IF i = 0 THEN n ELSE By(g[i - 1])
    <3> SUFFICES ASSUME NEW i \in 0..LenBytes, i # 0 PROVE f[i] = By(g[i - 1])
      BY <1>3
    <3>1. i \in 1..LenBytes /\ i - 1 \in 0..LenBytes
      BY <1>1
    <3> QED BY <2>1, <3>1
  <2>3. g = [i \in 0..LenBytes |-> IF i = 0 THEN n ELSE By(g[i - 1])]
    BY <2>2
  <2> QED BY <2>3
<1> HIDE DEF g
<1>5. Is(s)
  BY <1>2, <1>4
<1>6. /\ s = [i \in 0..LenBytes |-> s[i]] /\ s[0] = n
      /\ \A i \in 1..LenBytes : s[i] = By(s[i - 1])
  <2> DEFINE u == [i \in 0..LenBytes |-> IF i = 0 THEN n ELSE By(s[i - 1])]
  <2>1. s = u
    BY <1>5
  <2>2. u = [i \in 0..LenBytes |-> u[i]] /\ u[0] = n /\ \A i \in 1..LenBytes : u[i] = By(s[i - 1])
    BY <1>1
  <2> HIDE DEF u
  <2> QED BY <2>1, <2>2
<1> DEFINE T == {i \in Nat : i =< LenBytes => s[i] \in Nat}
<1>7. 0 \in T
  BY <1>6
<1>8. ASSUME NEW i \in Nat, i \in T PROVE i + 1 \in T
  <2>1. CASE i + 1 =< LenBytes
    <3>1. s[i] \in Nat /\ i + 1 \in 1..LenBytes /\ (i + 1) - 1 = i
      BY <1>1, <1>8, <2>1
    <3>2. s[i + 1] = By(s[i])
      BY <1>6, <3>1
    <3> QED BY <1>1, <2>1, <3>1, <3>2
  <2> QED BY <1>1, <2>1
<1> HIDE DEF T
<1>9. Nat \subseteq T
  BY <1>7, <1>8, SetInduction
<1>10. \A i \in 0..LenBytes : s[i] \in Nat
  BY <1>1, <1>9 DEF T
<1> QED BY <1>6, <1>10 DEF s, By

\* The recursive function of FromLE goes from the last digit to the first.
LEMMA FromLEIs ==
  ASSUME NEW d, \A i \in 1..LenBytes : d[i] \in Nat
  PROVE  \E v \in [0..LenBytes -> Nat] :
           /\ v[0] = 0 /\ FromLE(d) = v[LenBytes]
           /\ \A k \in 1..LenBytes : v[k] = d[LenBytes + 1 - k] + Base * v[k - 1]
<1> DEFINE With(k, r) == d[LenBytes + 1 - k] + Base * r
           step == [p \in Nat \X Nat |-> IF p[1] < LenBytes THEN With(p[1] + 1, p[2]) ELSE 0]
           Is(t) == t = [k \in 0..LenBytes |-> IF k = 0 THEN 0 ELSE With(k, t[k - 1])]
           v == CHOOSE t : Is(t)
<1>1. LenBytes \in Nat /\ LenBytes > 0 /\ Base \in Nat
  BY SizesAssumption
<1>2. \A k \in 1..LenBytes, r \in Nat : With(k, r) \in Nat
  <2> SUFFICES ASSUME NEW k \in 1..LenBytes, NEW r \in Nat PROVE With(k, r) \in Nat
    OBVIOUS
  <2>1. d[LenBytes + 1 - k] \in Nat /\ Base * r \in Nat
    BY <1>1
  <2> QED BY <2>1
<1>3. FromLE(d) = v[LenBytes]
  BY DEF FromLE
<1> HIDE DEF With
<1>4. PICK f \in [Nat -> Nat] : f[0] = 0 /\ \A k \in 1..LenBytes : f[k] = With(k, f[k - 1])
  <2>1. /\ step \in [Nat \X Nat -> Nat]
        /\ \A k, r \in Nat : k < LenBytes => step[<<k, r>>] = With(k + 1, r)
    <3>1. \A k \in Nat, r \in Nat : k < LenBytes => With(k + 1, r) \in Nat
      BY <1>1, <1>2
    <3> QED BY <3>1
  <2> HIDE DEF step
  <2>2. PICK f \in [Nat -> Nat] : Iterates(f, 0, step)
    BY <2>1, Recursion
  <2>3. ASSUME NEW k \in 1..LenBytes PROVE f[k] = With(k, f[k - 1])
    <3>1. k - 1 \in Nat /\ (k - 1) + 1 = k /\ k - 1 < LenBytes
      BY <1>1
    <3>2. f[(k - 1) + 1] = With((k - 1) + 1, f[k - 1])
      BY <2>1, <2>2, <3>1 DEF Iterates
    <3> QED BY <3>1, <3>2
  <2> QED BY <2>2, <2>3 DEF Iterates
<1> DEFINE g == [k \in 0..LenBytes |-> f[k]]
<1>5. Is(g)
  <2>1. \A k \in 0..LenBytes : f[k] = IF k = 0 THEN 0 ELSE With(k, g[k - 1])
    <3> SUFFICES ASSUME NEW k \in 0..LenBytes, k # 0 PROVE f[k] = With(k, g[k - 1])
      BY <1>4
    <3>1. k \in 1..LenBytes /\ k - 1 \in 0..LenBytes
      BY <1>1
    <3> QED BY <1>4, <3>1
  <2>2. g = [k \in 0..LenBytes |-> IF k = 0 THEN 0 ELSE With(k, g[k - 1])]
    BY <2>1
  <2> QED BY <2>2
<1> HIDE DEF g
<1>6. Is(v)
  BY <1>5
<1> HIDE DEF v
<1>7. /\ v = [k \in 0..LenBytes |-> v[k]] /\ v[0] = 0
      /\ \A k \in 1..LenBytes : v[k] = With(k, v[k - 1])
  <2> DEFINE u == [k \in 0..LenBytes |-> IF k = 0 THEN 0 ELSE With(k, v[k - 1])]
  <2>1. v = u
    BY <1>6
  <2>2. /\ u = [k \in 0..LenBytes |-> u[k]] /\ u[0] = 0
        /\ \A k \in 1..LenBytes : u[k] = With(k, v[k - 1])
    BY <1>1
  <2> HIDE DEF u
  <2> QED BY <2>1, <2>2
<1> DEFINE T == {k \in Nat : k =< LenBytes => v[k] \in Nat}
<1>8. 0 \in T
  BY <1>7
<1>9. ASSUME NEW k \in Nat, k \in T PROVE k + 1 \in T
  <2>1. CASE k + 1 =< LenBytes
    <3>1. v[k] \in Nat /\ k + 1 \in 1..LenBytes /\ (k + 1) - 1 = k
      BY <1>1, <1>9, <2>1
    <3>2. v[k + 1] = With(k + 1, v[k])
      BY <1>7, <3>1
    <3> QED BY <1>2, <2>1, <3>1, <3>2
  <2> QED BY <1>1, <2>1
<1> HIDE DEF T
<1>10. Nat \subseteq T
  BY <1>8, <1>9, SetInduction
<1>11. \A k \in 0..LenBytes : v[k] \in Nat
  BY <1>1, <1>10 DEF T
<1>12. v \in [0..LenBytes -> Nat]
  BY <1>7, <1>11
<1> QED BY <1>3, <1>7, <1>12 DEF With

\* to_le_bytes gives LenBytes bytes.
LEMMA ToLEType ==
  ASSUME NEW n \in Nat
  PROVE  /\ ToLE(n) \in Seq(Byte) /\ Len(ToLE(n)) = LenBytes
         /\ \A i \in 1..LenBytes : ToLE(n)[i] = Shifted(n)[i - 1] % Base
<1>1. LenBytes \in Nat /\ Base \in Nat /\ Base > 1
  BY SizesAssumption
<1>2. \A i \in 1..LenBytes : Shifted(n)[i - 1] % Base \in Byte
  <2> SUFFICES ASSUME NEW i \in 1..LenBytes PROVE Shifted(n)[i - 1] % Base \in Byte
    OBVIOUS
  <2>1. Shifted(n)[i - 1] \in Nat
    BY <1>1, ShiftedIs
  <2> QED BY <1>1, <2>1 DEF Byte
<1>3. ToLE(n) \in [1..LenBytes -> Byte]
  BY <1>2 DEF ToLE
<1>4. ToLE(n) \in Seq(Byte)
  BY <1>1, <1>3, SeqDef
<1>5. Len(ToLE(n)) = LenBytes
  <2>1. DOMAIN ToLE(n) = 1..LenBytes /\ DOMAIN ToLE(n) = 1..Len(ToLE(n)) /\ Len(ToLE(n)) \in Nat
    BY <1>3, <1>4, LenProperties
  <2> QED BY <1>1, <2>1
<1> QED BY <1>4, <1>5 DEF ToLE

\* from_le_bytes reads what to_le_bytes wrote, when the number fits: after k
\* digits the value is the number shifted by the others.
LEMMA RoundTrip ==
  ASSUME NEW n \in Nat, Shifted(n)[LenBytes] = 0
  PROVE  FromLE(ToLE(n)) = n
<1> DEFINE d == ToLE(n)
           s == Shifted(n)
<1>1. LenBytes \in Nat /\ LenBytes > 0 /\ Base \in Nat /\ Base > 1
  BY SizesAssumption
<1>2. /\ s \in [0..LenBytes -> Nat] /\ s[0] = n /\ s[LenBytes] = 0
      /\ \A i \in 1..LenBytes : s[i] = s[i - 1] \div Base
  BY ShiftedIs
<1>3. \A i \in 1..LenBytes : d[i] = s[i - 1] % Base /\ d[i] \in Nat
  <2>1. \A i \in 1..LenBytes : d[i] = s[i - 1] % Base /\ d[i] \in Byte
    BY ToLEType, ElementOfSeq
  <2> QED BY <1>1, <2>1 DEF Byte
<1> HIDE DEF d, s
<1>4. PICK v \in [0..LenBytes -> Nat] :
        /\ v[0] = 0 /\ FromLE(d) = v[LenBytes]
        /\ \A k \in 1..LenBytes : v[k] = d[LenBytes + 1 - k] + Base * v[k - 1]
  BY <1>3, FromLEIs
<1> DEFINE T == {k \in Nat : k =< LenBytes => v[k] = s[LenBytes - k]}
<1>5. 0 \in T
  BY <1>1, <1>2, <1>4
<1>6. ASSUME NEW k \in Nat, k \in T PROVE k + 1 \in T
  <2>1. CASE k + 1 =< LenBytes
    <3> DEFINE j == LenBytes - k
    <3>1. j \in 1..LenBytes /\ j - 1 \in 0..LenBytes /\ k + 1 \in 1..LenBytes /\ LenBytes + 1 - (k + 1) = j
          /\ (k + 1) - 1 = k /\ LenBytes - (k + 1) = j - 1
      BY <1>1, <2>1
    <3>2. v[k + 1] = d[j] + Base * v[k]
      BY <1>4, <3>1
    <3>3. v[k] = s[j]
      BY <1>6, <2>1, <1>1
    <3>4. d[j] = s[j - 1] % Base /\ s[j] = s[j - 1] \div Base /\ s[j - 1] \in Nat
      BY <1>2, <1>3, <3>1
    <3> HIDE DEF j
    <3>5. \A x \in Nat : (x % Base) + Base * (x \div Base) = x
      BY <1>1
    <3> QED BY <3>1, <3>2, <3>3, <3>4, <3>5
  <2> QED BY <1>1, <2>1
<1> HIDE DEF T
<1>7. LenBytes \in T
  BY <1>1, <1>5, <1>6, SetInduction
<1>8. v[LenBytes] = s[0]
  BY <1>1, <1>7 DEF T
<1> QED BY <1>2, <1>4, <1>8 DEF d

-----------------------------------------------------------------------------
(* A message as bytes.                                                     *)

HeaderOf(m) == <<m.ch>> \o ToLE(Len(m.body))

\* A message is written as a header of HeaderLen bytes and its body.
LEMMA EncodeIs ==
  ASSUME NEW m \in Messages
  PROVE  /\ m.ch \in Byte /\ m.body \in Seq(Byte) /\ Len(m.body) \in Nat
         /\ HeaderOf(m) \in Seq(Byte) /\ Len(HeaderOf(m)) = HeaderLen
         /\ Encode(m) = HeaderOf(m) \o m.body /\ Encode(m) \in Seq(Byte)
         /\ HeaderLen \in Nat /\ HeaderLen > 0
         /\ m = [ch |-> m.ch, body |-> m.body]
<1>1. m \in [ch : Byte, body : Seq(Byte)]
  BY MessagesAssumption
<1>2. m.ch \in Byte /\ m.body \in Seq(Byte) /\ m = [ch |-> m.ch, body |-> m.body]
  BY <1>1
<1>3. Len(m.body) \in Nat
  BY <1>2, LenProperties
<1> DEFINE d == ToLE(Len(m.body))
           c == <<m.ch>>
<1>4. d \in Seq(Byte) /\ Len(d) = LenBytes
  BY <1>3, ToLEType
<1>5. c \in Seq(Byte) /\ Len(c) = 1
  BY <1>2
<1> HIDE DEF c, d
<1>6. c \o d \in Seq(Byte) /\ Len(c \o d) = 1 + LenBytes
  BY <1>4, <1>5, ConcatProperties, ZenonT(40)
<1>7. (c \o d) \o m.body \in Seq(Byte)
  BY <1>2, <1>6, ConcatProperties
<1>8. HeaderOf(m) = c \o d /\ Encode(m) = (c \o d) \o m.body
  BY DEF HeaderOf, Encode, c, d
<1>9. HeaderLen \in Nat /\ HeaderLen > 0 /\ HeaderLen = 1 + LenBytes
  BY SizesAssumption DEF HeaderLen
<1> QED BY <1>2, <1>3, <1>6, <1>7, <1>8, <1>9

\* parse_buffer finds in front of a buffer what write_data put there.
LEMMA HeaderRead ==
  ASSUME NEW m \in Messages, NEW e \in Seq(Byte), NEW b, b = HeaderOf(m) \o e
  PROVE  HeaderAt(b).ch = m.ch /\ HeaderAt(b).len = Len(m.body)
<1> DEFINE d == ToLE(Len(m.body))
           c == <<m.ch>>
<1>1. m.ch \in Byte /\ Len(m.body) \in Nat /\ Shifted(Len(m.body))[LenBytes] = 0
  BY EncodeIs, MessagesAssumption
<1>2. d \in Seq(Byte) /\ Len(d) = LenBytes /\ FromLE(d) = Len(m.body)
  BY <1>1, ToLEType, RoundTrip
<1>3. c \in Seq(Byte) /\ Len(c) = 1 /\ c[1] = m.ch
  BY <1>1
<1>4. b = (c \o d) \o e
  BY DEF HeaderOf
<1> HIDE DEF c, d
<1>5. SubSeq(b, 2, HeaderLen) = d
  <2>1. SubSeq((c \o d) \o e, Len(c) + 1, Len(c) + Len(d)) = d
    BY <1>2, <1>3, PartOfSeq
  <2>2. Len(c) + 1 = 2 /\ Len(c) + Len(d) = HeaderLen
    BY <1>2, <1>3 DEF HeaderLen
  <2> QED BY <1>4, <2>1, <2>2
<1>6. b[1] = m.ch
  <2> DEFINE x == c \o d
  <2>1. LenBytes \in Nat
    BY SizesAssumption
  <2>2. x \in Seq(Byte) /\ Len(x) = 1 + LenBytes /\ x[1] = m.ch
    <3>1. \A i \in 1..(Len(c) + Len(d)) : (c \o d)[i] = IF i =< Len(c) THEN c[i] ELSE d[i - Len(c)]
      BY <1>2, <1>3, ConcatProperties, ZenonT(40)
    <3>2. 1 \in 1..(Len(c) + Len(d)) /\ 1 =< Len(c)
      BY <1>2, <1>3, <2>1
    <3>3. x \in Seq(Byte) /\ Len(x) = Len(c) + Len(d)
      BY <1>2, <1>3, ConcatProperties
    <3>4. (c \o d)[1] = c[1]
      BY <3>1, <3>2
    <3> QED BY <1>2, <1>3, <3>3, <3>4
  <2> HIDE DEF x
  <2>3. \A i \in 1..(Len(x) + Len(e)) : (x \o e)[i] = IF i =< Len(x) THEN x[i] ELSE e[i - Len(x)]
    BY <2>2, ConcatProperties
  <2>4. 1 \in 1..(Len(x) + Len(e)) /\ 1 =< Len(x)
    BY <2>1, <2>2, LenProperties
  <2>5. (x \o e)[1] = x[1]
    BY <2>3, <2>4
  <2> QED BY <1>4, <2>2, <2>5 DEF x
<1> QED BY <1>2, <1>5, <1>6 DEF HeaderAt

\* The bytes of messages in a row are those of the first and of the others.
LEMMA BytesConcat ==
  ASSUME NEW a \in Seq(Messages), NEW b \in Seq(Messages)
  PROVE  Bytes(a) \in Seq(Byte) /\ Bytes(a \o b) = Bytes(a) \o Bytes(b)
<1> DEFINE All(ms) == [i \in DOMAIN ms |-> Encode(ms[i])]
           S == Seq(Byte)
<1>1. \A m \in Messages : Encode(m) \in S
  BY EncodeIs
<1>2. ASSUME NEW ms \in Seq(Messages)
      PROVE  /\ All(ms) \in Parts(Byte) /\ Len(All(ms)) = Len(ms)
             /\ \A i \in 1..Len(ms) : All(ms)[i] = Encode(ms[i])
  <2> HIDE DEF S
  <2>1. DOMAIN ms = 1..Len(ms) /\ Len(ms) \in Nat /\ \A i \in 1..Len(ms) : ms[i] \in Messages
    BY LenProperties, ElementOfSeq
  <2>2. All(ms) \in [1..Len(ms) -> S]
    BY <1>1, <2>1
  <2>3. All(ms) \in Seq(S)
    BY <2>1, <2>2, SeqDef
  <2>4. Len(All(ms)) = Len(ms)
    <3>1. DOMAIN All(ms) = 1..Len(ms) /\ DOMAIN All(ms) = 1..Len(All(ms)) /\ Len(All(ms)) \in Nat
      BY <2>2, <2>3, LenProperties
    <3> QED BY <2>1, <3>1
  <2> QED BY <2>1, <2>3, <2>4 DEF Parts, S
<1> HIDE DEF S
<1>3. a \o b \in Seq(Messages) /\ Len(a \o b) = Len(a) + Len(b) /\ Len(a) \in Nat /\ Len(b) \in Nat
      /\ \A i \in 1..(Len(a) + Len(b)) : (a \o b)[i] = IF i =< Len(a) THEN a[i] ELSE b[i - Len(a)]
  BY ConcatProperties, LenProperties
<1>4. All(a \o b) = All(a) \o All(b)
  <2> DEFINE x == All(a)
             y == All(b)
             z == All(a \o b)
  <2>1. x \in Parts(Byte) /\ y \in Parts(Byte) /\ z \in Parts(Byte)
        /\ Len(x) = Len(a) /\ Len(y) = Len(b) /\ Len(z) = Len(a) + Len(b)
        /\ (\A i \in 1..Len(a) : x[i] = Encode(a[i]))
        /\ (\A i \in 1..Len(b) : y[i] = Encode(b[i]))
        /\ (\A i \in 1..(Len(a) + Len(b)) : z[i] = Encode((a \o b)[i]))
    BY <1>2, <1>3
  <2> HIDE DEF x, y, z
  <2>2. /\ x \o y \in Parts(Byte) /\ Len(x \o y) = Len(a) + Len(b)
        /\ \A i \in 1..(Len(a) + Len(b)) : (x \o y)[i] = IF i =< Len(a) THEN x[i] ELSE y[i - Len(a)]
    <3> DEFINE Q == Seq(Byte)
    <3>1. x \in Seq(Q) /\ y \in Seq(Q)
      BY <2>1 DEF Parts
    <3> HIDE DEF Q
    <3>2. /\ x \o y \in Seq(Q) /\ Len(x \o y) = Len(x) + Len(y)
          /\ \A i \in 1..(Len(x) + Len(y)) : (x \o y)[i] = IF i =< Len(x) THEN x[i] ELSE y[i - Len(x)]
      BY ONLY <3>1, ConcatProperties
    <3>3. x \o y \in Parts(Byte)
      BY <3>2 DEF Parts, Q
    <3> QED BY <2>1, <3>2, <3>3
  <2>3. ASSUME NEW i \in 1..(Len(a) + Len(b)) PROVE z[i] = (x \o y)[i]
    <3>1. CASE i =< Len(a)
      <4>1. i \in 1..Len(a)
        BY <1>3, <3>1
      <4> QED BY <1>3, <2>1, <2>2, <3>1, <4>1
    <3>2. CASE ~(i =< Len(a))
      <4>1. i - Len(a) \in 1..Len(b)
        BY <1>3, <3>2
      <4> QED BY <1>3, <2>1, <2>2, <3>2, <4>1
    <3> QED BY <3>1, <3>2
  <2>4. z = x \o y
    <3> DEFINE w == x \o y
    <3>1. w \in Parts(Byte) /\ Len(w) = Len(z) /\ \A i \in 1..Len(z) : z[i] = w[i]
      BY <2>1, <2>2, <2>3
    <3> HIDE DEF w
    <3>2. z = w
      BY <2>1, <3>1, SeqEqual DEF Parts
    <3> QED BY <3>2 DEF w
  <2> QED BY <2>4 DEF x, y, z
<1>5. Bytes(a) = FlattenSeq(All(a)) /\ Bytes(b) = FlattenSeq(All(b)) /\ Bytes(a \o b) = FlattenSeq(All(a \o b))
  BY DEF Bytes
<1>6. All(a) \in Parts(Byte) /\ All(b) \in Parts(Byte)
  BY <1>2
<1> HIDE DEF All
<1>7. /\ FlattenSeq(All(a)) \in S
      /\ FlattenSeq(All(a) \o All(b)) = FlattenSeq(All(a)) \o FlattenSeq(All(b))
  BY <1>6, FlattenConcat DEF S
<1> QED BY <1>4, <1>5, <1>7 DEF S

\* The bytes of one message are its encoding.
LEMMA BytesOne ==
  ASSUME NEW m \in Messages
  PROVE  Bytes(<<m>>) = Encode(m)
<1>1. Encode(m) \in Seq(Byte)
  BY EncodeIs
<1>2. [i \in DOMAIN <<m>> |-> Encode(<<m>>[i])] = <<Encode(m)>>
  OBVIOUS
<1>3. FlattenSeq(<<Encode(m)>>) = Encode(m)
  BY <1>1, FlattenOne
<1> QED BY <1>2, <1>3 DEF Bytes

\* No message, no bytes.
LEMMA BytesNone == Bytes(<<>>) = <<>>
<1>1. [i \in DOMAIN <<>> |-> Encode(<<>>[i])] = <<>>
  OBVIOUS
<1> QED BY <1>1 DEF Bytes, FlattenSeq

\* Concatenation of bytes is associative.
LEMMA BytesAssoc ==
  \A x, y, z \in Seq(Byte) : (x \o y) \o z = x \o (y \o z)
BY ConcatAssociative

LEMMA MessagesAssoc ==
  \A x, y, z \in Seq(Messages) : (x \o y) \o z = x \o (y \o z)
BY ConcatAssociative

Begins(B, a, h) == \E e \in Seq(B) : a = h \o e

\* A buffer and what follows it, cut behind a header, a body and the others: a
\* buffer as long as the header begins with it, and one as long as header and
\* body with both.
LEMMA RecutHeader ==
  ASSUME NEW B, NEW a \in Seq(B), NEW t \in Seq(B), NEW h \in Seq(B), NEW b \in Seq(B), NEW r \in Seq(B),
         NEW hb, hb = h \o b, SameWhole(a, t, hb, r)
  PROVE  /\ Len(h) =< Len(a) => Begins(B, a, h)
         /\ Len(hb) =< Len(a) => Longer(B, a, t, hb, r)
<1> DEFINE y == b \o r
<1>1. y \in Seq(B) /\ hb \in Seq(B)
  BY ConcatProperties
<1>2. hb \o r = h \o y
  BY ConcatAssociative, SMTT(40)
<1>3. SameWhole(a, t, h, y)
  BY <1>2 DEF SameWhole
<1> HIDE DEF y
<1>4. ASSUME Len(h) =< Len(a) PROVE Begins(B, a, h)
  <2>1. Longer(B, a, t, h, y)
    BY <1>1, <1>3, <1>4, Recut
  <2> QED BY <2>1 DEF Longer, Begins
<1>5. ASSUME Len(hb) =< Len(a) PROVE Longer(B, a, t, hb, r)
  BY <1>1, <1>5, Recut
<1> QED BY <1>4, <1>5

-----------------------------------------------------------------------------
(* The stream.                                                             *)

InFlight ==
  /\ out \in Seq(Messages)
  /\ \E rest \in Seq(Messages), cut \in Seq(Byte) :
       /\ sent = out \o rest
       /\ (buf \o sock) \o cut = Bytes(rest)
       /\ ~reset => cut = unwritten

\* Nothing is sent, and nothing is on the way.
LEMMA InitExact == Init => TypeOK /\ InFlight
<1> SUFFICES ASSUME Init PROVE TypeOK /\ InFlight
  OBVIOUS
<1>1. toSend \in Seq(Messages)
  <2>1. PICK n \in 0..MaxSent : toSend \in [1..n -> Messages]
    BY DEF Init
  <2> QED BY <2>1, SizesAssumption, SeqDef
<1>2. TypeOK
  <2>1. <<>> \in Seq(Messages) /\ <<>> \in Seq(Byte) /\ Len(<<>>) = 0
    BY EmptySeq
  <2>2. sent = <<>> /\ unwritten = <<>> /\ sock = <<>> /\ buf = <<>>
        /\ writer = "open" /\ reader = "poll" /\ reset = FALSE /\ event = FALSE /\ eof = FALSE
    BY DEF Init
  <2>3. 0 =< SockLen
    BY SizesAssumption
  <2> QED BY ONLY <1>1, <2>1, <2>2, <2>3 DEF TypeOK
<1>3. InFlight
  <2>1. <<>> \in Seq(Messages) /\ <<>> \in Seq(Byte)
    BY EmptySeq
  <2>2. <<>> \o <<>> = <<>>
    BY <2>1, ConcatEmptySeq
  <2>3. /\ sent = out \o <<>> /\ (buf \o sock) \o <<>> = Bytes(<<>>)
        /\ <<>> = unwritten /\ out = <<>>
    BY <2>2, BytesNone DEF Init
  <2> QED BY <2>1, <2>3 DEF InFlight
<1> QED BY <1>2, <1>3

\* write_data starts on a message: it is the last one in flight.
LEMMA NextMessageExact == TypeOK /\ InFlight /\ NextMessage => TypeOK' /\ InFlight'
<1> SUFFICES ASSUME TypeOK, InFlight, NextMessage PROVE TypeOK' /\ InFlight'
  OBVIOUS
<1> DEFINE h == Head(toSend)
           e == Encode(h)
<1>1. h \in Messages /\ Tail(toSend) \in Seq(Messages)
  BY HeadTailProperties DEF TypeOK, NextMessage
<1>2. e \in Seq(Byte) /\ Bytes(<<h>>) = e
  BY <1>1, EncodeIs, BytesOne
<1>3. Append(sent, h) \in Seq(Messages) /\ Append(sent, h) = sent \o <<h>>
  BY <1>1, AppendProperties, AppendIsConcat DEF TypeOK
<1> HIDE DEF h, e
<1>4. /\ unwritten' = e /\ sent' = Append(sent, h) /\ toSend' = Tail(toSend) /\ unwritten = <<>>
      /\ UNCHANGED <<writer, sock, reset, event, reader, eof, buf, out>>
  BY DEF NextMessage, rvars, h, e
<1>5. TypeOK'
  BY <1>1, <1>2, <1>3, <1>4 DEF TypeOK
<1>6. InFlight'
  <2>1. PICK rest \in Seq(Messages), cut \in Seq(Byte) :
          /\ sent = out \o rest
          /\ (buf \o sock) \o cut = Bytes(rest)
          /\ ~reset => cut = unwritten
    BY DEF InFlight
  <2> DEFINE l == <<h>>
             x == buf \o sock
  <2>2. l \in Seq(Messages) /\ x \in Seq(Byte) /\ out \in Seq(Messages)
    BY <1>1, ConcatProperties DEF TypeOK, InFlight
  <2>3. Bytes(l) = e
    BY <1>2
  <2> HIDE DEF l, x
  <2>4. rest \o l \in Seq(Messages) /\ cut \o e \in Seq(Byte)
    BY <1>2, <2>2, ConcatProperties
  <2>5. sent \o l = out \o (rest \o l)
    BY <2>1, <2>2, ConcatAssociative
  <2>6. Bytes(rest \o l) = Bytes(rest) \o Bytes(l)
    BY <2>2, BytesConcat
  <2>7. (x \o cut) \o e = x \o (cut \o e)
    BY <1>2, <2>2, ConcatAssociative
  <2>8. x \o (cut \o e) = Bytes(rest \o l)
    BY <2>1, <2>3, <2>6, <2>7 DEF x
  <2>9. <<>> \o e = e
    BY <1>2, ConcatEmptySeq
  <2>10. /\ sent' = out' \o (rest \o l)
         /\ (buf' \o sock') \o (cut \o e) = Bytes(rest \o l)
         /\ ~reset' => cut \o e = unwritten'
    BY <1>3, <1>4, <2>1, <2>5, <2>8, <2>9 DEF l, x
  <2> QED BY <1>4, <2>2, <2>4, <2>10 DEF InFlight
<1> QED BY <1>5, <1>6

\* A write moves bytes from the current message to the socket.
LEMMA WriteSomeExact == TypeOK /\ InFlight /\ WriteSome => TypeOK' /\ InFlight'
<1> SUFFICES ASSUME TypeOK, InFlight, WriteSome PROVE TypeOK' /\ InFlight'
  OBVIOUS
<1>1. PICK n \in 1..Len(unwritten) :
        /\ Len(sock) + n =< SockLen
        /\ sock' = sock \o SubSeq(unwritten, 1, n)
        /\ unwritten' = SubSeq(unwritten, n + 1, Len(unwritten))
  BY DEF WriteSome
<1> DEFINE p == SubSeq(unwritten, 1, n)
           q == SubSeq(unwritten, n + 1, Len(unwritten))
<1>2. unwritten \in Seq(Byte) /\ sock \in Seq(Byte) /\ buf \in Seq(Byte)
  BY DEF TypeOK
<1>3. p \in Seq(Byte) /\ q \in Seq(Byte) /\ Len(p) = n /\ unwritten = p \o q
  <2>1. n \in 0..Len(unwritten)
    BY <1>2, LenProperties
  <2> QED BY <1>2, <2>1, CutInTwo
<1>4. sock' = sock \o p /\ unwritten' = q /\ Len(sock) + n =< SockLen
  BY <1>1
<1>5. p \in Seq(Byte) /\ q \in Seq(Byte) /\ buf \in Seq(Byte) /\ sock \in Seq(Byte)
  BY <1>2, <1>3
<1> HIDE DEF p, q
<1>6. sock' \in Seq(Byte) /\ Len(sock') =< SockLen
  BY <1>2, <1>3, <1>4, ConcatProperties
<1>7. TypeOK'
  BY <1>3, <1>4, <1>6 DEF TypeOK, WriteSome, rvars
<1>8. InFlight'
  <2>1. PICK rest \in Seq(Messages), cut \in Seq(Byte) :
          /\ sent = out \o rest
          /\ (buf \o sock) \o cut = Bytes(rest)
          /\ ~reset => cut = unwritten
    BY DEF InFlight
  <2>2. sock' = sock \o p /\ cut = p \o q
    BY <1>3, <1>4, <2>1 DEF WriteSome
  <2>3. (buf \o sock') \o q = (buf \o sock) \o cut
    <3>1. (buf \o sock) \o p = buf \o (sock \o p)
      BY <1>5, BytesAssoc
    <3> DEFINE x == buf \o sock
    <3>2. x \in Seq(Byte)
      BY ONLY <1>5, ConcatProperties
    <3> HIDE DEF x
    <3>3. (x \o p) \o q = x \o (p \o q)
      BY ONLY <1>5, <3>2, BytesAssoc
    <3> QED BY <2>2, <3>1, <3>3 DEF x
  <2>4. /\ sent' = out' \o rest /\ out' = out
        /\ (buf' \o sock') \o q = Bytes(rest)
        /\ q = unwritten'
    BY <1>4, <2>1, <2>2, <2>3 DEF WriteSome, rvars
  <2> QED BY <1>3, <2>4 DEF InFlight
<1> QED BY <1>7, <1>8

\* A reset moves the end of the socket to what never comes.
LEMMA ResetExact == TypeOK /\ InFlight /\ Reset => TypeOK' /\ InFlight'
<1> SUFFICES ASSUME TypeOK, InFlight, Reset PROVE TypeOK' /\ InFlight'
  OBVIOUS
<1>1. PICK n \in 0..Len(sock) : sock' = SubSeq(sock, 1, n)
  BY DEF Reset
<1> DEFINE p == SubSeq(sock, 1, n)
           q == SubSeq(sock, n + 1, Len(sock))
<1>2. sock \in Seq(Byte) /\ buf \in Seq(Byte) /\ Len(sock) =< SockLen /\ Len(sock) \in Nat
  BY LenProperties DEF TypeOK
<1>3. p \in Seq(Byte) /\ q \in Seq(Byte) /\ Len(p) = n /\ sock = p \o q
  BY <1>2, CutInTwo
<1>4. sock' = p
  BY <1>1
<1>5. p \in Seq(Byte) /\ q \in Seq(Byte) /\ buf \in Seq(Byte) /\ sock \in Seq(Byte)
  BY <1>2, <1>3
<1> HIDE DEF p, q
<1>6. sock' \in Seq(Byte) /\ Len(sock') =< SockLen
  BY <1>2, <1>3, <1>4, SizesAssumption
<1>7. TypeOK'
  BY <1>6 DEF TypeOK, Reset, rvars, wvars
<1>8. InFlight'
  <2>1. PICK rest \in Seq(Messages), cut \in Seq(Byte) :
          /\ sent = out \o rest
          /\ (buf \o sock) \o cut = Bytes(rest)
    BY DEF InFlight
  <2>2. cut \in Seq(Byte)
    OBVIOUS
  <2> DEFINE z == q \o cut
  <2>3. z \in Seq(Byte) /\ z = q \o cut /\ sock = p \o q
    BY <1>3, ConcatProperties
  <2> HIDE DEF z
  <2>4. (buf \o sock) \o cut = (buf \o p) \o z
    <3>1. buf \o (p \o q) = (buf \o p) \o q
      BY ONLY <1>5, BytesAssoc
    <3> DEFINE y == buf \o p
    <3>2. y \in Seq(Byte)
      BY ONLY <1>5, ConcatProperties
    <3> HIDE DEF y
    <3>3. (y \o q) \o cut = y \o (q \o cut)
      BY ONLY <1>5, <2>2, <3>2, BytesAssoc
    <3> QED BY ONLY <2>3, <3>1, <3>3 DEF y
  <2>5. /\ sent' = out' \o rest /\ out' = out
        /\ (buf' \o sock') \o z = Bytes(rest)
        /\ reset'
    BY <1>3, <1>4, <2>1, <2>4 DEF Reset, rvars, wvars
  <2> QED BY <2>3, <2>5 DEF InFlight
<1> QED BY <1>7, <1>8

\* A read moves bytes from the socket to the buffer.
LEMMA ReadSomeExact == TypeOK /\ InFlight /\ ReadSome => TypeOK' /\ InFlight'
<1> SUFFICES ASSUME TypeOK, InFlight, ReadSome PROVE TypeOK' /\ InFlight'
  OBVIOUS
<1>1. PICK n \in 1..TempLen :
        /\ n =< Len(sock)
        /\ buf' = buf \o SubSeq(sock, 1, n)
        /\ sock' = SubSeq(sock, n + 1, Len(sock))
  BY DEF ReadSome
<1> DEFINE p == SubSeq(sock, 1, n)
           q == SubSeq(sock, n + 1, Len(sock))
<1>2. sock \in Seq(Byte) /\ buf \in Seq(Byte) /\ Len(sock) =< SockLen /\ Len(sock) \in Nat
  BY LenProperties DEF TypeOK
<1>3. p \in Seq(Byte) /\ q \in Seq(Byte) /\ Len(p) = n /\ sock = p \o q
  <2>1. n \in 0..Len(sock)
    BY <1>1, <1>2, SizesAssumption
  <2> QED BY <1>2, <2>1, CutInTwo
<1>4. buf' = buf \o p /\ sock' = q
  BY <1>1
<1>5. p \in Seq(Byte) /\ q \in Seq(Byte) /\ buf \in Seq(Byte) /\ sock \in Seq(Byte)
  BY <1>2, <1>3
<1> HIDE DEF p, q
<1>6. buf \o p \in Seq(Byte) /\ Len(q) =< SockLen
  <2>1. buf \o p \in Seq(Byte) /\ Len(p \o q) = Len(p) + Len(q) /\ Len(q) \in Nat
    BY <1>2, <1>3, ConcatProperties, LenProperties
  <2> QED BY <1>2, <1>3, <2>1, SizesAssumption
<1>7. TypeOK'
  BY <1>3, <1>4, <1>6 DEF TypeOK, ReadSome, wvars
<1>8. InFlight'
  <2>1. PICK rest \in Seq(Messages), cut \in Seq(Byte) :
          /\ sent = out \o rest
          /\ (buf \o sock) \o cut = Bytes(rest)
          /\ ~reset => cut = unwritten
    BY DEF InFlight
  <2>2. (buf \o p) \o q = buf \o (p \o q)
    BY ONLY <1>5, BytesAssoc
  <2>3. /\ sent' = out' \o rest /\ out' = out
        /\ (buf' \o sock') \o cut = Bytes(rest)
        /\ ~reset' => cut = unwritten'
    BY <1>3, <1>4, <2>1, <2>2 DEF ReadSome, wvars
  <2> QED BY <2>3 DEF InFlight
<1> QED BY <1>7, <1>8

\* parse_buffer takes the first message in flight.
LEMMA ParseOneExact == TypeOK /\ InFlight /\ ParseOne => TypeOK' /\ InFlight'
<1> SUFFICES ASSUME TypeOK, InFlight, ParseOne PROVE TypeOK' /\ InFlight'
  OBVIOUS
<1>1. PICK rest \in Seq(Messages), cut \in Seq(Byte) :
        /\ sent = out \o rest
        /\ (buf \o sock) \o cut = Bytes(rest)
        /\ ~reset => cut = unwritten
  BY DEF InFlight
<1> DEFINE tail == sock \o cut
<1>2. /\ buf \in Seq(Byte) /\ sock \in Seq(Byte) /\ tail \in Seq(Byte) /\ out \in Seq(Messages)
      /\ buf \o tail = Bytes(rest)
  <2>1. buf \in Seq(Byte) /\ sock \in Seq(Byte)
    BY DEF TypeOK
  <2>2. cut \in Seq(Byte)
    OBVIOUS
  <2>3. sock \o cut \in Seq(Byte)
    BY ONLY <2>1, <2>2, ConcatProperties
  <2>4. (buf \o sock) \o cut = buf \o (sock \o cut)
    BY ONLY <2>1, <2>2, ConcatAssociative
  <2> QED BY <1>1, <2>1, <2>3, <2>4 DEF InFlight
<1>3. Len(buf) >= HeaderLen /\ Len(buf) >= HeaderLen + HeaderAt(buf).len
  BY DEF ParseOne, HasWhole
<1> HIDE DEF tail
<1>4. PICK m \in Messages, more \in Seq(Messages) : rest = <<m>> \o more
  <2>1. rest # <<>>
    <3>1. SUFFICES ASSUME rest = <<>> PROVE FALSE
      OBVIOUS
    <3>2. buf = <<>>
      BY <1>2, <3>1, BytesNone, ConcatEqualIffEmpty
    <3> QED BY <1>3, <3>2, SizesAssumption DEF HeaderLen
  <2>2. Len(rest) \in Nat /\ Len(rest) >= 1
    BY <2>1, EmptySeq
  <2>3. 1 \in 0..Len(rest) /\ 1 \in 1..Len(rest)
    BY <2>2
  <2>4. SubSeq(rest, 1 + 1, Len(rest)) \in Seq(Messages) /\ rest = SubSeq(rest, 1, 1) \o SubSeq(rest, 1 + 1, Len(rest))
    BY <2>3, CutInTwo
  <2>5. SubSeq(rest, 1, 1) = <<rest[1]>>
    <3>1. SubSeq(rest, 1, 1) = SubSeq(rest, 1, 0) \o <<rest[1]>>
      BY <2>3, SubSeqRecursiveSecond
    <3>2. SubSeq(rest, 1, 0) = <<>> /\ <<rest[1]>> \in Seq(Messages)
      BY <2>3, SubSeqEmpty, ElementOfSeq
    <3> QED BY <3>1, <3>2, ConcatEmptySeq
  <2>6. rest[1] \in Messages
    BY <2>3, ElementOfSeq
  <2> QED BY <2>4, <2>5, <2>6
<1> DEFINE hd == HeaderOf(m)
           body == m.body
           after == Bytes(more)
           l == <<m>>
<1>5. /\ hd \in Seq(Byte) /\ Len(hd) = HeaderLen /\ body \in Seq(Byte) /\ after \in Seq(Byte)
      /\ l \in Seq(Messages) /\ Encode(m) = hd \o body /\ Bytes(l) = Encode(m)
      /\ HeaderLen \in Nat /\ HeaderLen > 0 /\ m = [ch |-> m.ch, body |-> body]
  BY EncodeIs, BytesConcat, BytesOne
<1>6. Bytes(rest) = Bytes(l) \o after
  BY <1>4, <1>5, BytesConcat
<1>7. \A e \in Seq(Byte) : buf = hd \o e => HeaderAt(buf).ch = m.ch /\ HeaderAt(buf).len = Len(body)
  BY HeaderRead
<1> HIDE DEF hd, body, after, l
<1> DEFINE hb == hd \o body
<1>8. /\ hd \in Seq(Byte) /\ body \in Seq(Byte) /\ after \in Seq(Byte)
      /\ buf \in Seq(Byte) /\ tail \in Seq(Byte) /\ out \in Seq(Messages) /\ l \in Seq(Messages)
  BY <1>2, <1>5
<1>9. hb \in Seq(Byte) /\ Len(hb) = HeaderLen + Len(body) /\ hb = hd \o body
  BY <1>5, ConcatProperties
<1>10. SameWhole(buf, tail, hb, after)
  BY <1>2, <1>5, <1>6 DEF SameWhole
<1> HIDE DEF hb
<1>11. /\ Len(hd) =< Len(buf) => Begins(Byte, buf, hd)
       /\ Len(hb) =< Len(buf) => Longer(Byte, buf, tail, hb, after)
  <2>1. hb = hd \o body
    BY <1>9
  <2> QED BY ONLY <1>8, <2>1, <1>10, RecutHeader
<1>12. HeaderAt(buf).ch = m.ch /\ HeaderAt(buf).len = Len(body)
  <2>1. Len(hd) =< Len(buf)
    BY <1>2, <1>3, <1>5, LenProperties
  <2>2. Begins(Byte, buf, hd)
    BY ONLY <1>11, <2>1
  <2>3. \E e \in Seq(Byte) : buf = hd \o e
    BY ONLY <2>2 DEF Begins
  <2> QED BY <1>7, <2>3
<1>13. PICK e2 \in Seq(Byte) : buf = hb \o e2 /\ after = e2 \o tail
  <2>1. Len(hb) =< Len(buf)
    BY <1>3, <1>12, <1>9
  <2>2. Longer(Byte, buf, tail, hb, after)
    BY ONLY <1>11, <2>1
  <2> QED BY ONLY <2>2 DEF Longer
<1>14. FirstOf(buf) = m
  <2>1. SubSeq((hd \o body) \o e2, Len(hd) + 1, Len(hd) + Len(body)) = body
    BY <1>8, PartOfSeq
  <2>2. SubSeq(buf, HeaderLen + 1, HeaderLen + Len(body)) = body
    BY <1>5, <1>13, <1>9, <2>1
  <2> QED BY <1>5, <1>12, <2>2 DEF FirstOf
<1>15. AfterFirst(buf) = e2
  <2> DEFINE z == <<>>
  <2>1. z \in Seq(Byte) /\ Len(buf) = Len(hb) + Len(e2) /\ (hb \o e2) \o z = buf
    <3>1. hb \o e2 \in Seq(Byte) /\ Len(hb \o e2) = Len(hb) + Len(e2)
      BY <1>9, ConcatProperties
    <3> QED BY <1>13, <3>1, EmptySeq, ConcatEmptySeq
  <2> HIDE DEF z
  <2>2. SubSeq((hb \o e2) \o z, Len(hb) + 1, Len(hb) + Len(e2)) = e2
    BY <1>9, <2>1, PartOfSeq
  <2> QED BY <1>12, <1>9, <2>1, <2>2 DEF AfterFirst
<1>16. out' = Append(out, m) /\ buf' = e2 /\ UNCHANGED <<wvars, sock, reset, event, reader, eof>>
  BY <1>14, <1>15 DEF ParseOne
<1>17. TypeOK'
  BY <1>16 DEF TypeOK, wvars
<1>18. InFlight'
  <2>1. out' \in Seq(Messages) /\ out' = out \o l
    BY <1>2, <1>16, AppendProperties, AppendIsConcat DEF l
  <2>2. sent' = out' \o more
    <3>1. (out \o l) \o more = out \o (l \o more)
      <4>1. out \in Seq(Messages) /\ l \in Seq(Messages) /\ more \in Seq(Messages)
        BY <1>2, <1>5
      <4> QED BY ONLY <4>1, MessagesAssoc
    <3> QED BY <1>1, <1>4, <1>16, <2>1, <3>1 DEF l, wvars
  <2>3. (buf' \o sock') \o cut = Bytes(more)
    <3>1. (e2 \o sock) \o cut = e2 \o (sock \o cut)
      <4>1. e2 \in Seq(Byte) /\ sock \in Seq(Byte) /\ cut \in Seq(Byte)
        BY <1>2
      <4> QED BY ONLY <4>1, BytesAssoc, SMTT(40)
    <3> QED BY <1>13, <1>16, <3>1 DEF tail, after
  <2>4. ~reset' => cut = unwritten'
    BY <1>1, <1>16 DEF wvars
  <2> QED BY <2>1, <2>2, <2>3, <2>4 DEF InFlight
<1> QED BY <1>17, <1>18

\* Every other step leaves the stream as it is.
LEMMA StepExact == TypeOK /\ InFlight /\ [Next]_vars => TypeOK' /\ InFlight'
<1> SUFFICES ASSUME TypeOK, InFlight, [Next]_vars,
                    ~NextMessage, ~WriteSome, ~Reset, ~ReadSome, ~ParseOne
             PROVE  TypeOK' /\ InFlight'
  BY NextMessageExact, WriteSomeExact, ResetExact, ReadSomeExact, ParseOneExact
<1>1. UNCHANGED <<toSend, sent, unwritten, sock, reset, buf, out>> /\ TypeOK'
  <2> USE DEF TypeOK, wvars, rvars
  <2>1. CASE WriteFails
    BY <2>1 DEF WriteFails
  <2>2. CASE ShutDown
    BY <2>2 DEF ShutDown
  <2>3. CASE PollReturns
    BY <2>3 DEF PollReturns
  <2>4. CASE ReadStops
    BY <2>4 DEF ReadStops, Ended
  <2>5. CASE ParseStops
    BY <2>5 DEF ParseStops
  <2>6. CASE UNCHANGED vars
    BY <2>6 DEF vars
  <2> QED
    BY <2>1, <2>2, <2>3, <2>4, <2>5, <2>6 DEF Next, Writer, Reader, Finished
<1> QED BY <1>1 DEF InFlight

\* The bytes of out are those that the buffer lacks.
LEMMA ExactFollows == TypeOK /\ InFlight => StreamExact
<1> SUFFICES ASSUME TypeOK, InFlight PROVE StreamExact
  OBVIOUS
<1>1. PICK rest \in Seq(Messages), cut \in Seq(Byte) :
        /\ sent = out \o rest
        /\ (buf \o sock) \o cut = Bytes(rest)
        /\ ~reset => cut = unwritten
  BY DEF InFlight
<1>2. out \in Seq(Messages) /\ buf \in Seq(Byte) /\ sock \in Seq(Byte)
  BY DEF InFlight, TypeOK
<1>3. IsPrefix(out, sent)
  <2> DEFINE n == Len(out)
             e == <<>>
  <2>1. n \in Nat /\ Len(rest) \in Nat /\ Len(sent) = n + Len(rest)
    BY <1>1, <1>2, LenProperties, ConcatProperties
  <2>2. e \in Seq(Messages) /\ Len(e) = 0 /\ e \o out = out
    BY <1>2, EmptySeq, ConcatEmptySeq
  <2> HIDE DEF e
  <2>3. SubSeq((e \o out) \o rest, Len(e) + 1, Len(e) + Len(out)) = out
    BY <1>2, <2>2, PartOfSeq
  <2>4. SubSeq(sent, 1, n) = out
    BY <1>1, <2>1, <2>2, <2>3
  <2>5. SubSeq(out, 1, n) = out
    BY <1>2, SubSeqFull
  <2> QED BY <2>1, <2>4, <2>5 DEF IsPrefix
<1>4. ASSUME ~reset PROVE ((Bytes(out) \o buf) \o sock) \o unwritten = Bytes(sent)
  <2> DEFINE b == Bytes(out)
  <2>1. b \in Seq(Byte) /\ Bytes(sent) = b \o Bytes(rest)
    BY <1>1, <1>2, BytesConcat
  <2> HIDE DEF b
  <2>2. b \o ((buf \o sock) \o cut) = (b \o (buf \o sock)) \o cut /\ b \o (buf \o sock) = (b \o buf) \o sock
    <3>0. b \in Seq(Byte) /\ buf \in Seq(Byte) /\ sock \in Seq(Byte)
      BY <1>2, <2>1
    <3>1. b \o (buf \o sock) = (b \o buf) \o sock
      BY ONLY <3>0, BytesAssoc
    <3>2. buf \o sock \in Seq(Byte)
      BY <1>2, ConcatProperties
    <3> DEFINE x == buf \o sock
    <3> HIDE DEF x
    <3>3. x \in Seq(Byte)
      BY <3>2 DEF x
    <3>4. (b \o x) \o cut = b \o (x \o cut)
      BY <2>1, <3>3, ConcatAssociative
    <3> QED BY <3>1, <3>4 DEF x
  <2> QED BY <1>1, <1>4, <2>1, <2>2 DEF b
<1> QED BY <1>3, <1>4 DEF StreamExact

\* parse_buffer passes on the messages that write_data was given, whole and in
\* order, for every message, socket, buffer and length of header, however the
\* reads and writes cut the stream; after a reset it passes on a prefix of them.
THEOREM StreamIsExact == Spec => []StreamExact
<1> QED BY InitExact, StepExact, ExactFollows, PTL DEF Spec

-----------------------------------------------------------------------------
(* Wakeups.                                                                *)

(***************************************************************************)
(* NoLostWakeup speaks of a reader that waits in poll.  What it finds there *)
(* was settled when the read loop ended: since then, either poll has        *)
(* something to report again, or nothing has come, and the end of the       *)
(* stream, had there been one, would be in eof and the reader not go back to*)
(* poll.  That holds while it parses.                                       *)
(***************************************************************************)
Settled == sock = <<>> /\ (Ended => eof)

IInv ==
  /\ NoLostWakeup
  /\ reader = "parse" /\ ~event => Settled

\* Whatever reaches the socket, and the end of the stream, makes an event.
LEMMA WriterTellsPoll ==
  ASSUME Writer \/ Reset
  PROVE  /\ event' = TRUE \/ (UNCHANGED <<sock, event>> /\ (Ended' => Ended))
         /\ UNCHANGED rvars
<1>1. CASE NextMessage
  BY <1>1 DEF NextMessage, Ended, rvars
<1>2. CASE WriteSome
  BY <1>2 DEF WriteSome, rvars
<1>3. CASE WriteFails
  BY <1>3 DEF WriteFails, Ended, rvars
<1>4. CASE ShutDown
  BY <1>4 DEF ShutDown, rvars
<1>5. CASE Reset
  BY <1>5 DEF Reset, rvars
<1> QED
  BY <1>1, <1>2, <1>3, <1>4, <1>5 DEF Writer

LEMMA InitSettled == Init => IInv
<1> SUFFICES ASSUME Init PROVE IInv
  OBVIOUS
<1>1. sock = <<>> /\ ~Ended /\ reader = "poll"
  BY DEF Init, Ended
<1>2. ~HasWhole(<<>>)
  BY SizesAssumption DEF HasWhole, HeaderLen
<1>3. ~HasWhole(buf)
  BY <1>2 DEF Init
<1> QED
  BY <1>1, <1>3 DEF IInv, NoLostWakeup, Settled

LEMMA StepSettled == IInv /\ [Next]_vars => IInv'
<1> SUFFICES ASSUME IInv, [Next]_vars PROVE IInv'
  OBVIOUS
<1> USE DEF IInv, NoLostWakeup, Settled
<1>1. CASE Writer \/ Reset
  <2>1. reader' = reader /\ eof' = eof /\ buf' = buf /\ HasWhole(buf)' = HasWhole(buf)
    BY <1>1, WriterTellsPoll DEF rvars, HasWhole, HeaderAt
  <2> QED
    BY <1>1, <2>1, WriterTellsPoll
<1>2. CASE PollReturns
  BY <1>2 DEF PollReturns
<1>3. CASE ReadSome
  BY <1>3 DEF ReadSome
<1>4. CASE ReadStops
  BY <1>4 DEF ReadStops, Ended, wvars
<1>5. CASE ParseOne
  BY <1>5 DEF ParseOne, Ended, wvars
<1>6. CASE ParseStops
  BY <1>6 DEF ParseStops, Ended, wvars, HasWhole, HeaderAt
<1>7. CASE UNCHANGED vars
  BY <1>7 DEF vars, wvars, rvars, Ended, HasWhole, HeaderAt
<1> QED
  BY <1>1, <1>2, <1>3, <1>4, <1>5, <1>6, <1>7 DEF Next, Reader, Finished

\* A reader that polls without a pending event leaves nothing in the socket
\* and no whole message in its buffer, and the stream has not ended: the loop
\* of recv_thread, which polls only for edges, reads to WouldBlock, parses all
\* it has and returns at the end of the stream.
THEOREM NoWakeupIsLost == Spec => []NoLostWakeup
<1>1. IInv => NoLostWakeup
  BY DEF IInv
<1> QED
  BY <1>1, InitSettled, StepSettled, PTL DEF Spec
=============================================================================
