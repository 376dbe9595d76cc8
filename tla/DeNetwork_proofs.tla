-------------------------- MODULE DeNetwork_proofs --------------------------
(***************************************************************************)
(* The threads, queues and sockets of the network implement the collective *)
(* calls, for any number of workers, channels and calls, under any crash.  *)
(* The argument: on each pipe, that is for each two connected parties and  *)
(* each channel id, what is ready at the receiver followed by what is in   *)
(* its buffer, in the socket, in the send thread's hands and in the send   *)
(* queue carries the data of exactly the calls that are due, those one     *)
(* side has made and the other has not; of a sender that died, a prefix.   *)
(* A message that moves forward leaves the flow as it is; a call that      *)
(* sends adds a last element to both sides of that equation, and one that  *)
(* receives takes the first of both, so it returns the datum of the same   *)
(* call of its peer.  Alone this is not inductive.  The life cycle of a    *)
(* party (Life) says that nothing follows a Shutdown in a send queue, so   *)
(* that closing the connections cuts nothing off; Settled says that the    *)
(* matcher holds no complete round, so that one pop per message hands each *)
(* round over; and Causality, of the collective calls, says which side of  *)
(* a call is first, so that a call that sends is never already past.       *)
(***************************************************************************)
EXTENDS DeNetwork, SequenceTheorems, FiniteSetTheorems, TLAPS

\* Every payload that is ready and every message of a flow is typed, so that
\* call numbers can be compared.
LEMMA CarriesSeqs ==
  ASSUME NEW r \in Seq(Payload), NEW f \in Seq(Message)
  PROVE  /\ DOMAIN r = 1..Len(r) /\ Len(r) \in Nat
         /\ DOMAIN f = 1..Len(f) /\ Len(f) \in Nat
         /\ \A i \in DOMAIN r : r[i] \in Payload /\ r[i].op \in Nat
         /\ \A j \in DOMAIN f : f[j].bytes \in Payload /\ f[j].bytes.op \in Nat /\ f[j].ch \in Channel
<1>1. /\ \A i \in DOMAIN r : r[i] \in Payload
      /\ \A j \in DOMAIN f : f[j] \in Message
  BY ElementOfSeq, LenProperties
<1> QED
  BY <1>1, LenProperties DEF Payload, Message

\* A call of the sending side (deNetwork/multi.rs: the send to the send thread's
\* channel) puts its datum behind everything that is on the way.
LEMMA CarriesSend ==
  ASSUME NEW r \in Seq(Payload), NEW f \in Seq(Message), NEW c \in Channel,
         NEW due, Carries(r, f, c, due, FALSE),
         NEW m \in Message, m.ch = c,
         NEW more, DOMAIN more = DOMAIN due \cup {m.bytes.op},
         \A k \in DOMAIN due : more[k] = due[k] /\ k < m.bytes.op,
         more[m.bytes.op] = m.bytes
  PROVE  Carries(r, Append(f, m), c, more, FALSE)
<1> DEFINE g == Append(f, m)
<1>1. /\ g \in Seq(Message) /\ Len(g) = Len(f) + 1 /\ DOMAIN g = 1..(Len(f) + 1)
      /\ \A j \in DOMAIN f : g[j] = f[j]
      /\ g[Len(f) + 1] = m
  BY AppendProperties, LenProperties
<1>2. DOMAIN f = 1..Len(f) /\ Len(f) \in Nat /\ DOMAIN r = 1..Len(r) /\ Len(r) \in Nat
  BY CarriesSeqs
<1>3. /\ \A i \in DOMAIN r : r[i] \in Payload /\ r[i].op \in Nat
      /\ \A j \in DOMAIN f : f[j].bytes \in Payload /\ f[j].bytes.op \in Nat
      /\ m.bytes.op \in Nat
  BY CarriesSeqs DEF Message, Payload
<1> HIDE DEF g
<1>4. \A j \in DOMAIN g : (j \in DOMAIN f /\ g[j] = f[j]) \/ (j = Len(f) + 1 /\ g[j] = m)
  BY <1>1, <1>2
<1>5. \A j \in DOMAIN f : j < Len(f) + 1
  BY <1>2
<1> QED
  BY <1>1, <1>2, <1>3, <1>4, <1>5 DEF Carries, g

\* A message of another channel id, and a call that sends nothing, leave a
\* pipe as it is.
LEMMA CarriesOther ==
  ASSUME NEW r \in Seq(Payload), NEW f \in Seq(Message), NEW c \in Channel,
         NEW due, NEW cut, Carries(r, f, c, due, cut),
         NEW m \in Message, m.ch # c
  PROVE  Carries(r, Append(f, m), c, due, cut)
<1> DEFINE g == Append(f, m)
<1>1. /\ g \in Seq(Message) /\ Len(g) = Len(f) + 1 /\ DOMAIN g = 1..(Len(f) + 1)
      /\ \A j \in DOMAIN f : g[j] = f[j]
      /\ g[Len(f) + 1] = m
  BY AppendProperties, LenProperties
<1>2. DOMAIN f = 1..Len(f) /\ Len(f) \in Nat
  BY CarriesSeqs
<1> HIDE DEF g
<1>4. \A j \in DOMAIN g : (j \in DOMAIN f /\ g[j] = f[j]) \/ (j = Len(f) + 1 /\ g[j] = m)
  BY <1>1, <1>2
<1> QED
  BY <1>1, <1>2, <1>4 DEF Carries, g

\* The receive thread takes the oldest message of a connection: it becomes the
\* newest payload that is ready on its channel.
LEMMA CarriesParse ==
  ASSUME NEW r \in Seq(Payload), NEW f \in Seq(Message), f # <<>>, NEW c \in Channel,
         NEW due, NEW cut, Carries(r, f, c, due, cut)
  PROVE  IF Head(f).ch = c THEN Carries(Append(r, Head(f).bytes), Tail(f), c, due, cut)
         ELSE Carries(r, Tail(f), c, due, cut)
<1> DEFINE t == Tail(f)  h == Head(f)  s == Append(r, h.bytes)
<1>1. /\ t \in Seq(Message) /\ Len(t) = Len(f) - 1 /\ \A j \in 1..Len(t) : t[j] = f[j + 1]
      /\ h \in Message /\ h = f[1] /\ DOMAIN t = 1..Len(t)
  BY HeadTailProperties, LenProperties
<1>2. h.bytes \in Payload
  BY <1>1 DEF Message
<1>3. /\ s \in Seq(Payload) /\ Len(s) = Len(r) + 1 /\ DOMAIN s = 1..(Len(r) + 1)
      /\ \A j \in 1..Len(r) : s[j] = r[j]
      /\ s[Len(r) + 1] = h.bytes
  BY <1>2, AppendProperties, LenProperties
<1>4. /\ DOMAIN r = 1..Len(r) /\ Len(r) \in Nat
      /\ DOMAIN f = 1..Len(f) /\ Len(f) \in Nat /\ Len(f) >= 1
      /\ \A i \in DOMAIN r : r[i].op \in Nat
      /\ \A j \in DOMAIN f : f[j].bytes.op \in Nat
  BY CarriesSeqs
<1> HIDE DEF t, h, s
<1>5. /\ \A j \in DOMAIN t : t[j] = f[j + 1] /\ j + 1 \in DOMAIN f /\ 1 < j + 1 /\ j \in Nat
      /\ \A j \in DOMAIN f : j = 1 \/ (j - 1 \in DOMAIN t /\ t[j - 1] = f[j])
      /\ 1 \in DOMAIN f
  BY <1>1, <1>4
<1>6. \A i \in DOMAIN s : (i \in DOMAIN r /\ s[i] = r[i] /\ i < Len(r) + 1) \/ (i = Len(r) + 1 /\ s[i] = f[1].bytes)
  BY <1>1, <1>3, <1>4
<1>7. \A i \in DOMAIN r : i \in DOMAIN s /\ s[i] = r[i]
  BY <1>3, <1>4
<1>8. CASE h.ch = c
  <2>1. s[Len(r) + 1].op = f[1].bytes.op /\ Len(r) + 1 \in DOMAIN s
    BY <1>1, <1>3, <1>4
  <2>2. \A i \in DOMAIN s : s[i].op \in DOMAIN due /\ s[i] = due[s[i].op]
    BY <1>1, <1>5, <1>6, <1>8 DEF Carries
  <2>3. \A j \in DOMAIN t : t[j].ch = c => t[j].bytes.op \in DOMAIN due /\ t[j].bytes = due[t[j].bytes.op]
    BY <1>5 DEF Carries
  <2>4. \A i, j \in DOMAIN s : i < j => s[i].op < s[j].op
    BY <1>1, <1>4, <1>5, <1>6, <1>8 DEF Carries
  <2>5. \A i, j \in DOMAIN t : i < j /\ t[i].ch = c /\ t[j].ch = c => t[i].bytes.op < t[j].bytes.op
    <3> SUFFICES ASSUME NEW i \in DOMAIN t, NEW j \in DOMAIN t, i < j, t[i].ch = c, t[j].ch = c
                 PROVE t[i].bytes.op < t[j].bytes.op
      OBVIOUS
    <3>1. i + 1 < j + 1 /\ i + 1 \in DOMAIN f /\ j + 1 \in DOMAIN f
      BY <1>5
    <3> QED BY <3>1, <1>5 DEF Carries
  <2>6. \A i \in DOMAIN s, j \in DOMAIN t : t[j].ch = c => s[i].op < t[j].bytes.op
    BY <1>1, <1>5, <1>6, <1>8 DEF Carries
  <2>7. ASSUME NEW k \in DOMAIN due
        PROVE  \/ \E i \in DOMAIN s : s[i].op = k
               \/ \E j \in DOMAIN t : t[j].ch = c /\ t[j].bytes.op = k
               \/ /\ cut
                  /\ \A i \in DOMAIN s : s[i].op < k
                  /\ \A j \in DOMAIN t : t[j].ch = c => t[j].bytes.op < k
    <3>1. CASE \E i \in DOMAIN r : r[i].op = k
      BY <3>1, <1>7
    <3>2. CASE \E j \in DOMAIN f : f[j].ch = c /\ f[j].bytes.op = k
      BY <3>2, <2>1, <1>5
    <3>3. CASE /\ cut
               /\ \A i \in DOMAIN r : r[i].op < k
               /\ \A j \in DOMAIN f : f[j].ch = c => f[j].bytes.op < k
      BY <3>3, <1>1, <1>5, <1>6, <1>8
    <3> QED BY <3>1, <3>2, <3>3 DEF Carries
  <2> QED BY <1>8, <2>2, <2>3, <2>4, <2>5, <2>6, <2>7 DEF Carries, t, h, s
<1>9. CASE h.ch # c
  <2>1. \A j \in DOMAIN f : f[j].ch = c => j - 1 \in DOMAIN t /\ t[j - 1] = f[j]
    BY <1>1, <1>5, <1>9
  <2>2. \A i, j \in DOMAIN t : i < j => i + 1 < j + 1
    BY <1>5
  <2>3. \A i, j \in DOMAIN t : i < j /\ t[i].ch = c /\ t[j].ch = c => t[i].bytes.op < t[j].bytes.op
    BY <1>5, <2>2 DEF Carries
  <2>4. ASSUME NEW k \in DOMAIN due
        PROVE  \/ \E i \in DOMAIN r : r[i].op = k
               \/ \E j \in DOMAIN t : t[j].ch = c /\ t[j].bytes.op = k
               \/ /\ cut
                  /\ \A i \in DOMAIN r : r[i].op < k
                  /\ \A j \in DOMAIN t : t[j].ch = c => t[j].bytes.op < k
    <3>1. CASE \E j \in DOMAIN f : f[j].ch = c /\ f[j].bytes.op = k
      BY <3>1, <2>1
    <3>2. CASE /\ cut
               /\ \A i \in DOMAIN r : r[i].op < k
               /\ \A j \in DOMAIN f : f[j].ch = c => f[j].bytes.op < k
      BY <3>2, <1>5
    <3> QED BY <3>1, <3>2 DEF Carries
  <2> QED BY <1>9, <1>5, <2>3, <2>4 DEF Carries, t, h, s
<1> QED BY <1>8, <1>9 DEF h

\* A call of the receiving side: the oldest payload that is ready is that of
\* the first call that is due.
LEMMA CarriesReceive ==
  ASSUME NEW r \in Seq(Payload), r # <<>>, NEW f \in Seq(Message), NEW c \in Channel,
         NEW due, NEW cut, Carries(r, f, c, due, cut), DOMAIN due \subseteq Nat,
         NEW k \in DOMAIN due, \A j \in DOMAIN due : k =< j,
         NEW less, DOMAIN less = DOMAIN due \ {k}, \A j \in DOMAIN less : less[j] = due[j]
  PROVE  Head(r) = due[k] /\ Carries(Tail(r), f, c, less, cut)
<1> DEFINE t == Tail(r)
<1>1. /\ t \in Seq(Payload) /\ Len(t) = Len(r) - 1 /\ \A i \in 1..Len(t) : t[i] = r[i + 1]
      /\ Head(r) = r[1] /\ DOMAIN t = 1..Len(t)
  BY HeadTailProperties, LenProperties
<1>2. /\ DOMAIN r = 1..Len(r) /\ Len(r) \in Nat /\ Len(r) >= 1
      /\ \A i \in DOMAIN r : r[i].op \in Nat
      /\ \A j \in DOMAIN f : f[j].bytes.op \in Nat
  BY CarriesSeqs
<1> HIDE DEF t
<1>3. /\ \A i \in DOMAIN t : t[i] = r[i + 1] /\ i + 1 \in DOMAIN r /\ 1 < i + 1 /\ i \in Nat
      /\ \A i \in DOMAIN r : i = 1 \/ (1 < i /\ i - 1 \in DOMAIN t /\ t[i - 1] = r[i])
      /\ 1 \in DOMAIN r
  BY <1>1, <1>2
<1>4. r[1].op \in DOMAIN due /\ k =< r[1].op
  BY <1>3 DEF Carries
<1>5. r[1].op = k
  <2>1. ASSUME NEW i \in DOMAIN r, r[i].op = k PROVE r[1].op = k
    BY <1>2, <1>3, <1>4, <2>1 DEF Carries
  <2>2. ASSUME NEW j \in DOMAIN f, f[j].ch = c, f[j].bytes.op = k PROVE FALSE
    <3>1. r[1].op < k
      BY <2>2, <1>3 DEF Carries
    <3> QED BY <1>2, <1>3, <1>4, <3>1
  <2>3. ~(\A i \in DOMAIN r : r[i].op < k)
    BY <1>2, <1>3, <1>4
  <2> QED BY <2>1, <2>2, <2>3 DEF Carries
<1>6. r[1] = due[k]
  BY <1>3, <1>5 DEF Carries
<1>7. /\ \A i \in DOMAIN t : t[i].op \in DOMAIN due \ {k} /\ t[i] = due[t[i].op]
      /\ \A j \in DOMAIN f : f[j].ch = c =>
           f[j].bytes.op \in DOMAIN due \ {k} /\ f[j].bytes = due[f[j].bytes.op]
  <2>1. \A i \in DOMAIN t : k < t[i].op
    BY <1>3, <1>5 DEF Carries
  <2>2. \A j \in DOMAIN f : f[j].ch = c => k < f[j].bytes.op
    BY <1>3, <1>5 DEF Carries
  <2>3. k \in Nat
    OBVIOUS
  <2> QED BY <1>3, <2>1, <2>2, <2>3 DEF Carries
<1>8. \A i, j \in DOMAIN t : i < j => t[i].op < t[j].op
  <2> SUFFICES ASSUME NEW i \in DOMAIN t, NEW j \in DOMAIN t, i < j PROVE t[i].op < t[j].op
    OBVIOUS
  <2>1. i + 1 < j + 1
    BY <1>3
  <2> QED BY <2>1, <1>3 DEF Carries
<1>9. ASSUME NEW x \in DOMAIN less
      PROVE  \/ \E i \in DOMAIN t : t[i].op = x
             \/ \E j \in DOMAIN f : f[j].ch = c /\ f[j].bytes.op = x
             \/ /\ cut
                /\ \A i \in DOMAIN t : t[i].op < x
                /\ \A j \in DOMAIN f : f[j].ch = c => f[j].bytes.op < x
  <2>1. x \in DOMAIN due /\ x # k
    OBVIOUS
  <2>2. CASE \E i \in DOMAIN r : r[i].op = x
    BY <2>1, <2>2, <1>3, <1>5
  <2>3. CASE /\ cut
             /\ \A i \in DOMAIN r : r[i].op < x
             /\ \A j \in DOMAIN f : f[j].ch = c => f[j].bytes.op < x
    BY <2>3, <1>3
  <2> QED BY <2>1, <2>2, <2>3 DEF Carries
<1>10. Carries(t, f, c, less, cut)
  BY <1>3, <1>7, <1>8, <1>9 DEF Carries
<1> QED BY <1>1, <1>6, <1>10 DEF t

\* The death of the sending side: what it had sent last is lost.
LEMMA CarriesCut ==
  ASSUME NEW r \in Seq(Payload), NEW f \in Seq(Message), NEW g \in Seq(Message),
         Len(g) =< Len(f), \A j \in 1..Len(g) : g[j] = f[j],
         NEW c \in Channel, NEW due, NEW cut \in BOOLEAN, Carries(r, f, c, due, cut)
  PROVE  Carries(r, g, c, due, TRUE)
<1>1. /\ DOMAIN g = 1..Len(g) /\ Len(g) \in Nat /\ DOMAIN f = 1..Len(f) /\ Len(f) \in Nat
      /\ \A j \in DOMAIN g : g[j] = f[j] /\ j \in DOMAIN f
      /\ \A j \in DOMAIN f : j \notin DOMAIN g => \A i \in DOMAIN g : i < j
  BY LenProperties
<1>2. ASSUME NEW k \in DOMAIN due
      PROVE  \/ \E i \in DOMAIN r : r[i].op = k
             \/ \E j \in DOMAIN g : g[j].ch = c /\ g[j].bytes.op = k
             \/ /\ \A i \in DOMAIN r : r[i].op < k
                /\ \A j \in DOMAIN g : g[j].ch = c => g[j].bytes.op < k
  <2>1. ASSUME NEW j \in DOMAIN f, f[j].ch = c, f[j].bytes.op = k, j \notin DOMAIN g
        PROVE  /\ \A i \in DOMAIN r : r[i].op < k
               /\ \A i \in DOMAIN g : g[i].ch = c => g[i].bytes.op < k
    BY <1>1, <2>1 DEF Carries
  <2>2. CASE \E j \in DOMAIN f : f[j].ch = c /\ f[j].bytes.op = k
    BY <1>1, <2>1, <2>2
  <2> QED BY <1>1, <2>2 DEF Carries
<1>3. \A i, j \in DOMAIN g : i < j /\ g[i].ch = c /\ g[j].ch = c => g[i].bytes.op < g[j].bytes.op
  BY <1>1 DEF Carries
<1> QED BY <1>1, <1>2, <1>3 DEF Carries

-----------------------------------------------------------------------------
(* Sequences that are moved from one buffer to the next.                   *)
\* Taking the head of the buffer that is emptied first takes the head of the whole flow.
LEMMA HeadOfConcat ==
  ASSUME NEW S, NEW s \in Seq(S), NEW t \in Seq(S), s # <<>>
  PROVE  Head(s \o t) = Head(s) /\ Tail(s \o t) = Tail(s) \o t /\ s \o t # <<>>
<1>1. /\ Len(s) \in Nat /\ Len(t) \in Nat /\ Len(s) >= 1
      /\ s \o t \in Seq(S) /\ Len(s \o t) = Len(s) + Len(t)
      /\ \A i \in 1..(Len(s) + Len(t)) : (s \o t)[i] = IF i =< Len(s) THEN s[i] ELSE t[i - Len(s)]
  BY ConcatProperties, EmptySeq, LenProperties
<1>2. s \o t # <<>>
  BY <1>1, EmptySeq
<1>3. /\ Tail(s) \in Seq(S) /\ Len(Tail(s)) = Len(s) - 1
      /\ \A i \in 1..Len(Tail(s)) : Tail(s)[i] = s[i + 1]
      /\ Tail(s \o t) \in Seq(S) /\ Len(Tail(s \o t)) = Len(s \o t) - 1
      /\ \A i \in 1..Len(Tail(s \o t)) : Tail(s \o t)[i] = (s \o t)[i + 1]
  BY <1>1, <1>2, HeadTailProperties
<1>4. /\ Tail(s) \o t \in Seq(S) /\ Len(Tail(s) \o t) = Len(s) - 1 + Len(t)
      /\ \A i \in 1..(Len(s) - 1 + Len(t)) :
           (Tail(s) \o t)[i] = IF i =< Len(s) - 1 THEN Tail(s)[i] ELSE t[i - (Len(s) - 1)]
  BY <1>3, ConcatProperties
<1>5. ASSUME NEW i \in 1..Len(Tail(s \o t))
      PROVE  Tail(s \o t)[i] = (Tail(s) \o t)[i]
  <2>1. Tail(s \o t)[i] = (s \o t)[i + 1] /\ i + 1 \in 1..(Len(s) + Len(t))
    BY <1>1, <1>3
  <2>2. CASE i =< Len(s) - 1
    BY <1>1, <1>3, <1>4, <2>1, <2>2
  <2>3. CASE ~(i =< Len(s) - 1)
    BY <1>1, <1>3, <1>4, <2>1, <2>3
  <2> QED BY <2>2, <2>3
<1>6. Tail(s \o t) = Tail(s) \o t
  BY <1>1, <1>3, <1>4, <1>5, SeqEqual
<1>7. Head(s \o t) = Head(s)
  BY <1>1, <1>2
<1> QED BY <1>2, <1>6, <1>7

\* What is put at the end of the last buffer is at the end of the whole flow.
LEMMA ConcatAppend ==
  ASSUME NEW S, NEW s \in Seq(S), NEW t \in Seq(S), NEW e \in S
  PROVE  s \o Append(t, e) = Append(s \o t, e)
<1>1. <<e>> \in Seq(S) /\ s \o t \in Seq(S)
  BY ConcatProperties
<1>2. Append(t, e) = t \o <<e>> /\ Append(s \o t, e) = (s \o t) \o <<e>>
  BY <1>1, AppendIsConcat
<1> QED BY <1>1, <1>2, ConcatAssociative

\* A head that moves to the buffer in front leaves the whole flow as it is.
LEMMA HeadThenTail ==
  ASSUME NEW S, NEW s \in Seq(S), s # <<>>
  PROVE  <<Head(s)>> \o Tail(s) = s
<1> DEFINE h == <<Head(s)>>
<1>1. /\ Head(s) \in S /\ Tail(s) \in Seq(S) /\ Len(Tail(s)) = Len(s) - 1
      /\ \A i \in 1..Len(Tail(s)) : Tail(s)[i] = s[i + 1]
      /\ Len(s) \in Nat /\ Len(s) >= 1 /\ Head(s) = s[1]
  BY HeadTailProperties, EmptySeq, LenProperties
<1>2. h \in Seq(S) /\ Len(h) = 1 /\ h[1] = s[1]
  BY <1>1
<1> HIDE DEF h
<1>3. /\ h \o Tail(s) \in Seq(S) /\ Len(h \o Tail(s)) = Len(s)
      /\ \A i \in 1..Len(s) : (h \o Tail(s))[i] = IF i =< 1 THEN h[i] ELSE Tail(s)[i - 1]
  BY <1>1, <1>2, ConcatProperties, SMTT(40)
<1>4. \A i \in 1..Len(s) : (h \o Tail(s))[i] = s[i]
  BY <1>1, <1>2, <1>3
<1> QED BY <1>3, <1>4, SeqEqual DEF h

-----------------------------------------------------------------------------
(* The send queue: a Shutdown is its last entry.                           *)
Entries    == [ch : Channel, data : Datum]
Ends(s)    == \A i \in DOMAIN s : s[i].data.kind = "Shutdown" => i = Len(s)

\* What the send thread writes for an entry other than Shutdown is a message.
LEMMA EntryCarries ==
  ASSUME NEW e \in Entries, e.data.kind # "Shutdown", NEW q \in Party
  PROVE  MessageTo(e, q) \in Message
BY DEF Entries, Datum, MessageTo, Message, Shutdown

\* What a send queue holds for a peer is a sequence of messages.
LEMMA MessagesToType ==
  ASSUME NEW s \in Seq(Entries), Ends(s), NEW q \in Party
  PROVE  MessagesTo(s, q) \in Seq(Message)
<1> DEFINE n == Len(s)
           m == IF n > 0 /\ s[n].data.kind = "Shutdown" THEN n - 1 ELSE n
<1>1. n \in Nat /\ DOMAIN s = 1..n /\ \A i \in 1..n : s[i] \in Entries
  BY LenProperties, ElementOfSeq
<1>2. m \in Nat /\ m =< n /\ \A i \in 1..m : s[i].data.kind # "Shutdown" /\ i \in 1..n
  BY <1>1 DEF Ends
<1> HIDE DEF m, n
<1>3. \A i \in 1..m : MessageTo(s[i], q) \in Message
  BY <1>1, <1>2, EntryCarries
<1>4. [i \in 1..m |-> MessageTo(s[i], q)] \in [1..m -> Message]
  BY <1>3
<1> QED BY <1>2, <1>4, SeqDef DEF MessagesTo, m, n

\* Enqueue of a call.
LEMMA MessagesToAppend ==
  ASSUME NEW s \in Seq(Entries), \A i \in DOMAIN s : s[i].data.kind # "Shutdown",
         NEW e \in Entries, NEW q \in Party
  PROVE  IF e.data.kind = "Shutdown" THEN MessagesTo(Append(s, e), q) = MessagesTo(s, q)
         ELSE MessagesTo(Append(s, e), q) = Append(MessagesTo(s, q), MessageTo(e, q))
<1> DEFINE t == Append(s, e)  n == Len(s)
<1>1. /\ n \in Nat /\ DOMAIN s = 1..n /\ t \in Seq(Entries) /\ Len(t) = n + 1
      /\ \A i \in 1..n : t[i] = s[i]
      /\ t[n + 1] = e
  BY LenProperties, AppendProperties
<1> HIDE DEF t, n
<1>2. MessagesTo(s, q) = [i \in 1..n |-> MessageTo(s[i], q)]
  <2>1. (IF n > 0 /\ s[n].data.kind = "Shutdown" THEN n - 1 ELSE n) = n
    BY <1>1
  <2> QED BY <2>1 DEF MessagesTo, n
<1>3. CASE e.data.kind = "Shutdown"
  <2>1. MessagesTo(t, q) = [i \in 1..n |-> MessageTo(t[i], q)]
    BY <1>1, <1>3 DEF MessagesTo
  <2> QED BY <1>1, <1>2, <1>3, <2>1 DEF t
<1>4. CASE e.data.kind # "Shutdown"
  <2>1. MessagesTo(t, q) = [i \in 1..(n + 1) |-> MessageTo(t[i], q)]
    BY <1>1, <1>4 DEF MessagesTo
  <2>2. /\ MessagesTo(s, q) \in Seq(Message) /\ MessageTo(e, q) \in Message
        /\ MessagesTo(t, q) \in Seq(Message)
    <3>1. Ends(s) /\ Ends(t)
      BY <1>1, LenProperties DEF Ends
    <3> QED BY <3>1, <1>1, <1>4, MessagesToType, EntryCarries
  <2>3. Len(MessagesTo(s, q)) = n /\ Len(MessagesTo(t, q)) = n + 1
    BY <1>1, <1>2, <2>1, <2>2
  <2> DEFINE a == Append(MessagesTo(s, q), MessageTo(e, q))
  <2>4. /\ a \in Seq(Message) /\ Len(a) = n + 1
        /\ \A i \in 1..n : a[i] = MessageTo(s[i], q)
        /\ a[n + 1] = MessageTo(e, q)
    <3>1. \A i \in 1..n : MessagesTo(s, q)[i] = MessageTo(s[i], q)
      BY <1>2
    <3>2. /\ a \in Seq(Message) /\ Len(a) = Len(MessagesTo(s, q)) + 1
          /\ \A i \in 1..Len(MessagesTo(s, q)) : a[i] = MessagesTo(s, q)[i]
          /\ a[Len(MessagesTo(s, q)) + 1] = MessageTo(e, q)
      BY <2>2, AppendProperties
    <3> HIDE DEF a
    <3> QED BY <2>3, <3>1, <3>2
  <2> HIDE DEF a
  <2>5. \A i \in 1..(n + 1) : MessagesTo(t, q)[i] = a[i]
    BY <1>1, <2>1, <2>4
  <2>6. MessagesTo(t, q) = a
    BY <2>2, <2>3, <2>4, <2>5, SeqEqual
  <2> QED BY <1>4, <2>6 DEF a, t
<1> QED BY <1>3, <1>4

\* TakeEntry and TakeShutdown.
LEMMA MessagesToTail ==
  ASSUME NEW s \in Seq(Entries), s # <<>>, Ends(s), NEW q \in Party
  PROVE  /\ Ends(Tail(s))
         /\ IF Head(s).data.kind = "Shutdown"
            THEN Tail(s) = <<>> /\ MessagesTo(s, q) = <<>> /\ MessagesTo(Tail(s), q) = <<>>
            ELSE MessagesTo(s, q) = <<MessageTo(Head(s), q)>> \o MessagesTo(Tail(s), q)
<1> DEFINE t == Tail(s)  n == Len(s)
<1>1. /\ n \in Nat /\ n >= 1 /\ DOMAIN s = 1..n /\ t \in Seq(Entries) /\ Len(t) = n - 1
      /\ \A i \in 1..(n - 1) : t[i] = s[i + 1]
      /\ Head(s) = s[1] /\ DOMAIN t = 1..(n - 1) /\ s[1] \in Entries
  BY LenProperties, HeadTailProperties, EmptySeq
<1> HIDE DEF t, n
<1>2. Ends(t)
  <2> SUFFICES ASSUME NEW i \in DOMAIN t, t[i].data.kind = "Shutdown" PROVE i = Len(t)
    BY DEF Ends
  <2>1. i + 1 \in DOMAIN s /\ s[i + 1].data.kind = "Shutdown"
    BY <1>1
  <2> QED BY <1>1, <2>1 DEF Ends, n
<1>3. CASE s[1].data.kind = "Shutdown"
  <2>1. n = 1
    BY <1>1, <1>3 DEF Ends, n
  <2>2. t = <<>>
    BY <1>1, <2>1, EmptySeq
  <2>3. MessagesTo(s, q) \in Seq(Message) /\ MessagesTo(t, q) \in Seq(Message)
    BY <1>1, <1>2, MessagesToType
  <2>4. MessagesTo(s, q) = [i \in 1..0 |-> MessageTo(s[i], q)]
    BY <1>3, <2>1 DEF MessagesTo, n
  <2>5. MessagesTo(t, q) = [i \in 1..0 |-> MessageTo(t[i], q)]
    BY <1>1, <2>1 DEF MessagesTo
  <2>6. Len(MessagesTo(s, q)) = 0 /\ Len(MessagesTo(t, q)) = 0
    BY <2>3, <2>4, <2>5, LenProperties
  <2> QED BY <1>1, <1>2, <1>3, <2>2, <2>3, <2>6, EmptySeq DEF t
<1>4. CASE s[1].data.kind # "Shutdown"
  <2> DEFINE k == IF n > 0 /\ s[n].data.kind = "Shutdown" THEN n - 1 ELSE n
             a == MessagesTo(s, q)  b == MessagesTo(t, q)
  <2>1. k \in Nat /\ k >= 1 /\ k =< n /\ a = [i \in 1..k |-> MessageTo(s[i], q)]
    BY <1>1, <1>4 DEF MessagesTo, n
  <2>2. b = [i \in 1..(k - 1) |-> MessageTo(t[i], q)]
    <3>1. CASE n = 1
      <4>1. k = 1 /\ Len(t) = 0
        BY <1>1, <1>4, <3>1
      <4> QED BY <4>1 DEF MessagesTo
    <3>2. CASE n > 1
      <4>1. t[n - 1] = s[n] /\ Len(t) = n - 1 /\ n - 1 > 0
        BY <1>1, <3>2
      <4>2. (IF Len(t) > 0 /\ t[Len(t)].data.kind = "Shutdown" THEN Len(t) - 1 ELSE Len(t)) = k - 1
        BY <1>1, <3>2, <4>1
      <4> HIDE DEF k
      <4> QED BY <4>2 DEF MessagesTo
    <3> QED BY <1>1, <3>1, <3>2
  <2>3. a \in Seq(Message) /\ b \in Seq(Message) /\ MessageTo(s[1], q) \in Message
    BY <1>1, <1>2, <1>4, MessagesToType, EntryCarries
  <2> HIDE DEF k, a, b
  <2>4. Len(a) = k /\ Len(b) = k - 1
    BY <2>1, <2>2, <2>3, LenProperties
  <2>5. a # <<>> /\ Head(a) = MessageTo(s[1], q)
    BY <2>1, <2>3, <2>4, EmptySeq
  <2>6. /\ Tail(a) \in Seq(Message) /\ Len(Tail(a)) = k - 1
        /\ \A i \in 1..(k - 1) : Tail(a)[i] = a[i + 1]
    BY <2>3, <2>4, <2>5, HeadTailProperties
  <2>7. \A i \in 1..(k - 1) : Tail(a)[i] = b[i]
    BY <1>1, <2>1, <2>2, <2>6
  <2>8. Tail(a) = b
    BY <2>3, <2>4, <2>6, <2>7, SeqEqual
  <2> QED BY <1>1, <1>2, <1>4, <2>3, <2>5, <2>8, HeadThenTail DEF a, b, t
<1> QED BY <1>3, <1>4

-----------------------------------------------------------------------------
(* The matcher.                                                            *)
G == INSTANCE GatherMatcher_proofs WITH
       Data <- Payload, queue <- [c \in Channel |-> match[c].queue],
       ready <- [c \in Channel |-> match[c].ready],
       sent <- <<>>, rounds <- <<>>

Settled(m) ==
  LET some == {w \in Worker : m.queue[w] # <<>>} IN
  m.ready = Cardinality(some) /\ some # Worker

\* The modules behind the matcher define finite sets alike.
LEMMA SameFinite ==
  ASSUME NEW S
  PROVE  IsFiniteSet(S) = G!IsFiniteSet(S) /\ IsFiniteSet(S) = M!IsFiniteSet(S)
  BY DEF IsFiniteSet, G!IsFiniteSet, M!IsFiniteSet

\* The modules behind the matcher count alike.
LEMMA SameCardinality ==
  ASSUME NEW S
  PROVE  Cardinality(S) = G!Cardinality(S) /\ Cardinality(S) = M!Cardinality(S)
  BY SameFinite DEF Cardinality, G!Cardinality, M!Cardinality

\* The workers of a network are workers the matcher is correct for.
LEMMA MatcherAssumption == G!WorkerAssumption
BY PartyAssumption, SameFinite DEF G!WorkerAssumption

\* A message goes to the end of its worker's queue; if that completes a round,
\* the head of every queue goes into the round.
Pushed(m, v, w, d) == IF v = w THEN Append(m.queue[v], d) ELSE m.queue[v]

\* The closure of the master's receive thread, for any message of any worker:
\* nothing is lost, and a round that goes out holds the oldest message of each worker.
LEMMA AcceptSettles ==
  ASSUME NEW m \in Matcher, Settled(m), NEW w \in Worker, NEW d \in Payload
  PROVE  LET r == M!Accept(m, w, d) IN
         /\ r.state \in Matcher /\ Settled(r.state)
         /\ \/ /\ r.out = <<>>
               /\ \A v \in Worker : r.state.queue[v] = Pushed(m, v, w, d)
            \/ \E h \in [Worker -> Payload] :
                 /\ r.out = <<h>>
                 /\ \A v \in Worker :
                      LET s == Pushed(m, v, w, d) IN
                      s # <<>> /\ h[v] = Head(s) /\ r.state.queue[v] = Tail(s)
<1> DEFINE p == G!Pushed(m, w, d)
           r == M!Accept(m, w, d)
<1>1. m \in G!States /\ G!Settled(m) /\ Matcher = G!States
  <2>1. G!HasMessage(m.queue) = {v \in Worker : m.queue[v] # <<>>}
    BY DEF G!HasMessage
  <2> QED BY <2>1, SameCardinality DEF Matcher, G!States, G!Settled, Settled
<1>2. M!Pushed(m, w, d) = p
  BY DEF M!Pushed, G!Pushed
<1>3. /\ p \in G!States
      /\ p.ready = G!Cardinality(G!HasMessage(p.queue))
      /\ G!Complete(p) <=> G!HasMessage(p.queue) = Worker
  BY <1>1, MatcherAssumption, G!PushCounts, G!PushCompletes
<1>4. G!Complete(p) =>
        G!Popped(p) \in G!States /\ G!Settled(G!Popped(p)) /\ G!Heads(p) \in [Worker -> Payload]
  BY <1>1, MatcherAssumption, G!PopSettles
<1>5. \A v \in Worker : p.queue[v] = Pushed(m, v, w, d)
  BY <1>1 DEF G!Pushed, Pushed, G!States
<1> HIDE DEF p
<1>6. /\ M!Complete(p) <=> G!Complete(p)
      /\ M!Popped(p) = G!Popped(p) /\ M!Heads(p) = G!Heads(p)
  <2>1. \A S : M!Cardinality(S) = G!Cardinality(S)
    BY SameCardinality
  <2> QED BY <2>1 DEF M!Complete, G!Complete, M!Popped, G!Popped, M!Heads, G!Heads
<1>7. \A x : G!Settled(x) => Settled(x)
  BY SameCardinality DEF G!Settled, Settled, G!HasMessage
<1>8. CASE ~G!Complete(p)
  <2>1. r.state = p /\ r.out = <<>>
    BY <1>2, <1>6, <1>8 DEF M!Accept
  <2>2. G!Settled(p)
    BY <1>3, <1>8 DEF G!Settled
  <2> HIDE DEF r
  <2> QED BY <1>1, <1>3, <1>5, <1>7, <2>1, <2>2 DEF r
<1>9. CASE G!Complete(p)
  <2>1. r.state = G!Popped(p) /\ r.out = <<G!Heads(p)>>
    BY <1>2, <1>6, <1>9 DEF M!Accept
  <2>2. \A v \in Worker : p.queue[v] # <<>>
    BY <1>3, <1>9 DEF G!HasMessage
  <2>3. \A v \in Worker : G!Heads(p)[v] = Head(p.queue[v]) /\ G!Popped(p).queue[v] = Tail(p.queue[v])
    BY DEF G!Heads, G!Popped
  <2> HIDE DEF r
  <2> QED BY <1>1, <1>4, <1>5, <1>7, <1>9, <2>1, <2>2, <2>3 DEF r
<1> QED BY <1>8, <1>9

-----------------------------------------------------------------------------
(* The invariant.                                                          *)
CP == INSTANCE Collective_proofs

\* What a party's state says of the rest of it.
LifeOf(p) ==
  /\ proc[p] \in {"joining", "exited"} => Finished(p)
  /\ proc[p] = "exited" => shut[p]
  /\ shut[p] => proc[p] # "up" /\ sendq[p] = <<>> /\ writing[p] = NoFun
  /\ Ends(sendq[p])
  /\ proc[p] = "up" => \A i \in DOMAIN sendq[p] : sendq[p][i].data.kind # "Shutdown"
  /\ from[p] = NoData => inbuf[p] = <<>>

Life == \A p \in Party : LifeOf(p)

IInv ==
  /\ PipelineExact
  /\ Life
  /\ \A c \in Channel : Settled(match[c])
  /\ CP!IInv

\* A channel's calls are calls of the DeNet trait.
LEMMA ProgramsAreCalls == Programs \subseteq Seq(Op)
<1>1. ConnectRound \in Seq(Op)
  BY DEF ConnectRound, Op
<1>2. \A b \in Bodies : b \in Seq(Op) /\ ConnectRound \o b \in Seq(Op)
  BY <1>1, BodiesAssumption, ConcatProperties
<1> QED BY <1>2 DEF Programs

\* The network's constants satisfy what the proofs of the collective calls assume.
LEMMA CollectiveAssumptions == CP!PartyAssumption /\ CP!ProgramAssumption
BY PartyAssumption, ProgramsAreCalls DEF CP!PartyAssumption, CP!ProgramAssumption, CP!Op, Op

\* The star: the workers talk to the master only, and both ends name each other.
LEMMA PartyFacts ==
  /\ Master \in Party /\ Worker \subseteq Party /\ NoData \notin Party
  /\ \A w \in Worker : w # Master /\ Peers(w) = {Master}
  /\ Peers(Master) = Worker
  /\ \A p \in Party : Peers(p) \subseteq Party /\ p \notin Peers(p)
  /\ \A p \in Party : \A q \in Peers(p) : p \in Peers(q)
  /\ \A p \in Party : p = Master \/ p \in Worker
BY PartyAssumption DEF Party, Peers

\* The types of what a party has for a peer.
LEMMA PipeTypes ==
  ASSUME TypeOK, Life, NEW p \in Party, NEW q \in Peers(p)
  PROVE  /\ Unparsed(p, q) \in Seq(Message) /\ sock[p][q] \in Seq(Message)
         /\ InWriting(p, q) \in Seq(Message) /\ MessagesTo(sendq[p], q) \in Seq(Message)
         /\ Unparsed(p, q) \o sock[p][q] \in Seq(Message)
         /\ InWriting(p, q) \o MessagesTo(sendq[p], q) \in Seq(Message)
         /\ Flow(p, q) \in Seq(Message)
         /\ \A c \in Channel : Ready(p, q, c) \in Seq(Payload)
<1>1. q \in Party
  BY PartyFacts
<1>2. Unparsed(p, q) \in Seq(Message)
  BY <1>1 DEF TypeOK, Unparsed
<1>3. sock[p][q] \in Seq(Message)
  BY <1>1 DEF TypeOK
<1>4. InWriting(p, q) \in Seq(Message)
  BY DEF TypeOK, InWriting
<1>5. MessagesTo(sendq[p], q) \in Seq(Message)
  BY <1>1, MessagesToType DEF TypeOK, Life, LifeOf, Entries
<1>6. ASSUME NEW c \in Channel PROVE Ready(p, q, c) \in Seq(Payload)
  <2>1. CASE q = Master
    <3>1. p \in Worker
      BY <2>1, PartyFacts
    <3> DEFINE s == recvq[Master][c]
               t == [i \in DOMAIN s |-> s[i][p]]
    <3>2. s \in Seq(Round)
      BY DEF TypeOK
    <3>3. Len(s) \in Nat /\ DOMAIN s = 1..Len(s) /\ \A i \in DOMAIN s : s[i][p] \in Payload
      BY <3>1, <3>2, LenProperties, ElementOfSeq DEF Round
    <3> HIDE DEF s
    <3>4. t \in [1..Len(s) -> Payload]
      BY <3>3
    <3>5. t \in Seq(Payload)
      BY <3>3, <3>4, SeqDef
    <3>6. match[c].queue[p] \in Seq(Payload)
      BY <3>1 DEF TypeOK, Matcher
    <3> HIDE DEF t
    <3>7. t \o match[c].queue[p] \in Seq(Payload)
      BY <3>5, <3>6, ConcatProperties
    <3> QED BY <2>1, <3>7 DEF Ready, s, t
  <2>2. CASE q # Master
    <3>1. q \in Worker
      BY <1>1, <2>2, PartyFacts
    <3> QED BY <2>2, <3>1 DEF Ready, TypeOK
  <2> QED BY <2>1, <2>2
<1>7. /\ Unparsed(p, q) \o sock[p][q] \in Seq(Message)
      /\ InWriting(p, q) \o MessagesTo(sendq[p], q) \in Seq(Message)
  BY <1>2, <1>3, <1>4, <1>5, ConcatProperties
<1>8. Flow(p, q) \in Seq(Message)
  BY <1>7, ConcatProperties DEF Flow
<1> QED BY <1>2, <1>3, <1>4, <1>5, <1>6, <1>7, <1>8

-----------------------------------------------------------------------------
(* The calls that are due.                                                 *)
\* The calls of p whose datum q has yet to take: those p has made and q has not.
LEMMA DueFacts ==
  ASSUME TypeOK, NEW p \in Party, NEW q \in Peers(p), NEW c \in Channel
  PROVE  /\ pos[p][c] \in Nat /\ pos[q][c] \in Nat
         /\ DOMAIN Due(p, q, c) \subseteq Nat
         /\ \A k \in Nat : k \in DOMAIN Due(p, q, c) <=>
              pos[q][c] < k /\ k =< pos[p][c] /\ prog[c][k] \in SentBy(p)
         /\ \A k \in DOMAIN Due(p, q, c) :
              Due(p, q, c)[k] = Arg(c, k, IF prog[c][k] = "scatter" THEN q ELSE p)
<1> DEFINE S == {k \in (pos[q][c] + 1)..pos[p][c] : prog[c][k] \in SentBy(p)}
<1>1. q \in Party
  BY PartyFacts
<1>2. pos[p][c] \in Nat /\ pos[q][c] \in Nat
  BY <1>1 DEF TypeOK
<1>3. /\ S \subseteq Nat
      /\ \A k \in Nat : k \in S <=> pos[q][c] < k /\ k =< pos[p][c] /\ prog[c][k] \in SentBy(p)
  BY <1>2
<1> HIDE DEF S
<1>4. Due(p, q, c) = [k \in S |-> Arg(c, k, IF prog[c][k] = "scatter" THEN q ELSE p)]
  BY DEF Due, S
<1> QED BY <1>2, <1>3, <1>4

\* A step that leaves both ends' counters on a channel alone changes nothing that is due.
LEMMA DueSame ==
  ASSUME NEW p \in Party, NEW q \in Peers(p), NEW c \in Channel,
         prog' = prog, pos'[p][c] = pos[p][c], pos'[q][c] = pos[q][c]
  PROVE  Due(p, q, c)' = Due(p, q, c)
BY DEF Due

\* A call in which p is not the side that sends.
LEMMA DueSilent ==
  ASSUME TypeOK, NEW p \in Party, NEW q \in Peers(p), NEW c \in Channel,
         prog' = prog,
         \/ /\ pos'[p][c] = pos[p][c] + 1 /\ pos'[q][c] = pos[q][c]
            /\ prog[c][pos[p][c] + 1] \notin SentBy(p)
         \/ /\ pos'[q][c] = pos[q][c] + 1 /\ pos'[p][c] = pos[p][c]
            /\ prog[c][pos[q][c] + 1] \notin SentBy(p)
  PROVE  Due(p, q, c)' = Due(p, q, c)
<1> DEFINE S == {k \in (pos[q][c] + 1)..pos[p][c] : prog[c][k] \in SentBy(p)}
           T == {k \in (pos'[q][c] + 1)..pos'[p][c] : prog[c][k] \in SentBy(p)}
<1>1. pos[p][c] \in Nat /\ pos[q][c] \in Nat
  BY DueFacts
<1>2. T = S
  BY <1>1
<1> HIDE DEF S, T
<1>3. /\ Due(p, q, c) = [k \in S |-> Arg(c, k, IF prog[c][k] = "scatter" THEN q ELSE p)]
      /\ Due(p, q, c)' = [k \in T |-> Arg(c, k, IF prog[c][k] = "scatter" THEN q ELSE p)]
  BY DEF Due, S, T
<1> QED BY <1>2, <1>3

\* A call that sends makes its datum the newest that is due.
LEMMA DueSend ==
  ASSUME TypeOK, NEW p \in Party, NEW q \in Peers(p), NEW c \in Channel, prog' = prog,
         pos'[p][c] = pos[p][c] + 1, pos'[q][c] = pos[q][c],
         prog[c][pos[p][c] + 1] \in SentBy(p), pos[q][c] =< pos[p][c]
  PROVE  LET k == pos[p][c] + 1
             due == Due(p, q, c)
             more == Due(p, q, c)'
         IN  /\ DOMAIN more = DOMAIN due \cup {k}
             /\ \A j \in DOMAIN due : more[j] = due[j] /\ j < k
             /\ more[k] = Arg(c, k, IF prog[c][k] = "scatter" THEN q ELSE p)
<1> DEFINE k == pos[p][c] + 1
           S == {j \in (pos[q][c] + 1)..pos[p][c] : prog[c][j] \in SentBy(p)}
           T == {j \in (pos'[q][c] + 1)..pos'[p][c] : prog[c][j] \in SentBy(p)}
<1>1. pos[p][c] \in Nat /\ pos[q][c] \in Nat
  BY DueFacts
<1>2. T = S \cup {k} /\ \A j \in S : j < k
  BY <1>1
<1> HIDE DEF S, T, k
<1>3. /\ Due(p, q, c) = [j \in S |-> Arg(c, j, IF prog[c][j] = "scatter" THEN q ELSE p)]
      /\ Due(p, q, c)' = [j \in T |-> Arg(c, j, IF prog[c][j] = "scatter" THEN q ELSE p)]
  BY DEF Due, S, T
<1> QED BY <1>2, <1>3 DEF k

\* A call that receives takes the oldest that is due.
LEMMA DueReceive ==
  ASSUME TypeOK, NEW p \in Party, NEW q \in Peers(p), NEW c \in Channel, prog' = prog,
         pos'[q][c] = pos[q][c] + 1, pos'[p][c] = pos[p][c],
         prog[c][pos[q][c] + 1] \in SentBy(p), DOMAIN Due(p, q, c) # {}
  PROVE  LET k == pos[q][c] + 1
             due == Due(p, q, c)
             less == Due(p, q, c)'
         IN  /\ k \in DOMAIN due /\ \A j \in DOMAIN due : k =< j
             /\ due[k] = Arg(c, k, IF prog[c][k] = "scatter" THEN q ELSE p)
             /\ DOMAIN less = DOMAIN due \ {k}
             /\ \A j \in DOMAIN less : less[j] = due[j]
<1> DEFINE k == pos[q][c] + 1
           S == {j \in (pos[q][c] + 1)..pos[p][c] : prog[c][j] \in SentBy(p)}
           T == {j \in (pos'[q][c] + 1)..pos'[p][c] : prog[c][j] \in SentBy(p)}
<1>1. pos[p][c] \in Nat /\ pos[q][c] \in Nat
  BY DueFacts
<1>2. S # {}
  BY DEF Due
<1>3. k \in S /\ T = S \ {k} /\ \A j \in S : k =< j
  BY <1>1, <1>2
<1> HIDE DEF S, T, k
<1>4. /\ Due(p, q, c) = [j \in S |-> Arg(c, j, IF prog[c][j] = "scatter" THEN q ELSE p)]
      /\ Due(p, q, c)' = [j \in T |-> Arg(c, j, IF prog[c][j] = "scatter" THEN q ELSE p)]
  BY DEF Due, S, T
<1> QED BY <1>3, <1>4 DEF k

\* What a call of the DeNet trait does to the counters: its own advances by one,
\* within the program, and no other moves.
LEMMA CallFacts ==
  ASSUME TypeOK, NEW p \in Party, NEW c \in Channel, NEW o, Calls(p, c, o),
         NEW v, Returns(p, c, v)
  PROVE  /\ Step(p, c) \in 1..Len(prog[c]) /\ prog[c][Step(p, c)] = o /\ o \in Op
         /\ Step(p, c) = pos[p][c] + 1 /\ Step(p, c) \in Nat
         /\ proc[p] = "up" /\ proc' = proc /\ prog' = prog
         /\ pos'[p][c] = Step(p, c)
         /\ \A q \in Party, x \in Channel : q # p \/ x # c => pos'[q][x] = pos[q][x]
         /\ pos' \in [Party -> [Channel -> Nat]]
         /\ \A q \in Party, x \in Channel : pos'[q][x] =< Len(prog'[x])
         /\ DOMAIN ret' = Party /\ \A q \in Party : DOMAIN ret'[q] = Channel
<1>1. prog' = prog /\ proc' = proc /\ pos' = [pos EXCEPT ![p][c] = @ + 1]
  BY DEF Returns
<1>2. pos' \in [Party -> [Channel -> Nat]] /\ pos'[p][c] = pos[p][c] + 1 /\ pos[p][c] \in Nat
  BY <1>1 DEF TypeOK
<1>3. \A q \in Party, x \in Channel : q # p \/ x # c => pos'[q][x] = pos[q][x]
  BY <1>1 DEF TypeOK
<1>4. prog[c] \in Seq(Op) /\ Len(prog[c]) \in Nat
  BY ProgramsAreCalls, LenProperties DEF TypeOK
<1>5. pos[p][c] < Len(prog[c]) /\ prog[c][Step(p, c)] = o /\ proc[p] = "up"
  BY DEF Calls, OpAt
<1>6. Step(p, c) \in 1..Len(prog[c]) /\ Step(p, c) = pos[p][c] + 1 /\ Step(p, c) \in Nat
  BY <1>2, <1>4, <1>5 DEF Step
<1>7. o \in Op
  BY <1>4, <1>5, <1>6, ElementOfSeq
<1>8. \A q \in Party, x \in Channel : pos'[q][x] =< Len(prog'[x])
  BY <1>1, <1>2, <1>3, <1>5, <1>6 DEF TypeOK
<1>9. DOMAIN ret' = Party /\ \A q \in Party : DOMAIN ret'[q] = Channel
  BY DEF Returns, TypeOK
<1> QED BY <1>1, <1>2, <1>3, <1>5, <1>6, <1>7, <1>8, <1>9

-----------------------------------------------------------------------------
(* What a step does to the pipes.                                          *)
Pipes ==
  \A p \in Party : \A q \in Peers(p), c \in Channel :
    proc[q] # "aborted" =>
      Carries(Ready(p, q, c), Flow(p, q), c, Due(p, q, c), proc[p] = "aborted")

\* The parts of the invariant under their names.
LEMMA PipesOf == IInv => TypeOK /\ Life /\ Pipes /\ (\A c \in Channel : Settled(match[c])) /\ CP!IInv
BY DEF IInv, PipelineExact, Pipes

\* A step that moves nothing, or moves messages along the flow.
LEMMA PipesStay ==
  ASSUME Pipes, NEW p \in Party, NEW q \in Peers(p), NEW c \in Channel,
         proc'[q] # "aborted",
         proc[q] = "aborted" <=> proc'[q] = "aborted",
         proc[p] = "aborted" <=> proc'[p] = "aborted",
         Ready(p, q, c)' = Ready(p, q, c), Flow(p, q)' = Flow(p, q), Due(p, q, c)' = Due(p, q, c)
  PROVE  Carries(Ready(p, q, c)', Flow(p, q)', c, Due(p, q, c)', proc'[p] = "aborted")
<1>1. Carries(Ready(p, q, c), Flow(p, q), c, Due(p, q, c), proc[p] = "aborted")
  BY DEF Pipes
<1>2. (proc[p] = "aborted") = (proc'[p] = "aborted")
  OBVIOUS
<1> QED BY <1>1, <1>2

\* What a queue holds, and whom a call's data go to.
LEMMA QueueTypes ==
  ASSUME TypeOK, Life, NEW p \in Party
  PROVE  /\ sendq[p] \in Seq(Entries) /\ Ends(sendq[p])
         /\ proc[p] = "up" => \A i \in DOMAIN sendq[p] : sendq[p][i].data.kind # "Shutdown"
BY DEF TypeOK, Life, LifeOf, Entries

\* A call of the sending side.
LEMMA CallSends ==
  ASSUME IInv, NEW p \in Party, NEW c \in Channel, NEW o, Calls(p, c, o), o \in SentBy(p),
         NEW v, Returns(p, c, v),
         NEW d \in Datum, d.kind # "Shutdown", Enqueue(p, c, d),
         \A q \in Peers(p) :
           /\ MessageTo([ch |-> c, data |-> d], q).bytes
                = Arg(c, Step(p, c), IF o = "scatter" THEN q ELSE p)
           /\ pos[q][c] =< pos[p][c]
  PROVE  Pipes'
<1> DEFINE e == [ch |-> c, data |-> d]
           k == Step(p, c)
<1> USE PipesOf
<1>1. /\ k = pos[p][c] + 1 /\ k \in Nat /\ prog[c][k] = o
      /\ proc[p] = "up" /\ proc' = proc /\ prog' = prog /\ pos'[p][c] = k
      /\ \A q \in Party, x \in Channel : q # p \/ x # c => pos'[q][x] = pos[q][x]
  BY CallFacts
<1>2. /\ sendq' = [sendq EXCEPT ![p] = Append(@, e)]
      /\ writing' = writing /\ sock' = sock /\ inbuf' = inbuf /\ from' = from
      /\ match' = match /\ recvq' = recvq
  BY DEF Enqueue, recvVars
<1>3. e \in Entries /\ e.data.kind # "Shutdown" /\ e.ch = c
  BY DEF Entries
<1>4. /\ sendq'[p] = Append(sendq[p], e)
      /\ \A q \in Party : q # p => sendq'[q] = sendq[q]
  BY <1>2 DEF TypeOK
<1> HIDE DEF e, k
<1>5. \A a \in Party : \A b \in Peers(a), x \in Channel : Ready(a, b, x)' = Ready(a, b, x)
  BY <1>2 DEF Ready
<1>6. ASSUME NEW b \in Peers(p)
      PROVE  Flow(p, b)' = Append(Flow(p, b), MessageTo(e, b)) /\ MessageTo(e, b) \in Message
  <2> DEFINE s == Unparsed(p, b) \o sock[p][b]
             m == MessageTo(e, b)
  <2>1. /\ s \in Seq(Message) /\ InWriting(p, b) \in Seq(Message)
        /\ MessagesTo(sendq[p], b) \in Seq(Message)
        /\ InWriting(p, b) \o MessagesTo(sendq[p], b) \in Seq(Message)
    BY PipeTypes
  <2>2. m \in Message
    BY <1>3, EntryCarries, PartyFacts
  <2>3. MessagesTo(sendq'[p], b) = Append(MessagesTo(sendq[p], b), m)
    BY <1>1, <1>3, <1>4, MessagesToAppend, QueueTypes, PartyFacts
  <2> HIDE DEF m
  <2>4. InWriting(p, b) \o MessagesTo(sendq'[p], b) = Append(InWriting(p, b) \o MessagesTo(sendq[p], b), m)
    BY <2>1, <2>2, <2>3, ConcatAppend
  <2>5. Flow(p, b)' = s \o (InWriting(p, b) \o MessagesTo(sendq'[p], b))
    BY <1>2 DEF Flow, Unparsed, InWriting
  <2>6. Flow(p, b) = s \o (InWriting(p, b) \o MessagesTo(sendq[p], b))
    BY DEF Flow
  <2> DEFINE t == InWriting(p, b) \o MessagesTo(sendq[p], b)
  <2>7. s \in Seq(Message) /\ t \in Seq(Message)
    BY <2>1
  <2>8. Flow(p, b)' = s \o Append(t, m) /\ Flow(p, b) = s \o t
    BY <2>4, <2>5, <2>6
  <2> HIDE DEF s, t
  <2>9. s \o Append(t, m) = Append(s \o t, m)
    BY ONLY <2>2, <2>7, ConcatAppend
  <2> QED BY <2>2, <2>8, <2>9 DEF m
<1>7. ASSUME NEW a \in Party, a # p, NEW b \in Peers(a) PROVE Flow(a, b)' = Flow(a, b)
  BY <1>2, <1>4, <1>7 DEF Flow, Unparsed, InWriting
<1>8. ASSUME NEW a \in Party, NEW b \in Peers(a), NEW x \in Channel, proc'[b] # "aborted"
      PROVE  Carries(Ready(a, b, x)', Flow(a, b)', x, Due(a, b, x)', proc'[a] = "aborted")
  <2>0. b \in Party
    BY PartyFacts
  <2>1. CASE a # p
    <3>1. Due(a, b, x)' = Due(a, b, x)
      <4>1. CASE b = p /\ x = c
        <5>1. o \notin SentBy(a)
          BY <2>1, <4>1, PartyFacts DEF SentBy
        <5> QED BY <1>1, <2>1, <4>1, <5>1, DueSilent
      <4>2. CASE b # p \/ x # c
        BY <1>1, <2>0, <2>1, <4>2, DueSame
      <4> QED BY <4>1, <4>2
    <3> QED BY <1>1, <1>5, <1>7, <1>8, <2>1, <3>1, PipesStay
  <2>2. CASE a = p
    <3> DEFINE m == MessageTo(e, b)
    <3>1. /\ Flow(p, b)' = Append(Flow(p, b), m) /\ m \in Message /\ m.ch = c
          /\ Ready(p, b, x)' = Ready(p, b, x)
      BY <1>3, <1>5, <1>6, <2>2 DEF MessageTo
    <3>2. Carries(Ready(p, b, x), Flow(p, b), x, Due(p, b, x), FALSE)
      <4>1. Carries(Ready(p, b, x), Flow(p, b), x, Due(p, b, x), proc[p] = "aborted")
        BY <1>1, <1>8, <2>2 DEF Pipes
      <4>2. (proc[p] = "aborted") = FALSE
        BY <1>1
      <4> QED BY <4>1, <4>2
    <3>3. Ready(p, b, x) \in Seq(Payload) /\ Flow(p, b) \in Seq(Message)
      BY <2>2, PipeTypes
    <3>4. (proc'[p] = "aborted") = FALSE
      BY <1>1
    <3> HIDE DEF m
    <3>5. CASE x = c
      <4>1. m.bytes = Arg(c, k, IF o = "scatter" THEN b ELSE p) /\ m.bytes.op = k
        BY <2>2 DEF m, e, Arg, k
      <4>2. b # p
        BY <2>2, PartyFacts
      <4>3. /\ DOMAIN Due(p, b, c)' = DOMAIN Due(p, b, c) \cup {k}
            /\ \A j \in DOMAIN Due(p, b, c) : Due(p, b, c)'[j] = Due(p, b, c)[j] /\ j < k
            /\ Due(p, b, c)'[k] = Arg(c, k, IF o = "scatter" THEN b ELSE p)
        <5>1. /\ b \in Peers(p) /\ TypeOK /\ prog' = prog
              /\ pos'[p][c] = pos[p][c] + 1 /\ pos'[b][c] = pos[b][c] /\ pos[b][c] =< pos[p][c]
              /\ k = pos[p][c] + 1 /\ prog[c][pos[p][c] + 1] = o
          BY <1>1, <2>0, <2>2, <4>2
        <5>2. LET i == pos[p][c] + 1
                  due == Due(p, b, c)
                  more == Due(p, b, c)'
              IN  /\ DOMAIN more = DOMAIN due \cup {i}
                  /\ \A j \in DOMAIN due : more[j] = due[j] /\ j < i
                  /\ more[i] = Arg(c, i, IF prog[c][i] = "scatter" THEN b ELSE p)
          BY <5>1, DueSend
        <5> QED BY <5>1, <5>2
      <4> DEFINE due == Due(p, b, c)
                 more == Due(p, b, c)'
                 f == Flow(p, b)
                 r == Ready(p, b, c)
      <4> HIDE DEF due, more, f, r
      <4>4. /\ DOMAIN more = DOMAIN due \cup {m.bytes.op} /\ more[m.bytes.op] = m.bytes
            /\ \A j \in DOMAIN due : more[j] = due[j] /\ j < m.bytes.op
            /\ Carries(r, f, c, due, FALSE) /\ r \in Seq(Payload) /\ f \in Seq(Message)
            /\ m \in Message /\ m.ch = c
        BY <3>1, <3>2, <3>3, <3>5, <4>1, <4>3 DEF due, more, f, r
      <4>5. Carries(r, Append(f, m), c, more, FALSE)
        BY <4>4, CarriesSend
      <4> QED BY <2>2, <3>1, <3>4, <3>5, <4>5 DEF due, more, f, r
    <3>6. CASE x # c
      <4>1. Due(p, b, x)' = Due(p, b, x)
        BY <1>1, <2>0, <2>2, <3>6, DueSame
      <4>2. Carries(Ready(p, b, x), Append(Flow(p, b), m), x, Due(p, b, x), FALSE)
        BY <3>1, <3>2, <3>3, <3>6, CarriesOther
      <4> QED BY <2>2, <3>1, <3>4, <4>1, <4>2
    <3> QED BY <3>5, <3>6
  <2> QED BY <2>1, <2>2
<1> QED BY <1>8 DEF Pipes
-----------------------------------------------------------------------------
(* What one worker has in the rounds that are ready for the master.        *)
Column(s, w) == [i \in DOMAIN s |-> s[i][w]]

\* One worker's payloads in the rounds that are ready.
LEMMA ColumnType ==
  ASSUME NEW s \in Seq(Round), NEW w \in Worker
  PROVE  /\ Column(s, w) \in Seq(Payload) /\ Len(Column(s, w)) = Len(s)
         /\ \A i \in 1..Len(s) : Column(s, w)[i] = s[i][w]
<1>1. Len(s) \in Nat /\ DOMAIN s = 1..Len(s) /\ \A i \in DOMAIN s : s[i][w] \in Payload
  BY LenProperties, ElementOfSeq DEF Round
<1>2. Column(s, w) \in [1..Len(s) -> Payload]
  BY <1>1 DEF Column
<1>3. Column(s, w) \in Seq(Payload)
  BY <1>1, <1>2, SeqDef
<1>4. Len(Column(s, w)) = Len(s)
  BY <1>1, <1>2, <1>3, LenProperties
<1>5. \A i \in 1..Len(s) : Column(s, w)[i] = s[i][w]
  BY <1>1 DEF Column
<1> QED BY <1>3, <1>4, <1>5

\* The master takes the oldest round: of each worker, the oldest payload.
LEMMA ColumnTail ==
  ASSUME NEW s \in Seq(Round), NEW w \in Worker, s # <<>>
  PROVE  /\ Column(s, w) # <<>> /\ Head(Column(s, w)) = Head(s)[w]
         /\ Column(Tail(s), w) = Tail(Column(s, w))
<1> DEFINE a == Column(s, w)
           b == Column(Tail(s), w)
           t == Tail(s)
<1>1. /\ t \in Seq(Round) /\ Len(t) = Len(s) - 1 /\ \A i \in 1..Len(t) : t[i] = s[i + 1]
      /\ Head(s) = s[1] /\ Len(s) \in Nat /\ Len(s) >= 1
  BY HeadTailProperties, LenProperties, EmptySeq
<1>2. /\ a \in Seq(Payload) /\ Len(a) = Len(s) /\ \A i \in 1..Len(s) : a[i] = s[i][w]
      /\ b \in Seq(Payload) /\ Len(b) = Len(t) /\ \A i \in 1..Len(t) : b[i] = t[i][w]
  BY <1>1, ColumnType
<1> HIDE DEF a, b, t
<1>3. a # <<>> /\ Head(a) = Head(s)[w]
  BY <1>1, <1>2, EmptySeq
<1>4. /\ Tail(a) \in Seq(Payload) /\ Len(Tail(a)) = Len(a) - 1
      /\ \A i \in 1..Len(Tail(a)) : Tail(a)[i] = a[i + 1]
  BY <1>2, <1>3, HeadTailProperties
<1>5. \A i \in 1..Len(b) : b[i] = Tail(a)[i]
  BY <1>1, <1>2, <1>4, SMTT(40)
<1>6. b = Tail(a)
  <2>1. b \in Seq(Payload) /\ Tail(a) \in Seq(Payload) /\ Len(b) = Len(Tail(a))
    BY <1>1, <1>2, <1>4
  <2> QED BY ONLY <1>5, <2>1, SeqEqual
<1> QED BY <1>3, <1>6 DEF a, b, t

\* A round becomes ready: of each worker, the payload it holds is the newest.
LEMMA ColumnAppend ==
  ASSUME NEW s \in Seq(Round), NEW r \in Round, NEW w \in Worker
  PROVE  Column(Append(s, r), w) = Append(Column(s, w), r[w])
<1> DEFINE t == Append(s, r)
           a == Column(s, w)
           b == Column(t, w)
           e == Append(a, r[w])
<1>1. /\ t \in Seq(Round) /\ Len(t) = Len(s) + 1 /\ \A i \in 1..Len(s) : t[i] = s[i]
      /\ t[Len(s) + 1] = r /\ Len(s) \in Nat /\ r[w] \in Payload
  BY AppendProperties, LenProperties DEF Round
<1>2. /\ a \in Seq(Payload) /\ Len(a) = Len(s) /\ \A i \in 1..Len(s) : a[i] = s[i][w]
      /\ b \in Seq(Payload) /\ Len(b) = Len(t) /\ \A i \in 1..Len(t) : b[i] = t[i][w]
  BY <1>1, ColumnType
<1> HIDE DEF t, a, b
<1>3. /\ e \in Seq(Payload) /\ Len(e) = Len(a) + 1 /\ \A i \in 1..Len(a) : e[i] = a[i]
      /\ e[Len(a) + 1] = r[w]
  BY <1>1, <1>2, AppendProperties
<1> HIDE DEF e
<1>4. \A i \in 1..Len(b) : b[i] = e[i]
  BY <1>1, <1>2, <1>3, SMTT(40)
<1>5. b = e
  <2>1. b \in Seq(Payload) /\ e \in Seq(Payload) /\ Len(b) = Len(e)
    BY <1>1, <1>2, <1>3
  <2> QED BY ONLY <1>4, <2>1, SeqEqual
<1> QED BY <1>5 DEF t, a, b, e

\* What is ready of a worker at the master: the complete rounds, then its queue in the matcher.
LEMMA ReadyColumn ==
  ASSUME NEW w \in Worker, NEW c \in Channel
  PROVE  Ready(w, Master, c) = Column(recvq[Master][c], w) \o match[c].queue[w]
BY DEF Ready, Column

\* A call that takes what is ready.
LEMMA ReadyTail ==
  ASSUME TypeOK, NEW q \in Party, NEW c \in Channel, recvq[q][c] # <<>>, Dequeue(q, c),
         NEW p \in Peers(q)
  PROVE  /\ Ready(p, q, c) # <<>> /\ Ready(p, q, c)' = Tail(Ready(p, q, c))
         /\ Head(Ready(p, q, c)) =
              IF q = Master THEN Head(recvq[Master][c])[p] ELSE Head(recvq[q][c])
<1>1. /\ recvq' = [recvq EXCEPT ![q][c] = Tail(@)] /\ match' = match
      /\ c \in DOMAIN recvq[q] /\ DOMAIN recvq = Party
  <2>1. q = Master \/ q \in Worker
    BY PartyFacts
  <2> QED BY <2>1 DEF Dequeue, TypeOK
<1>2. recvq'[q][c] = Tail(recvq[q][c])
  BY <1>1
<1>3. CASE q # Master
  BY <1>2, <1>3 DEF Ready
<1>4. CASE q = Master
  <2> DEFINE s == recvq[Master][c]
             u == match[c].queue[p]
  <2>1. p \in Worker
    BY <1>4, PartyFacts
  <2>2. s \in Seq(Round) /\ s # <<>> /\ u \in Seq(Payload)
    BY <1>4, <2>1 DEF TypeOK, Matcher
  <2>3. /\ Ready(p, q, c) = Column(s, p) \o u
        /\ Ready(p, q, c)' = Column(Tail(s), p) \o u
    BY <1>1, <1>2, <1>4 DEF Ready, Column
  <2> HIDE DEF s, u
  <2>4. /\ Column(s, p) \in Seq(Payload) /\ Column(s, p) # <<>>
        /\ Head(Column(s, p)) = Head(s)[p]
        /\ Column(Tail(s), p) = Tail(Column(s, p))
    BY <2>1, <2>2, ColumnType, ColumnTail
  <2>5. /\ Column(s, p) \o u # <<>> /\ Head(Column(s, p) \o u) = Head(Column(s, p))
        /\ Tail(Column(s, p) \o u) = Tail(Column(s, p)) \o u
    BY <2>2, <2>4, HeadOfConcat
  <2>6. Head(s) = Head(recvq[Master][c])
    BY DEF s
  <2> QED BY ONLY <1>4, <2>3, <2>4, <2>5, <2>6
<1> QED BY <1>3, <1>4

\* A call that receives keeps every pipe, and returns the argument of the same
\* call of its peer: master_gather, and a worker's scatter and uniform.
LEMMA CallReceives ==
  ASSUME IInv, NEW q \in Party, NEW c \in Channel, NEW o, Calls(q, c, o), o \notin SentBy(q),
         NEW v, Returns(q, c, v), recvq[q][c] # <<>>, Dequeue(q, c)
  PROVE  /\ Pipes'
         /\ \A p \in Peers(q) :
              /\ Step(q, c) =< pos[p][c]
              /\ (IF q = Master THEN Head(recvq[Master][c])[p] ELSE Head(recvq[q][c]))
                   = Arg(c, Step(q, c), IF o = "scatter" THEN q ELSE p)
<1> DEFINE k == Step(q, c)
<1> USE PipesOf
<1>1. /\ k = pos[q][c] + 1 /\ k \in Nat /\ prog[c][k] = o /\ o \in Op
      /\ proc[q] = "up" /\ proc' = proc /\ prog' = prog /\ pos'[q][c] = k
      /\ \A p \in Party, x \in Channel : p # q \/ x # c => pos'[p][x] = pos[p][x]
  BY CallFacts
<1> HIDE DEF k
<1>2. /\ recvq' = [recvq EXCEPT ![q][c] = Tail(@)]
      /\ writing' = writing /\ sock' = sock /\ inbuf' = inbuf /\ from' = from
      /\ match' = match /\ sendq' = sendq
  BY DEF Dequeue, sendVars
<1>3. \A p \in Party, x \in Channel : p # q \/ x # c => recvq'[p][x] = recvq[p][x]
  <2>1. DOMAIN recvq = Party /\ \A p \in Party : DOMAIN recvq[p] = Channel
    BY PartyFacts DEF TypeOK
  <2> QED BY <1>2, <2>1
<1>4. ASSUME NEW a \in Party, NEW b \in Peers(a), NEW x \in Channel, b # q \/ x # c
      PROVE  Ready(a, b, x)' = Ready(a, b, x)
  BY <1>2, <1>3, <1>4, PartyFacts DEF Ready
<1>5. \A a \in Party : \A b \in Peers(a) : Flow(a, b)' = Flow(a, b)
  BY <1>2 DEF Flow, Unparsed, InWriting
<1>6. ASSUME NEW p \in Peers(q)
      PROVE  /\ k =< pos[p][c]
             /\ Head(Ready(p, q, c)) = Arg(c, k, IF o = "scatter" THEN q ELSE p)
             /\ Carries(Ready(p, q, c)', Flow(p, q)', c, Due(p, q, c)', proc'[p] = "aborted")
  <2> DEFINE r == Ready(p, q, c)
             f == Flow(p, q)
             due == Due(p, q, c)
             less == Due(p, q, c)'
             cut == proc[p] = "aborted"
  <2>1. p \in Party /\ q \in Peers(p) /\ p # q
    BY PartyFacts
  <2>2. o \in SentBy(p)
    BY <1>1, PartyFacts DEF SentBy, Op
  <2>3. r # <<>> /\ Ready(p, q, c)' = Tail(r)
    BY ReadyTail
  <2>4. r \in Seq(Payload) /\ f \in Seq(Message) /\ Carries(r, f, c, due, cut)
    <3>1. proc[q] # "aborted"
      BY <1>1
    <3> QED BY <3>1, <2>1, PipeTypes DEF Pipes
  <2>5. DOMAIN due \subseteq Nat
    BY <2>1, DueFacts
  <2>6. due # <<>> /\ DOMAIN due # {}
    <3> HIDE DEF r, f, due, cut
    <3>1. Len(r) \in Nat /\ DOMAIN r = 1..Len(r) /\ Len(r) # 0
      BY <2>3, <2>4, LenProperties, EmptySeq
    <3>2. 1 \in DOMAIN r
      BY <3>1
    <3> QED BY <2>4, <3>2 DEF Carries
  <2>7. /\ k \in DOMAIN due /\ \A j \in DOMAIN due : k =< j
        /\ due[k] = Arg(c, k, IF o = "scatter" THEN q ELSE p)
        /\ DOMAIN less = DOMAIN due \ {k}
        /\ \A j \in DOMAIN less : less[j] = due[j]
    <3>1. /\ TypeOK /\ prog' = prog /\ pos'[q][c] = pos[q][c] + 1 /\ pos'[p][c] = pos[p][c]
          /\ prog[c][pos[q][c] + 1] \in SentBy(p) /\ DOMAIN Due(p, q, c) # {}
      BY <1>1, <2>1, <2>2, <2>6
    <3>2. LET i == pos[q][c] + 1
          IN  /\ i \in DOMAIN due /\ \A j \in DOMAIN due : i =< j
              /\ due[i] = Arg(c, i, IF prog[c][i] = "scatter" THEN q ELSE p)
              /\ DOMAIN less = DOMAIN due \ {i}
              /\ \A j \in DOMAIN less : less[j] = due[j]
      BY <2>1, <3>1, DueReceive
    <3> HIDE DEF due, less
    <3> QED BY <1>1, <3>2
  <2>8. k =< pos[p][c]
    BY <1>1, <2>1, <2>7, DueFacts
  <2>9. Flow(p, q)' = f /\ (proc'[p] = "aborted") = cut
    BY <1>1, <1>5, <2>1
  <2> HIDE DEF r, f, due, less, cut
  <2>10. Head(r) = due[k] /\ Carries(Tail(r), f, c, less, cut)
    <3>1. /\ r \in Seq(Payload) /\ r # <<>> /\ f \in Seq(Message) /\ Carries(r, f, c, due, cut)
          /\ DOMAIN due \subseteq Nat /\ k \in DOMAIN due /\ \A j \in DOMAIN due : k =< j
          /\ DOMAIN less = DOMAIN due \ {k} /\ \A j \in DOMAIN less : less[j] = due[j]
      BY <2>3, <2>4, <2>5, <2>7
    <3> QED BY ONLY <3>1, CarriesReceive
  <2> QED BY <2>3, <2>7, <2>8, <2>9, <2>10 DEF r, less
<1>7. ASSUME NEW a \in Party, NEW b \in Peers(a), NEW x \in Channel, proc'[b] # "aborted"
      PROVE  Carries(Ready(a, b, x)', Flow(a, b)', x, Due(a, b, x)', proc'[a] = "aborted")
  <2>0. b \in Party /\ a \in Peers(b) /\ a # b
    BY PartyFacts
  <2>1. CASE b = q /\ x = c
    BY <1>6, <2>0, <2>1
  <2>2. CASE b # q \/ x # c
    <3>1. Due(a, b, x)' = Due(a, b, x)
      <4>1. CASE a = q /\ x = c
        BY <1>1, <2>0, <4>1, DueSilent
      <4>2. CASE a # q \/ x # c
        BY <1>1, <2>0, <2>2, <4>2, DueSame
      <4> QED BY <4>1, <4>2
    <3> QED BY <1>1, <1>4, <1>5, <1>7, <2>2, <3>1, PipesStay
  <2> QED BY <2>1, <2>2
<1>8. Pipes'
  BY <1>7 DEF Pipes
<1> QED BY <1>6, <1>8, ReadyTail DEF k
-----------------------------------------------------------------------------
(* The receive thread: messages that are parsed.                           *)
\* The head of the buffer that is parsed is the oldest message of its flow.
LEMMA FlowHead ==
  ASSUME TypeOK, Life, NEW p \in Party, NEW q \in Peers(p), from[q] = p, inbuf[q] # <<>>
  PROVE  /\ Flow(p, q) # <<>> /\ Head(Flow(p, q)) = Head(inbuf[q])
         /\ Tail(Flow(p, q)) =
              (Tail(inbuf[q]) \o sock[p][q]) \o (InWriting(p, q) \o MessagesTo(sendq[p], q))
<1> DEFINE i == inbuf[q]
           s == sock[p][q]
           o == InWriting(p, q) \o MessagesTo(sendq[p], q)
<1>1. i \in Seq(Message) /\ i # <<>> /\ s \in Seq(Message) /\ o \in Seq(Message)
  BY PipeTypes, PartyFacts DEF TypeOK
<1>2. Flow(p, q) = (i \o s) \o o
  BY DEF Flow, Unparsed
<1> HIDE DEF i, s, o
<1>3. /\ i \o s \in Seq(Message) /\ i \o s # <<>> /\ Head(i \o s) = Head(i)
      /\ Tail(i \o s) = Tail(i) \o s
  BY <1>1, HeadOfConcat, ConcatProperties
<1>4. /\ (i \o s) \o o # <<>> /\ Head((i \o s) \o o) = Head(i)
      /\ Tail((i \o s) \o o) = (Tail(i) \o s) \o o
  BY <1>1, <1>3, HeadOfConcat
<1> QED BY <1>2, <1>4 DEF i, s, o

\* A message parsed from a peer's buffer moves from the flow to what is ready on
\* its channel id, and nothing else moves.
LEMMA Parsed ==
  ASSUME IInv, NEW p \in Party, NEW q \in Peers(p), from[q] = p, inbuf[q] # <<>>,
         inbuf' = [inbuf EXCEPT ![q] = Tail(@)],
         UNCHANGED <<mainVars, proc, sendVars, sock, from>>,
         LET m == Head(inbuf[q]) IN
         \A a \in Party : \A b \in Peers(a), x \in Channel :
           Ready(a, b, x)' = IF a = p /\ b = q /\ x = m.ch
                             THEN Append(Ready(a, b, x), m.bytes) ELSE Ready(a, b, x)
  PROVE  Pipes'
<1> DEFINE m == Head(inbuf[q])
<1> USE PipesOf
<1>1. /\ prog' = prog /\ pos' = pos /\ proc' = proc /\ sendq' = sendq /\ writing' = writing
      /\ sock' = sock /\ from' = from
  BY DEF mainVars, sendVars
<1>2. q \in Party /\ p # q
  BY PartyFacts
<1>3. inbuf'[q] = Tail(inbuf[q]) /\ \A b \in Party : b # q => inbuf'[b] = inbuf[b]
  BY <1>2 DEF TypeOK
<1>4. \A a \in Party : \A b \in Peers(a), x \in Channel : Due(a, b, x)' = Due(a, b, x)
  BY <1>1 DEF Due
<1>5. /\ Flow(p, q) # <<>> /\ Head(Flow(p, q)) = m
      /\ Flow(p, q)' = Tail(Flow(p, q))
  <2>1. Flow(p, q)' = (Tail(inbuf[q]) \o sock[p][q]) \o (InWriting(p, q) \o MessagesTo(sendq[p], q))
    BY <1>1, <1>3 DEF Flow, Unparsed, InWriting
  <2> QED BY <2>1, FlowHead
<1>6. ASSUME NEW a \in Party, NEW b \in Peers(a), a # p \/ b # q
      PROVE  Flow(a, b)' = Flow(a, b)
  <2>1. b \in Party
    BY PartyFacts
  <2>2. Unparsed(a, b)' = Unparsed(a, b)
    BY <1>1, <1>3, <1>6, <2>1 DEF Unparsed
  <2> QED BY <1>1, <2>2 DEF Flow, InWriting
<1>7. ASSUME NEW a \in Party, NEW b \in Peers(a), NEW x \in Channel, proc'[b] # "aborted"
      PROVE  Carries(Ready(a, b, x)', Flow(a, b)', x, Due(a, b, x)', proc'[a] = "aborted")
  <2>1. CASE a # p \/ b # q
    <3>1. Ready(a, b, x)' = Ready(a, b, x)
      BY <2>1
    <3> QED BY <1>1, <1>4, <1>6, <1>7, <2>1, <3>1, PipesStay
  <2>2. CASE a = p /\ b = q
    <3> DEFINE r == Ready(p, q, x)
               f == Flow(p, q)
               due == Due(p, q, x)
               cut == proc[p] = "aborted"
    <3>1. /\ r \in Seq(Payload) /\ f \in Seq(Message) /\ f # <<>> /\ Carries(r, f, x, due, cut)
          /\ Head(f) = m
      BY <1>1, <1>5, <1>7, <2>2, PipeTypes DEF Pipes
    <3>2. /\ Ready(p, q, x)' = IF x = m.ch THEN Append(r, m.bytes) ELSE r
          /\ Flow(p, q)' = Tail(f) /\ Due(p, q, x)' = due /\ (proc'[p] = "aborted") = cut
      BY <1>1, <1>4, <1>5
    <3> HIDE DEF r, f, due, cut, m
    <3>3. IF m.ch = x THEN Carries(Append(r, m.bytes), Tail(f), x, due, cut)
          ELSE Carries(r, Tail(f), x, due, cut)
      BY <3>1, CarriesParse
    <3> QED BY <2>2, <3>2, <3>3
  <2> QED BY <2>1, <2>2
<1> QED BY <1>7 DEF Pipes

\* A worker's receive thread routes a message to the queue of its channel id.
LEMMA ParseWorkerPipes ==
  ASSUME IInv, NEW w \in Worker, ParseWorker(w)
  PROVE  Pipes'
<1> DEFINE m == Head(inbuf[w])
<1> USE PipesOf
<1>1. /\ inbuf[w] # <<>> /\ inbuf' = [inbuf EXCEPT ![w] = Tail(@)] /\ match' = match
      /\ recvq' = [recvq EXCEPT ![w][m.ch] = Append(@, m.bytes)]
      /\ UNCHANGED <<mainVars, proc, sendVars, sock, from>>
  BY DEF ParseWorker
<1>2. Master \in Party /\ w \in Peers(Master) /\ w \in Party /\ w # Master
  BY PartyFacts
<1>3. from[w] = Master
  BY PartyFacts DEF ParseWorker, TypeOK
<1>4. m \in Message
  BY <1>1, <1>2, HeadTailProperties DEF TypeOK
<1>5. /\ recvq'[w][m.ch] = Append(recvq[w][m.ch], m.bytes)
      /\ \A q \in Party, x \in Channel : q # w \/ x # m.ch => recvq'[q][x] = recvq[q][x]
  <2>1. /\ DOMAIN recvq = Party /\ \A q \in Party : DOMAIN recvq[q] = Channel
        /\ m.ch \in Channel
    BY <1>4, PartyFacts DEF TypeOK, Message
  <2> HIDE DEF m
  <2> QED BY <1>1, <1>2, <2>1
<1> HIDE DEF m
<1>6. ASSUME NEW a \in Party, NEW b \in Peers(a), NEW x \in Channel
      PROVE  Ready(a, b, x)' = IF a = Master /\ b = w /\ x = m.ch
                               THEN Append(Ready(a, b, x), m.bytes) ELSE Ready(a, b, x)
  <2>1. b \in Party /\ (b = w => a = Master)
    BY PartyFacts
  <2>2. CASE b = w
    BY <1>2, <1>5, <2>1, <2>2 DEF Ready
  <2>3. CASE b # w
    BY <1>1, <1>2, <1>5, <2>1, <2>3 DEF Ready
  <2> QED BY <2>2, <2>3
<1> QED BY <1>1, <1>2, <1>3, <1>6, Parsed DEF m

\* What the matcher does with the message at the head of the buffer.
LEMMA ParseMasterFacts ==
  ASSUME IInv, ParseMaster
  PROVE  LET m == Head(inbuf[Master])
             c == m.ch
             w == from[Master]
         IN  /\ m \in Message /\ c \in Channel /\ w \in Worker /\ inbuf[Master] # <<>>
             /\ inbuf' = [inbuf EXCEPT ![Master] = Tail(@)]
             /\ UNCHANGED <<mainVars, proc, sendVars, sock, from, closed>>
             /\ match' \in [Channel -> Matcher] /\ Settled(match'[c])
             /\ DOMAIN recvq' = Party
             /\ \A q \in Party : q # Master => recvq'[q] = recvq[q]
             /\ recvq'[Master] \in [Channel -> Seq(Round)]
             /\ \A x \in Channel : x # c =>
                  match'[x] = match[x] /\ recvq'[Master][x] = recvq[Master][x]
             /\ \/ /\ recvq'[Master][c] = recvq[Master][c]
                   /\ \A v \in Worker : match'[c].queue[v] = Pushed(match[c], v, w, m.bytes)
                \/ \E h \in Round :
                     /\ recvq'[Master][c] = Append(recvq[Master][c], h)
                     /\ \A v \in Worker :
                          LET s == Pushed(match[c], v, w, m.bytes) IN
                          s # <<>> /\ h[v] = Head(s) /\ match'[c].queue[v] = Tail(s)
<1> DEFINE m == Head(inbuf[Master])
           c == m.ch
           w == from[Master]
           r == M!Accept(match[c], w, m.bytes)
           out == [i \in DOMAIN r.out |-> OutMessages(r.out[i])]
<1> USE PipesOf
<1>1. /\ inbuf[Master] # <<>> /\ inbuf' = [inbuf EXCEPT ![Master] = Tail(@)]
      /\ match' = [match EXCEPT ![c] = r.state]
      /\ recvq' = [recvq EXCEPT ![Master][c] = @ \o out]
      /\ UNCHANGED <<mainVars, proc, sendVars, sock, from, closed>>
  BY DEF ParseMaster
<1>2. w \in Worker
  BY PartyFacts DEF ParseMaster, TypeOK
<1>3. m \in Message /\ c \in Channel /\ m.bytes \in Payload
  <2>1. m \in Message
    BY <1>1, PartyFacts, HeadTailProperties DEF TypeOK
  <2> QED BY <2>1 DEF Message
<1>4. match[c] \in Matcher /\ Settled(match[c])
  BY <1>3 DEF TypeOK
<1>5. /\ r.state \in Matcher /\ Settled(r.state)
      /\ \/ /\ r.out = <<>>
            /\ \A v \in Worker : r.state.queue[v] = Pushed(match[c], v, w, m.bytes)
         \/ \E h \in [Worker -> Payload] :
              /\ r.out = <<h>>
              /\ \A v \in Worker :
                   LET s == Pushed(match[c], v, w, m.bytes) IN
                   s # <<>> /\ h[v] = Head(s) /\ r.state.queue[v] = Tail(s)
  BY <1>2, <1>3, <1>4, AcceptSettles
<1>6. DOMAIN recvq = Party /\ recvq[Master] \in [Channel -> Seq(Round)] /\ Master \in Party
  BY PartyFacts DEF TypeOK
<1>7. match \in [Channel -> Matcher]
  BY DEF TypeOK
<1> HIDE DEF r, out, c, m, w
<1>8. /\ match' \in [Channel -> Matcher] /\ match'[c] = r.state
      /\ \A x \in Channel : x # c => match'[x] = match[x]
  BY <1>1, <1>3, <1>5, <1>7
<1>9. /\ DOMAIN recvq' = Party /\ \A q \in Party : q # Master => recvq'[q] = recvq[q]
      /\ recvq'[Master] = [recvq[Master] EXCEPT ![c] = @ \o out]
  BY <1>1, <1>6
<1>10. /\ recvq'[Master][c] = recvq[Master][c] \o out
       /\ DOMAIN recvq'[Master] = Channel
       /\ \A x \in Channel : x # c => recvq'[Master][x] = recvq[Master][x]
  BY <1>3, <1>6, <1>9
<1>11. CASE r.out = <<>> /\ \A v \in Worker : r.state.queue[v] = Pushed(match[c], v, w, m.bytes)
  <2>1. out = <<>>
    BY <1>11 DEF out
  <2>2. recvq'[Master][c] = recvq[Master][c]
    <3>1. recvq[Master][c] \in Seq(Round)
      BY <1>3, <1>6
    <3> QED BY <1>10, <2>1, <3>1, ConcatEmptySeq
  <2>3. recvq'[Master] \in [Channel -> Seq(Round)]
    BY <1>6, <1>9, <1>10, <2>2
  <2> QED BY <1>1, <1>2, <1>3, <1>5, <1>8, <1>9, <1>10, <1>11, <2>2, <2>3 DEF c, m, w
<1>12. ASSUME NEW h \in [Worker -> Payload], r.out = <<h>>,
              \A v \in Worker :
                LET s == Pushed(match[c], v, w, m.bytes) IN
                s # <<>> /\ h[v] = Head(s) /\ r.state.queue[v] = Tail(s)
       PROVE  /\ recvq'[Master] \in [Channel -> Seq(Round)]
              /\ \E g \in Round :
                   /\ recvq'[Master][c] = Append(recvq[Master][c], g)
                   /\ \A v \in Worker :
                        LET s == Pushed(match[c], v, w, m.bytes) IN
                        s # <<>> /\ g[v] = Head(s) /\ match'[c].queue[v] = Tail(s)
  <2> DEFINE g == OutMessages(h)
  <2>1. g \in Round /\ \A v \in Worker : g[v] = h[v]
    BY PartyFacts DEF OutMessages, Round, Party
  <2> HIDE DEF g
  <2>2. out = <<g>>
    BY <1>12 DEF out, g
  <2>3. recvq[Master][c] \in Seq(Round)
    BY <1>3, <1>6
  <2>4. /\ recvq'[Master][c] = Append(recvq[Master][c], g)
        /\ recvq'[Master][c] \in Seq(Round)
    BY <1>10, <2>1, <2>2, <2>3, AppendIsConcat, AppendProperties
  <2>5. recvq'[Master] \in [Channel -> Seq(Round)]
    BY <1>3, <1>6, <1>9, <1>10, <2>4
  <2> QED BY <1>8, <1>12, <2>1, <2>4, <2>5
<1> QED BY <1>1, <1>2, <1>3, <1>5, <1>8, <1>9, <1>10, <1>11, <1>12 DEF c, m, w

\* The master's receive thread routes a message through the matcher: a worker's
\* payload is ready, in a round or in its queue.
LEMMA ParseMasterPipes ==
  ASSUME IInv, ParseMaster
  PROVE  Pipes'
<1>0. PICK m, w : m = Head(inbuf[Master]) /\ w = from[Master]
  OBVIOUS
<1> DEFINE c == m.ch
<1> USE PipesOf
<1>1. /\ m \in Message /\ m.bytes \in Payload /\ c \in Channel /\ w \in Worker
      /\ inbuf[Master] # <<>>
      /\ inbuf' = [inbuf EXCEPT ![Master] = Tail(@)]
      /\ UNCHANGED <<mainVars, proc, sendVars, sock, from>>
      /\ \A q \in Party : q # Master => recvq'[q] = recvq[q]
      /\ \A x \in Channel : x # c =>
           match'[x] = match[x] /\ recvq'[Master][x] = recvq[Master][x]
  BY <1>0, ParseMasterFacts DEF Message
<1>2. ASSUME NEW v \in Worker
      PROVE  Ready(v, Master, c)' = IF v = w THEN Append(Ready(v, Master, c), m.bytes)
                                    ELSE Ready(v, Master, c)
  <2> DEFINE s == recvq[Master][c]
             u == match[c].queue[v]
             e == Pushed(match[c], v, w, m.bytes)
  <2>1. s \in Seq(Round) /\ u \in Seq(Payload)
    BY <1>1 DEF TypeOK, Matcher
  <2>2. e \in Seq(Payload) /\ e = IF v = w THEN Append(u, m.bytes) ELSE u
    BY <1>1, <2>1 DEF Pushed
  <2>3. \/ recvq'[Master][c] = s /\ match'[c].queue[v] = e
        \/ \E h \in Round : /\ recvq'[Master][c] = Append(s, h)
                            /\ e # <<>> /\ h[v] = Head(e) /\ match'[c].queue[v] = Tail(e)
    BY <1>0, ParseMasterFacts
  <2>4. Ready(v, Master, c)' = Column(recvq'[Master][c], v) \o match'[c].queue[v]
    BY DEF Ready, Column
  <2>5. Ready(v, Master, c) = Column(s, v) \o u
    BY ReadyColumn, <1>1
  <2>6. Column(s, v) \in Seq(Payload)
    BY <2>1, ColumnType
  <2> HIDE DEF s, u, e
  <2>7. Ready(v, Master, c)' = Column(s, v) \o e
    <3>1. CASE recvq'[Master][c] = s /\ match'[c].queue[v] = e
      BY <2>4, <3>1
    <3>2. ASSUME NEW h \in Round, recvq'[Master][c] = Append(s, h), e # <<>>, h[v] = Head(e),
                 match'[c].queue[v] = Tail(e)
          PROVE  Ready(v, Master, c)' = Column(s, v) \o e
      <4>1. Ready(v, Master, c)' = Append(Column(s, v), Head(e)) \o Tail(e)
        BY <2>1, <2>4, <3>2, ColumnAppend
      <4>2. Head(e) \in Payload /\ Tail(e) \in Seq(Payload) /\ <<Head(e)>> \in Seq(Payload)
        BY <2>2, <3>2, HeadTailProperties
      <4>3. Append(Column(s, v), Head(e)) = Column(s, v) \o <<Head(e)>>
        BY <2>6, <4>2, AppendIsConcat
      <4>4. (Column(s, v) \o <<Head(e)>>) \o Tail(e) = Column(s, v) \o (<<Head(e)>> \o Tail(e))
        BY <2>6, <4>2, ConcatAssociative
      <4> QED BY <2>2, <3>2, <4>1, <4>3, <4>4, HeadThenTail
    <3> QED BY <2>3, <3>1, <3>2
  <2>8. CASE v = w
    <3>1. Column(s, v) \o Append(u, m.bytes) = Append(Column(s, v) \o u, m.bytes)
      BY <1>1, <2>1, <2>6, ConcatAppend
    <3> QED BY <2>2, <2>5, <2>7, <2>8, <3>1
  <2>9. CASE v # w
    BY <2>2, <2>5, <2>7, <2>9
  <2> QED BY <2>8, <2>9
<1> HIDE DEF c
<1>3. ASSUME NEW a \in Party, NEW b \in Peers(a), NEW x \in Channel
      PROVE  Ready(a, b, x)' = IF a = w /\ b = Master /\ x = c
                               THEN Append(Ready(a, b, x), m.bytes) ELSE Ready(a, b, x)
  <2>1. b \in Party /\ (b = Master => a \in Worker)
    BY PartyFacts
  <2>2. CASE b # Master
    BY <1>1, <2>1, <2>2 DEF Ready
  <2>3. CASE b = Master /\ x # c
    BY <1>1, <2>3 DEF Ready
  <2>4. CASE b = Master /\ x = c
    BY <1>2, <2>1, <2>4
  <2> QED BY <2>2, <2>3, <2>4
<1>4. w \in Party /\ Master \in Peers(w)
  BY <1>1, PartyFacts
<1> QED BY <1>0, <1>1, <1>3, <1>4, Parsed DEF c
-----------------------------------------------------------------------------
(* Steps that move messages along the flow, or none at all.                *)
\* A step that leaves each flow and what is ready as they are keeps the pipes.
LEMMA FlowStays ==
  ASSUME IInv, UNCHANGED <<mainVars, match, recvq>>,
         \A p \in Party : proc[p] = "aborted" <=> proc'[p] = "aborted",
         \A p \in Party : \A q \in Peers(p) : proc[q] # "aborted" => Flow(p, q)' = Flow(p, q)
  PROVE  Pipes'
<1>1. prog' = prog /\ pos' = pos /\ match' = match /\ recvq' = recvq
  BY DEF mainVars
<1>2. ASSUME NEW p \in Party, NEW q \in Peers(p), NEW c \in Channel, proc'[q] # "aborted"
      PROVE  Carries(Ready(p, q, c)', Flow(p, q)', c, Due(p, q, c)', proc'[p] = "aborted")
  <2>1. Ready(p, q, c)' = Ready(p, q, c) /\ Due(p, q, c)' = Due(p, q, c)
    BY <1>1 DEF Ready, Due
  <2> QED BY <1>2, <2>1, PartyFacts, PipesOf, PipesStay
<1> QED BY <1>2 DEF Pipes

\* The send thread has nothing to write when it holds no message.
LEMMA NothingWritten == DOMAIN NoFun = {}
BY DEF NoFun

\* The send thread takes an entry: what it writes to each peer was next for it.
LEMMA TakeEntryPipes ==
  ASSUME IInv, NEW p \in Party, TakeEntry(p)
  PROVE  Pipes'
<1> DEFINE e == Head(sendq[p])
           t == Tail(sendq[p])
<1> USE PipesOf
<1>1. /\ sendq[p] # <<>> /\ writing[p] = NoFun /\ e.data.kind # "Shutdown"
      /\ sendq' = [sendq EXCEPT ![p] = t]
      /\ writing' = [writing EXCEPT ![p] = [q \in Peers(p) |-> MessageTo(e, q)]]
      /\ UNCHANGED <<mainVars, proc, match, recvq, sock, inbuf, from>>
  BY DEF TakeEntry, SenderIdle, Entry, recvVars
<1>2. /\ sendq'[p] = t /\ \A q \in Party : q # p => sendq'[q] = sendq[q] /\ writing'[q] = writing[q]
      /\ writing'[p] = [q \in Peers(p) |-> MessageTo(e, q)]
  BY <1>1 DEF TypeOK
<1> HIDE DEF e, t
<1>3. ASSUME NEW a \in Party, NEW b \in Peers(a)
      PROVE  Flow(a, b)' = Flow(a, b)
  <2>1. CASE a # p
    <3>1. sendq'[a] = sendq[a] /\ writing'[a] = writing[a]
      BY <1>2, <2>1
    <3>2. sock' = sock /\ inbuf' = inbuf /\ from' = from
      BY <1>1
    <3> QED BY <3>1, <3>2 DEF Flow, Unparsed, InWriting
  <2>2. CASE a = p
    <3>1. /\ MessagesTo(sendq[p], b) = <<MessageTo(e, b)>> \o MessagesTo(t, b)
          /\ MessagesTo(sendq[p], b) \in Seq(Message)
      BY <1>1, <2>2, PartyFacts, QueueTypes, MessagesToTail, MessagesToType DEF e, t
    <3>2. InWriting(p, b) = <<>>
      BY <1>1, NothingWritten DEF InWriting
    <3>3. InWriting(p, b)' = <<MessageTo(e, b)>>
      BY <1>2, <2>2 DEF InWriting
    <3>4. <<>> \o MessagesTo(sendq[p], b) = MessagesTo(sendq[p], b)
      BY <3>1, ConcatEmptySeq
    <3>5. Flow(p, b) = (Unparsed(p, b) \o sock[p][b]) \o (<<MessageTo(e, b)>> \o MessagesTo(t, b))
      BY <3>1, <3>2, <3>4 DEF Flow
    <3>6. Flow(p, b)' = (Unparsed(p, b) \o sock[p][b]) \o (<<MessageTo(e, b)>> \o MessagesTo(t, b))
      BY <1>1, <1>2, <3>3 DEF Flow, Unparsed
    <3> QED BY <2>2, <3>5, <3>6
  <2> QED BY <2>1, <2>2
<1> QED BY <1>1, <1>3, FlowStays

\* The send thread takes the Shutdown: nothing was behind it, nothing is lost.
LEMMA TakeShutdownPipes ==
  ASSUME IInv, NEW p \in Party, TakeShutdown(p)
  PROVE  Pipes'
<1> USE PipesOf
<1>1. /\ sendq[p] # <<>> /\ Head(sendq[p]).data.kind = "Shutdown"
      /\ sendq' = [sendq EXCEPT ![p] = Tail(@)]
      /\ UNCHANGED <<mainVars, proc, match, recvq, sock, inbuf, from, writing>>
  BY DEF TakeShutdown, SenderIdle, Entry, recvVars
<1>2. sendq'[p] = Tail(sendq[p]) /\ \A q \in Party : q # p => sendq'[q] = sendq[q]
  BY <1>1 DEF TypeOK
<1>3. ASSUME NEW a \in Party, NEW b \in Peers(a)
      PROVE  MessagesTo(sendq'[a], b) = MessagesTo(sendq[a], b)
  <2>1. CASE a # p
    BY <1>2, <2>1
  <2>2. CASE a = p
    <3>1. /\ MessagesTo(sendq[p], b) = <<>> /\ MessagesTo(Tail(sendq[p]), b) = <<>>
      BY <1>1, <2>2, PartyFacts, QueueTypes, MessagesToTail
    <3> QED BY <1>2, <2>2, <3>1
  <2> QED BY <2>1, <2>2
<1>4. ASSUME NEW a \in Party, NEW b \in Peers(a)
      PROVE  Flow(a, b)' = Flow(a, b)
  BY <1>1, <1>3 DEF Flow, Unparsed, InWriting
<1> QED BY <1>1, <1>4, FlowStays

\* deinit enqueues a Shutdown, which carries nothing.
LEMMA DeinitPipes ==
  ASSUME IInv, NEW p \in Party, Deinit(p)
  PROVE  Pipes'
<1> DEFINE e == [ch |-> MainChannel, data |-> Shutdown]
<1> USE PipesOf
<1>1. /\ proc[p] = "up" /\ proc' = [proc EXCEPT ![p] = "joining"]
      /\ sendq' = [sendq EXCEPT ![p] = Append(@, e)]
      /\ UNCHANGED <<mainVars, match, recvq, sock, inbuf, from, writing>>
  BY DEF Deinit, Enqueue, recvVars
<1>2. e \in Entries /\ e.data.kind = "Shutdown"
  BY ChannelAssumption DEF Entries, Datum, Shutdown
<1> HIDE DEF e
<1>3. /\ sendq'[p] = Append(sendq[p], e) /\ \A q \in Party : q # p => sendq'[q] = sendq[q]
      /\ \A q \in Party : proc'[q] = IF q = p THEN "joining" ELSE proc[q]
  BY <1>1 DEF TypeOK
<1>4. ASSUME NEW a \in Party, NEW b \in Peers(a)
      PROVE  MessagesTo(sendq'[a], b) = MessagesTo(sendq[a], b)
  BY <1>1, <1>2, <1>3, PartyFacts, QueueTypes, MessagesToAppend
<1>5. ASSUME NEW a \in Party, NEW b \in Peers(a)
      PROVE  Flow(a, b)' = Flow(a, b)
  BY <1>1, <1>4 DEF Flow, Unparsed, InWriting
<1> QED BY <1>1, <1>3, <1>5, FlowStays

\* The join of the send thread moves nothing.
LEMMA JoinSenderPipes ==
  ASSUME IInv, NEW p \in Party, JoinSender(p)
  PROVE  Pipes'
<1> USE PipesOf
<1>1. /\ proc[p] = "joining" /\ proc' = [proc EXCEPT ![p] = "exited"]
      /\ UNCHANGED <<mainVars, match, recvq, sock, inbuf, from, writing, sendq>>
  BY DEF JoinSender, recvVars, sendVars
<1>2. \A q \in Party : proc'[q] = IF q = p THEN "exited" ELSE proc[q]
  BY <1>1 DEF TypeOK
<1>3. ASSUME NEW a \in Party, NEW b \in Peers(a)
      PROVE  Flow(a, b)' = Flow(a, b)
  BY <1>1 DEF Flow, Unparsed, InWriting
<1> QED BY <1>1, <1>2, <1>3, FlowStays

\* The receive thread reads a socket to the end: the bytes go from the socket to
\* its buffer in their order.
LEMMA ReadEventPipes ==
  ASSUME IInv, NEW p \in Party, NEW q \in Peers(p), ReadEvent(p, q)
  PROVE  Pipes'
<1> USE PipesOf
<1>1. /\ from[p] = NoData /\ inbuf[p] = <<>>
      /\ inbuf' = [inbuf EXCEPT ![p] = sock[q][p]]
      /\ sock' = [sock EXCEPT ![q][p] = <<>>]
      /\ from' = [from EXCEPT ![p] = q]
      /\ UNCHANGED <<mainVars, proc, match, recvq, writing, sendq>>
  BY DEF ReadEvent, sendVars, Life, LifeOf
<1>2. p \in Peers(q) /\ q \in Party /\ p # q /\ q # NoData
  BY PartyFacts
<1>3. /\ inbuf'[p] = sock[q][p] /\ from'[p] = q /\ sock'[q][p] = <<>>
      /\ \A b \in Party : b # p => inbuf'[b] = inbuf[b] /\ from'[b] = from[b]
      /\ \A a, b \in Party : a # q \/ b # p => sock'[a][b] = sock[a][b]
  BY <1>1, <1>2 DEF TypeOK
<1>4. ASSUME NEW a \in Party, NEW b \in Peers(a)
      PROVE  (Unparsed(a, b) \o sock[a][b])' = Unparsed(a, b) \o sock[a][b]
  <2>1. b \in Party /\ a # NoData
    BY PartyFacts
  <2>2. CASE b # p
    BY <1>3, <2>1, <2>2 DEF Unparsed
  <2>3. CASE b = p /\ a # q
    BY <1>1, <1>3, <2>1, <2>3 DEF Unparsed
  <2>4. CASE b = p /\ a = q
    <3>1. sock[q][p] \in Seq(Message)
      BY <1>2 DEF TypeOK
    <3>2. Unparsed(q, p)' = sock[q][p] /\ Unparsed(q, p) = <<>>
      BY <1>1, <1>2, <1>3 DEF Unparsed
    <3>3. sock[q][p] \o <<>> = sock[q][p] /\ <<>> \o sock[q][p] = sock[q][p]
      BY <3>1, ConcatEmptySeq
    <3>4. (Unparsed(q, p) \o sock[q][p])' = sock[q][p] \o <<>>
      BY <1>3, <3>2
    <3> QED BY <2>4, <3>2, <3>3, <3>4
  <2> QED BY <2>2, <2>3, <2>4
<1>5. ASSUME NEW a \in Party, NEW b \in Peers(a)
      PROVE  Flow(a, b)' = Flow(a, b)
  BY <1>1, <1>4 DEF Flow, InWriting
<1> QED BY <1>1, <1>5, FlowStays

\* The end of a round of parsing leaves an empty buffer, whoever it belonged to.
LEMMA ParseDonePipes ==
  ASSUME IInv, NEW p \in Party, ParseDone(p)
  PROVE  Pipes'
<1> USE PipesOf
<1>1. /\ inbuf[p] = <<>> /\ from' = [from EXCEPT ![p] = NoData]
      /\ UNCHANGED <<mainVars, proc, match, recvq, writing, sendq, sock, inbuf>>
  BY DEF ParseDone, sendVars
<1>2. from'[p] = NoData /\ \A b \in Party : b # p => from'[b] = from[b]
  BY <1>1 DEF TypeOK
<1>3. ASSUME NEW a \in Party, NEW b \in Peers(a)
      PROVE  Unparsed(a, b)' = Unparsed(a, b)
  BY <1>1, <1>2, PartyFacts DEF Unparsed
<1>4. ASSUME NEW a \in Party, NEW b \in Peers(a)
      PROVE  Flow(a, b)' = Flow(a, b)
  BY <1>1, <1>3 DEF Flow, InWriting
<1> QED BY <1>1, <1>4, FlowStays

\* Nothing is on the way to a party that has returned from all its calls.
LEMMA NothingForFinished ==
  ASSUME IInv, NEW p \in Party, NEW q \in Peers(p), proc[q] # "aborted", Finished(q)
  PROVE  Flow(p, q) = <<>> /\ \A c \in Channel : Ready(p, q, c) = <<>>
<1> DEFINE f == Flow(p, q)
<1> USE PipesOf
<1>1. f \in Seq(Message)
  BY PipeTypes
<1>2. ASSUME NEW c \in Channel
      PROVE  DOMAIN Due(p, q, c) = {} /\ Ready(p, q, c) \in Seq(Payload)
  <2>1. /\ pos[p][c] \in Nat /\ pos[q][c] \in Nat /\ pos[p][c] =< Len(prog[c])
        /\ pos[q][c] = Len(prog[c])
    BY DueFacts DEF TypeOK, Finished
  <2>2. \A k \in Nat : ~(pos[q][c] < k /\ k =< pos[p][c])
    BY <2>1
  <2> QED BY <2>2, DueFacts, PipeTypes
<1>3. ASSUME NEW c \in Channel PROVE Ready(p, q, c) = <<>>
  <2> DEFINE r == Ready(p, q, c)
  <2>1. \A i \in DOMAIN r : FALSE
    BY <1>2 DEF Pipes, Carries
  <2>2. r \in Seq(Payload)
    BY <1>2
  <2> HIDE DEF r
  <2>3. r = <<>>
    <3>1. Len(r) \in Nat /\ DOMAIN r = 1..Len(r)
      BY <2>2, LenProperties
    <3>2. Len(r) = 0
      <4>1. 1 \notin DOMAIN r
        BY <2>1
      <4> QED BY <3>1, <4>1
    <3> QED BY <2>2, <3>2, EmptySeq
  <2> QED BY <2>3 DEF r
<1>4. \A j \in DOMAIN f : f[j].ch \in Channel
  BY <1>1, CarriesSeqs, EmptySeq DEF Payload
<1>5. \A j \in DOMAIN f, c \in Channel : f[j].ch # c
  BY <1>2 DEF Pipes, Carries
<1> HIDE DEF f
<1>6. f = <<>>
  BY <1>1, <1>4, <1>5, LenProperties, EmptySeq
<1> QED BY <1>3, <1>6 DEF f

\* A peer whose end is closed to a writer has died, or expects nothing.
LEMMA NothingForGone ==
  ASSUME IInv, NEW p \in Party, NEW q \in Peers(p), ~Open(q), q \in DOMAIN writing[p]
  PROVE  proc[q] = "aborted"
<1> USE PipesOf
<1>1. q \in Party
  BY PartyFacts
<1> SUFFICES ASSUME proc[q] # "aborted" PROVE FALSE
  OBVIOUS
<1>2. Finished(q)
  BY <1>1 DEF Open, Alive, Life, LifeOf, TypeOK
<1>3. Flow(p, q) = <<>>
  BY <1>2, NothingForFinished
<1> DEFINE s == Unparsed(p, q) \o sock[p][q]
           t == MessagesTo(sendq[p], q)
           o == InWriting(p, q) \o t
           m == writing[p][q]
<1>4. s \in Seq(Message) /\ t \in Seq(Message) /\ o \in Seq(Message) /\ Flow(p, q) = s \o o
  BY PipeTypes DEF Flow
<1>5. m \in Message /\ o = <<m>> \o t
  BY DEF InWriting, TypeOK
<1> HIDE DEF s, t, o, m
<1>6. Len(s) \in Nat /\ Len(t) \in Nat /\ Len(o) = 1 + Len(t) /\ Len(s \o o) = Len(s) + Len(o)
  <2>1. <<m>> \in Seq(Message) /\ Len(<<m>>) = 1
    BY <1>5
  <2> QED BY <1>4, <1>5, <2>1, ConcatProperties, LenProperties
<1>7. Len(<<>>) = 0
  OBVIOUS
<1> QED BY <1>3, <1>4, <1>6, <1>7
\* One message less is being written.
LEMMA WrittenFacts ==
  ASSUME TypeOK, NEW p \in Party, NEW q \in Peers(p), q \in DOMAIN writing[p], Written(p, q)
  PROVE  /\ InWriting(p, q) = <<writing[p][q]>> /\ InWriting(p, q)' = <<>>
         /\ \A a \in Party : \A b \in Peers(a) :
              a # p \/ b # q => InWriting(a, b)' = InWriting(a, b)
<1> DEFINE D == DOMAIN writing[p] \ {q}
<1>1. writing' = [writing EXCEPT ![p] = [x \in D |-> writing[p][x]]] /\ DOMAIN writing = Party
  BY DEF Written, Restrict, TypeOK
<1>2. writing'[p] = [x \in D |-> writing[p][x]] /\ \A a \in Party : a # p => writing'[a] = writing[a]
  BY <1>1
<1>3. InWriting(p, q) = <<writing[p][q]>> /\ InWriting(p, q)' = <<>>
  BY <1>2 DEF InWriting
<1>4. ASSUME NEW a \in Party, NEW b \in Peers(a), a # p \/ b # q
      PROVE  InWriting(a, b)' = InWriting(a, b)
  <2>1. CASE a # p
    BY <1>2, <2>1 DEF InWriting
  <2>2. CASE a = p /\ b # q
    BY <1>2, <2>2 DEF InWriting
  <2> QED BY <1>4, <2>1, <2>2
<1> QED BY <1>3, <1>4

\* The send thread writes a message to a socket, or skips a peer that is gone.
LEMMA WritePipes ==
  ASSUME IInv, NEW p \in Party, NEW q \in Peers(p), q \in DOMAIN writing[p], Written(p, q),
         \/ sock' = [sock EXCEPT ![p][q] = Append(@, writing[p][q])]
         \/ ~Open(q) /\ UNCHANGED sock
  PROVE  Pipes'
<1> DEFINE m == writing[p][q]
<1> USE PipesOf
<1>1. UNCHANGED <<mainVars, proc, match, recvq, inbuf, from, sendq>>
  BY DEF Written, recvVars
<1>2. q \in Party
  BY PartyFacts
<1>3. ASSUME NEW a \in Party, NEW b \in Peers(a), a # p \/ b # q
      PROVE  sock'[a][b] = sock[a][b]
  <2>1. b \in Party
    BY PartyFacts
  <2>2. DOMAIN sock = Party /\ \A x \in Party : DOMAIN sock[x] = Party
    BY DEF TypeOK
  <2>3. CASE sock' = [sock EXCEPT ![p][q] = Append(@, m)]
    <3> HIDE DEF m
    <3> QED BY <1>2, <1>3, <2>1, <2>2, <2>3
  <2> QED BY <2>3
<1>4. ASSUME NEW a \in Party, NEW b \in Peers(a), a # p \/ b # q
      PROVE  Flow(a, b)' = Flow(a, b)
  BY <1>1, <1>3, <1>4, WrittenFacts DEF Flow, Unparsed
<1>5. CASE ~Open(q)
  <2>1. proc[q] = "aborted"
    BY <1>5, NothingForGone
  <2> QED BY <1>1, <1>4, <2>1, FlowStays
<1>6. CASE sock' = [sock EXCEPT ![p][q] = Append(@, writing[p][q])]
  <2> DEFINE u == Unparsed(p, q)
             s == sock[p][q]
             t == MessagesTo(sendq[p], q)
  <2>1. /\ u \in Seq(Message) /\ s \in Seq(Message) /\ t \in Seq(Message) /\ m \in Message
        /\ u \o s \in Seq(Message) /\ <<m>> \in Seq(Message)
    <3>1. m \in Message
      BY DEF TypeOK
    <3> HIDE DEF m
    <3> QED BY <3>1, PipeTypes
  <2>2. sock'[p][q] = Append(s, m)
    BY <1>2, <1>6 DEF TypeOK
  <2>3. Flow(p, q) = (u \o s) \o (<<m>> \o t)
    BY WrittenFacts DEF Flow
  <2>4. Flow(p, q)' = (u \o Append(s, m)) \o (<<>> \o t)
    BY <1>1, <2>2, WrittenFacts DEF Flow, Unparsed
  <2> HIDE DEF u, s, t, m
  <2>5. u \o Append(s, m) = (u \o s) \o <<m>>
    BY <2>1, ConcatAppend, AppendIsConcat
  <2>6. <<>> \o t = t
    BY <2>1, ConcatEmptySeq
  <2>7. ((u \o s) \o <<m>>) \o t = (u \o s) \o (<<m>> \o t)
    BY <2>1, ConcatAssociative
  <2>8. Flow(p, q)' = Flow(p, q)
    BY <2>3, <2>4, <2>5, <2>6, <2>7
  <2> QED BY <1>1, <1>4, <2>8, FlowStays
<1> QED BY <1>5, <1>6

\* The death of p: its peers get what it sent first.
LEMMA AbortPipes ==
  ASSUME IInv, NEW p \in Party, Alive(p), Abort(p)
  PROVE  Pipes'
<1> USE PipesOf
<1>1. /\ proc' = [proc EXCEPT ![p] = "aborted"] /\ sendq' = [sendq EXCEPT ![p] = <<>>]
      /\ writing' = [writing EXCEPT ![p] = NoFun] /\ inbuf' = [inbuf EXCEPT ![p] = <<>>]
      /\ from' = [from EXCEPT ![p] = NoData]
      /\ recvq' = [recvq EXCEPT ![p] = [c \in Channel |-> <<>>]]
      /\ UNCHANGED <<mainVars, match>>
  BY DEF Abort
<1>2. PICK kept \in [Party -> 0..SockCap] :
        /\ \A q \in Party : kept[q] =< Len(sock[p][q])
        /\ sock' = [s \in Party |-> [q \in Party |->
                     IF s = p THEN SubSeq(sock[p][q], 1, kept[q])
                     ELSE IF q = p THEN <<>> ELSE sock[s][q]]]
  BY DEF Abort
<1>3. /\ proc'[p] = "aborted" /\ sendq'[p] = <<>> /\ writing'[p] = NoFun
      /\ \A q \in Party : q # p =>
           /\ proc'[q] = proc[q] /\ sendq'[q] = sendq[q] /\ writing'[q] = writing[q]
           /\ inbuf'[q] = inbuf[q] /\ from'[q] = from[q] /\ recvq'[q] = recvq[q]
  BY <1>1 DEF TypeOK
<1>4. ASSUME NEW a \in Party, NEW b \in Peers(a), b # p, NEW c \in Channel
      PROVE  Ready(a, b, c)' = Ready(a, b, c) /\ Due(a, b, c)' = Due(a, b, c)
  <2>1. b \in Party
    BY PartyFacts
  <2>2. recvq'[b] = recvq[b] /\ match' = match /\ prog' = prog /\ pos' = pos
    BY <1>1, <1>3, <1>4, <2>1 DEF mainVars
  <2> QED BY <2>2 DEF Ready, Due
<1>5. ASSUME NEW a \in Party, NEW b \in Peers(a), b # p, a # p
      PROVE  Flow(a, b)' = Flow(a, b)
  <2>1. b \in Party
    BY PartyFacts
  <2>2. sock'[a][b] = sock[a][b]
    BY <1>2, <1>5, <2>1
  <2>3. Unparsed(a, b)' = Unparsed(a, b)
    BY <1>3, <1>5, <2>1 DEF Unparsed
  <2>4. InWriting(a, b)' = InWriting(a, b) /\ sendq'[a] = sendq[a]
    BY <1>3, <1>5 DEF InWriting
  <2> QED BY <2>2, <2>3, <2>4 DEF Flow
<1>6. ASSUME NEW b \in Peers(p)
      PROVE  /\ Flow(p, b)' \in Seq(Message) /\ Len(Flow(p, b)') =< Len(Flow(p, b))
             /\ \A j \in 1..Len(Flow(p, b)') : Flow(p, b)'[j] = Flow(p, b)[j]
  <2> DEFINE u == Unparsed(p, b)
             s == sock[p][b]
             o == InWriting(p, b) \o MessagesTo(sendq[p], b)
             k == SubSeq(s, 1, kept[b])
             f == (u \o s) \o o
             g == u \o k
  <2>1. b \in Party /\ b # p
    BY PartyFacts
  <2>2. /\ u \in Seq(Message) /\ s \in Seq(Message) /\ o \in Seq(Message)
        /\ u \o s \in Seq(Message) /\ Flow(p, b) = f
    BY PipeTypes DEF Flow
  <2>3. kept[b] \in Nat /\ kept[b] =< Len(s)
    BY <1>2, <2>1
  <2>4. sock'[p][b] = k
    BY <1>2, <2>1
  <2>5. Unparsed(p, b)' = u
    BY <1>3, <2>1 DEF Unparsed
  <2>6. InWriting(p, b)' = <<>>
    BY <1>3, NothingWritten DEF InWriting
  <2>7. MessagesTo(<<>>, b) = <<>>
    <3>1. <<>> \in Seq(Entries) /\ Ends(<<>>)
      BY EmptySeq DEF Ends
    <3>2. MessagesTo(<<>>, b) = [i \in 1..0 |-> MessageTo(<<>>[i], b)]
      BY DEF MessagesTo
    <3>3. MessagesTo(<<>>, b) \in Seq(Message)
      BY <2>1, <3>1, MessagesToType
    <3>4. Len(MessagesTo(<<>>, b)) = 0
      BY <3>2, <3>3, LenProperties
    <3> QED BY <3>3, <3>4, EmptySeq
  <2> HIDE DEF s, u, o
  <2>8. /\ k \in Seq(Message) /\ Len(k) = kept[b] /\ \A i \in 1..kept[b] : k[i] = s[i]
        /\ Len(s) \in Nat /\ Len(u) \in Nat /\ Len(o) \in Nat
    <3>1. Len(s) \in Nat /\ \A i \in 1..kept[b] : s[i] \in Message
      BY <2>2, <2>3, LenProperties, ElementOfSeq
    <3>2. k = [i \in 1..kept[b] |-> s[i]]
      BY <2>2, <2>3, <3>1
    <3> HIDE DEF k
    <3>3. k \in [1..kept[b] -> Message]
      BY <3>1, <3>2
    <3>4. k \in Seq(Message)
      BY <2>3, <3>3, SeqDef
    <3> QED BY <2>2, <2>3, <3>1, <3>2, <3>4, LenProperties
  <2> HIDE DEF k
  <2>9. Flow(p, b)' = (u \o k) \o (<<>> \o <<>>)
    BY <1>3, <2>4, <2>5, <2>6, <2>7 DEF Flow
  <2>10. g \in Seq(Message) /\ Flow(p, b)' = g
    <3>1. g \in Seq(Message)
      BY <2>2, <2>8, ConcatProperties
    <3>2. <<>> \o <<>> = <<>> /\ <<>> \in Seq(Message)
      BY ConcatEmptySeq, EmptySeq
    <3>3. g \o <<>> = g
      BY <3>1, ConcatEmptySeq
    <3> HIDE DEF g
    <3> QED BY <2>9, <3>1, <3>2, <3>3 DEF g
  <2>11. /\ Len(g) = Len(u) + Len(k)
         /\ \A i \in 1..(Len(u) + Len(k)) : g[i] = IF i =< Len(u) THEN u[i] ELSE k[i - Len(u)]
    BY <2>2, <2>8, ConcatProperties
  <2>12. /\ Len(u \o s) = Len(u) + Len(s)
         /\ \A i \in 1..(Len(u) + Len(s)) : (u \o s)[i] = IF i =< Len(u) THEN u[i] ELSE s[i - Len(u)]
    BY <2>2, ConcatProperties
  <2>13. /\ Len(f) = Len(u) + Len(s) + Len(o)
         /\ \A i \in 1..(Len(u) + Len(s)) : f[i] = (u \o s)[i]
    <3> DEFINE us == u \o s
    <3>1. us \in Seq(Message) /\ Len(us) = Len(u) + Len(s)
      BY <2>2, <2>12
    <3> HIDE DEF us
    <3>2. /\ Len(us \o o) = Len(us) + Len(o)
          /\ \A i \in 1..(Len(us) + Len(o)) : (us \o o)[i] = IF i =< Len(us) THEN us[i] ELSE o[i - Len(us)]
      BY <2>2, <3>1, ConcatProperties, ZenonT(40)
    <3> QED BY <2>8, <3>1, <3>2 DEF us
  <2> HIDE DEF f, g
  <2>14. Len(g) =< Len(f)
    BY <2>3, <2>8, <2>11, <2>13
  <2>15. ASSUME NEW j \in 1..Len(g) PROVE g[j] = f[j]
    <3>1. j \in 1..(Len(u) + Len(s)) /\ j \in 1..(Len(u) + Len(k))
      BY <2>3, <2>8, <2>11
    <3>2. CASE j =< Len(u)
      BY <2>11, <2>12, <2>13, <3>1, <3>2
    <3>3. CASE ~(j =< Len(u))
      <4>1. j - Len(u) \in 1..kept[b]
        BY <2>3, <2>8, <3>1, <3>3
      <4> QED BY <2>8, <2>11, <2>12, <2>13, <3>1, <3>3, <4>1
    <3> QED BY <3>2, <3>3
  <2> QED BY <2>2, <2>10, <2>14, <2>15
<1>7. ASSUME NEW a \in Party, NEW b \in Peers(a), NEW c \in Channel, proc'[b] # "aborted"
      PROVE  Carries(Ready(a, b, c)', Flow(a, b)', c, Due(a, b, c)', proc'[a] = "aborted")
  <2>1. b # p /\ b \in Party /\ proc[b] # "aborted"
    BY <1>3, <1>7, PartyFacts
  <2>2. CASE a # p
    BY <1>3, <1>4, <1>5, <1>7, <2>1, <2>2, PipesStay
  <2>3. CASE a = p
    <3> DEFINE r == Ready(p, b, c)
               f == Flow(p, b)
               g == Flow(p, b)'
               due == Due(p, b, c)
               cut == proc[p] = "aborted"
    <3>1. /\ r \in Seq(Payload) /\ f \in Seq(Message) /\ Carries(r, f, c, due, cut) /\ cut \in BOOLEAN
      BY <2>1, <2>3, PipeTypes DEF Pipes
    <3>2. g \in Seq(Message) /\ Len(g) =< Len(f) /\ \A j \in 1..Len(g) : g[j] = f[j]
      BY <1>6, <2>3
    <3>3. Ready(p, b, c)' = r /\ Due(p, b, c)' = due /\ (proc'[p] = "aborted") = TRUE
      BY <1>3, <1>4, <2>1, <2>3
    <3> HIDE DEF r, f, g, due, cut
    <3>4. Carries(r, g, c, due, TRUE)
      BY <3>1, <3>2, CarriesCut, ZenonT(40)
    <3> QED BY <2>3, <3>3, <3>4 DEF g
  <2> QED BY <2>2, <2>3
<1> QED BY <1>7 DEF Pipes
-----------------------------------------------------------------------------
(* The types, and what else a step leaves true.                            *)
CallTypes ==
  /\ prog \in [Channel -> Programs]
  /\ pos \in [Party -> [Channel -> Nat]]
  /\ \A p \in Party, c \in Channel : pos[p][c] =< Len(prog[c])
  /\ DOMAIN ret = Party /\ \A p \in Party : DOMAIN ret[p] = Channel
  /\ proc \in [Party -> {"up", "joining", "exited", "aborted"}]
SendTypes ==
  /\ sendq \in [Party -> Seq(Entries)]
  /\ \A w \in Worker : \A i \in DOMAIN sendq[w] : sendq[w][i].data.kind # "Multi"
  /\ DOMAIN writing = Party
  /\ \A p \in Party : /\ DOMAIN writing[p] \subseteq Peers(p)
                       /\ writing[p] \in [DOMAIN writing[p] -> Message]
  /\ shut \in [Party -> BOOLEAN]
SockTypes ==
  /\ sock \in [Party -> [Party -> Seq(Message)]]
  /\ \A p, q \in Party : Len(sock[p][q]) =< SockCap
ReadTypes ==
  /\ inbuf \in [Party -> Seq(Message)]
  /\ DOMAIN from = Party /\ \A p \in Party : from[p] \in Peers(p) \cup {NoData}
  /\ DOMAIN closed = Party /\ \A p \in Party : closed[p] \subseteq Peers(p)
ReadyTypes ==
  /\ match \in [Channel -> Matcher]
  /\ DOMAIN recvq = Party
  /\ recvq[Master] \in [Channel -> Seq(Round)]
  /\ \A w \in Worker : recvq[w] \in [Channel -> Seq(Payload)]

\* The type invariant, by the steps that change each part.
LEMMA TypeGroups ==
  /\ TypeOK <=> CallTypes /\ SendTypes /\ SockTypes /\ ReadTypes /\ ReadyTypes
  /\ TypeOK' <=> CallTypes' /\ SendTypes' /\ SockTypes' /\ ReadTypes' /\ ReadyTypes'
<1>1. TypeOK <=> CallTypes /\ SendTypes /\ SockTypes /\ ReadTypes /\ ReadyTypes
  BY Zenon DEF TypeOK, CallTypes, SendTypes, SockTypes, ReadTypes, ReadyTypes, Entries
<1> QED BY <1>1, PTL

Shape == TypeOK /\ Life /\ \A c \in Channel : Settled(match[c])

\* A step that keeps what LifeOf reads of a party keeps LifeOf.
LEMMA LifeStep ==
  ASSUME Life, NEW p \in Party, prog' = prog,
         \A q \in Party : q # p =>
           /\ pos'[q] = pos[q] /\ proc'[q] = proc[q] /\ shut'[q] = shut[q]
           /\ sendq'[q] = sendq[q] /\ writing'[q] = writing[q]
           /\ from'[q] = from[q] /\ inbuf'[q] = inbuf[q],
         LifeOf(p)'
  PROVE  Life'
<1>1. ASSUME NEW q \in Party, q # p PROVE LifeOf(q)'
  BY <1>1 DEF Life, LifeOf, Finished
<1> QED BY <1>1 DEF Life

\* A call that sends keeps the types and the life cycle.
LEMMA EnqueueShape ==
  ASSUME IInv, NEW p \in Party, NEW c \in Channel, NEW o, Calls(p, c, o),
         NEW v, Returns(p, c, v),
         NEW d \in Datum, d.kind # "Shutdown", p \in Worker => d.kind # "Multi", Enqueue(p, c, d)
  PROVE  Shape'
<1> DEFINE e == [ch |-> c, data |-> d]
           s == sendq[p]
           t == sendq'[p]
<1> USE PipesOf
<1>1. /\ sendq' = [sendq EXCEPT ![p] = Append(@, e)]
      /\ UNCHANGED <<writing, shut, sock, inbuf, from, closed, match, recvq>>
  BY DEF Enqueue, recvVars
<1>2. /\ proc[p] = "up" /\ proc' = proc /\ prog' = prog
      /\ \A q \in Party, x \in Channel : q # p \/ x # c => pos'[q][x] = pos[q][x]
      /\ pos' \in [Party -> [Channel -> Nat]]
      /\ \A q \in Party, x \in Channel : pos'[q][x] =< Len(prog'[x])
      /\ DOMAIN ret' = Party /\ \A q \in Party : DOMAIN ret'[q] = Channel
  BY CallFacts
<1>3. e \in Entries /\ e.data = d
  BY DEF Entries
<1>4. s \in Seq(Entries) /\ \A i \in DOMAIN s : s[i].data.kind # "Shutdown"
  BY <1>2, QueueTypes
<1>5. t = Append(s, e) /\ \A q \in Party : q # p => sendq'[q] = sendq[q]
  BY <1>1 DEF TypeOK
<1> HIDE DEF e, s, t
<1>6. /\ t \in Seq(Entries) /\ Len(s) \in Nat /\ Len(t) = Len(s) + 1
      /\ DOMAIN t = 1..(Len(s) + 1) /\ DOMAIN s = 1..Len(s)
      /\ \A i \in DOMAIN t : (i \in DOMAIN s /\ t[i] = s[i]) \/ t[i] = e
  BY <1>3, <1>4, <1>5, AppendProperties, LenProperties
<1>7. /\ \A i \in DOMAIN t : t[i].data.kind # "Shutdown"
      /\ p \in Worker => \A i \in DOMAIN t : t[i].data.kind # "Multi"
  BY <1>3, <1>4, <1>6 DEF TypeOK, s
<1>8. sendq' \in [Party -> Seq(Entries)]
  BY <1>1, <1>5, <1>6 DEF TypeOK, Entries, t
<1>9. \A w \in Worker : \A i \in DOMAIN sendq'[w] : sendq'[w][i].data.kind # "Multi"
  <2> SUFFICES ASSUME NEW w \in Worker
               PROVE  \A i \in DOMAIN sendq'[w] : sendq'[w][i].data.kind # "Multi"
    OBVIOUS
  <2>1. CASE w = p
    BY <1>7, <2>1 DEF t
  <2>2. CASE w # p
    <3>1. sendq'[w] = sendq[w]
      BY <1>5, <2>2, PartyFacts
    <3> QED BY <3>1 DEF TypeOK
  <2> QED BY <2>1, <2>2
<1>10. TypeOK'
  BY <1>1, <1>2, <1>8, <1>9 DEF TypeOK, Entries
<1>11. Life'
  <2>1. LifeOf(p)'
    BY <1>1, <1>2, <1>7 DEF Life, LifeOf, Ends, t
  <2>2. \A q \in Party : q # p => pos'[q] = pos[q]
    BY <1>2 DEF TypeOK
  <2> QED BY <1>1, <1>2, <1>5, <2>1, <2>2, LifeStep
<1> QED BY <1>1, <1>10, <1>11 DEF Shape

\* A call that receives keeps the types and the life cycle.
LEMMA DequeueShape ==
  ASSUME IInv, NEW p \in Party, NEW c \in Channel, NEW o, Calls(p, c, o),
         NEW v, Returns(p, c, v), recvq[p][c] # <<>>, Dequeue(p, c)
  PROVE  Shape'
<1> USE PipesOf
<1>1. /\ recvq' = [recvq EXCEPT ![p][c] = Tail(@)]
      /\ UNCHANGED <<writing, shut, sock, inbuf, from, closed, match, sendq>>
  BY DEF Dequeue, sendVars
<1>2. /\ proc[p] = "up" /\ proc' = proc /\ prog' = prog
      /\ \A q \in Party, x \in Channel : q # p \/ x # c => pos'[q][x] = pos[q][x]
      /\ pos' \in [Party -> [Channel -> Nat]]
      /\ \A q \in Party, x \in Channel : pos'[q][x] =< Len(prog'[x])
      /\ DOMAIN ret' = Party /\ \A q \in Party : DOMAIN ret'[q] = Channel
  BY CallFacts
<1>3. /\ DOMAIN recvq' = Party /\ \A q \in Party : q # p => recvq'[q] = recvq[q]
      /\ recvq'[p] = [recvq[p] EXCEPT ![c] = Tail(@)]
  BY <1>1 DEF TypeOK
<1>4. /\ recvq'[Master] \in [Channel -> Seq(Round)]
      /\ \A w \in Worker : recvq'[w] \in [Channel -> Seq(Payload)]
  <2>1. CASE p = Master
    <3>1. recvq[Master][c] \in Seq(Round) /\ Tail(recvq[Master][c]) \in Seq(Round)
      BY <2>1, HeadTailProperties DEF TypeOK
    <3>2. recvq'[Master] \in [Channel -> Seq(Round)]
      BY <1>3, <2>1, <3>1 DEF TypeOK
    <3>3. \A w \in Worker : recvq'[w] = recvq[w]
      BY <1>3, <2>1, PartyFacts
    <3> QED BY <3>2, <3>3 DEF TypeOK
  <2>2. CASE p # Master
    <3>1. p \in Worker
      BY <2>2, PartyFacts
    <3>2. recvq[p][c] \in Seq(Payload) /\ Tail(recvq[p][c]) \in Seq(Payload)
      BY <3>1, HeadTailProperties DEF TypeOK
    <3>3. recvq'[p] \in [Channel -> Seq(Payload)]
      BY <1>3, <3>1, <3>2 DEF TypeOK
    <3>4. recvq'[Master] = recvq[Master]
      BY <1>3, <2>2, PartyFacts
    <3>5. ASSUME NEW w \in Worker PROVE recvq'[w] \in [Channel -> Seq(Payload)]
      BY <1>3, <3>3, PartyFacts DEF TypeOK
    <3> QED BY <3>4, <3>5 DEF TypeOK
  <2> QED BY <2>1, <2>2
<1>5. TypeOK'
  <2>1. CallTypes' /\ SendTypes' /\ SockTypes' /\ ReadTypes'
    BY <1>1, <1>2, TypeGroups DEF CallTypes, SendTypes, SockTypes, ReadTypes
  <2>2. ReadyTypes'
    BY <1>1, <1>3, <1>4, TypeGroups DEF ReadyTypes
  <2> QED BY <2>1, <2>2, TypeGroups
<1>6. Life'
  <2>1. LifeOf(p)'
    BY <1>1, <1>2 DEF Life, LifeOf
  <2>2. \A q \in Party : q # p => pos'[q] = pos[q]
    BY <1>2 DEF TypeOK
  <2> QED BY <1>1, <1>2, <2>1, <2>2, LifeStep
<1> QED BY <1>1, <1>5, <1>6 DEF Shape
\* The send queue after its head is taken.
LEMMA QueueTail ==
  ASSUME Shape, NEW p \in Party, sendq[p] # <<>>, sendq' = [sendq EXCEPT ![p] = Tail(@)]
  PROVE  /\ sendq'[p] = Tail(sendq[p]) /\ \A q \in Party : q # p => sendq'[q] = sendq[q]
         /\ sendq' \in [Party -> Seq(Entries)] /\ Ends(sendq'[p])
         /\ \A w \in Worker : \A i \in DOMAIN sendq'[w] : sendq'[w][i].data.kind # "Multi"
         /\ \A i \in DOMAIN sendq'[p] : \E j \in DOMAIN sendq[p] : sendq'[p][i] = sendq[p][j]
<1> DEFINE s == sendq[p]
           t == Tail(s)
<1>1. sendq \in [Party -> Seq(Entries)]
  BY TypeGroups DEF Shape, SendTypes
<1>2. s \in Seq(Entries) /\ s # <<>> /\ Ends(s)
  BY QueueTypes DEF Shape
<1>3. sendq'[p] = t /\ \A q \in Party : q # p => sendq'[q] = sendq[q]
  BY <1>1
<1> HIDE DEF s
<1>4. /\ t \in Seq(Entries) /\ Len(t) = Len(s) - 1 /\ \A i \in 1..Len(t) : t[i] = s[i + 1]
      /\ DOMAIN t = 1..Len(t) /\ DOMAIN s = 1..Len(s) /\ Len(s) \in Nat
  BY <1>2, HeadTailProperties, LenProperties
<1>5. Ends(t)
  BY <1>2, MessagesToTail, PartyFacts
<1> HIDE DEF t
<1>6. \A i \in DOMAIN t : \E j \in DOMAIN s : t[i] = s[j]
  BY <1>4
<1>7. sendq' \in [Party -> Seq(Entries)]
  BY <1>1, <1>3, <1>4
<1>8. ASSUME NEW w \in Worker
      PROVE  \A i \in DOMAIN sendq'[w] : sendq'[w][i].data.kind # "Multi"
  <2>1. \A i \in DOMAIN sendq[w] : sendq[w][i].data.kind # "Multi"
    BY TypeGroups DEF Shape, SendTypes
  <2>2. CASE w = p
    BY <1>3, <1>6, <2>1, <2>2 DEF s
  <2>3. CASE w # p
    BY <1>3, <2>1, <2>3, PartyFacts
  <2> QED BY <2>2, <2>3
<1> QED BY <1>3, <1>5, <1>6, <1>7, <1>8 DEF s, t

\* The send thread taking an entry keeps the types and the life cycle.
LEMMA TakeEntryShape ==
  ASSUME Shape, NEW p \in Party, TakeEntry(p)
  PROVE  Shape'
<1>1. /\ Alive(p) /\ sendq[p] # <<>> /\ Head(sendq[p]).data.kind # "Shutdown"
      /\ sendq' = [sendq EXCEPT ![p] = Tail(@)]
      /\ writing' = [writing EXCEPT ![p] = [q \in Peers(p) |-> MessageTo(Head(sendq[p]), q)]]
      /\ UNCHANGED <<mainVars, proc, shut, sock, inbuf, from, closed, match, recvq>>
  BY DEF TakeEntry, SenderIdle, Entry, recvVars
<1>2. prog' = prog /\ pos' = pos /\ ret' = ret
  BY <1>1 DEF mainVars
<1>3. Head(sendq[p]) \in Entries
  BY <1>1, QueueTypes, HeadTailProperties DEF Shape
<1>4. \A q \in Peers(p) : MessageTo(Head(sendq[p]), q) \in Message
  BY <1>1, <1>3, EntryCarries, PartyFacts
<1>5. /\ DOMAIN writing' = Party /\ \A q \in Party : q # p => writing'[q] = writing[q]
      /\ writing'[p] = [q \in Peers(p) |-> MessageTo(Head(sendq[p]), q)]
  BY <1>1 DEF Shape, TypeOK
<1>6. ASSUME NEW q \in Party
      PROVE  DOMAIN writing'[q] \subseteq Peers(q) /\ writing'[q] \in [DOMAIN writing'[q] -> Message]
  <2>1. CASE q = p
    BY <1>4, <1>5, <2>1
  <2>2. CASE q # p
    BY <1>5, <2>2 DEF Shape, TypeOK
  <2> QED BY <2>1, <2>2
<1>7. TypeOK'
  <2>1. CallTypes' /\ SockTypes' /\ ReadTypes' /\ ReadyTypes'
    BY <1>1, <1>2, TypeGroups DEF Shape, CallTypes, SockTypes, ReadTypes, ReadyTypes
  <2>2. SendTypes'
    <3>1. shut' \in [Party -> BOOLEAN]
      BY <1>1 DEF Shape, TypeOK
    <3> QED BY <1>1, <1>5, <1>6, <3>1, QueueTail DEF SendTypes
  <2> QED BY <2>1, <2>2, TypeGroups
<1>8. Life'
  <2>1. ~shut[p]
    BY <1>1 DEF Shape, Life, LifeOf
  <2>2. /\ Ends(sendq'[p])
        /\ \A i \in DOMAIN sendq'[p] : \E j \in DOMAIN sendq[p] : sendq'[p][i] = sendq[p][j]
    BY <1>1, QueueTail
  <2>3. proc[p] = "up" => \A i \in DOMAIN sendq'[p] : sendq'[p][i].data.kind # "Shutdown"
    BY <2>2, QueueTypes DEF Shape
  <2>4. LifeOf(p)
    BY DEF Shape, Life
  <2>5. LifeOf(p)'
    BY <1>1, <1>2, <2>1, <2>2, <2>3, <2>4 DEF LifeOf, Finished
  <2> QED BY <1>1, <1>2, <1>5, <2>5, QueueTail, LifeStep DEF Shape
<1> QED BY <1>1, <1>7, <1>8 DEF Shape

\* The send thread taking the Shutdown keeps the types and the life cycle.
LEMMA TakeShutdownShape ==
  ASSUME Shape, NEW p \in Party, TakeShutdown(p)
  PROVE  Shape'
<1>1. /\ Alive(p) /\ sendq[p] # <<>> /\ Head(sendq[p]).data.kind = "Shutdown" /\ writing[p] = NoFun
      /\ sendq' = [sendq EXCEPT ![p] = Tail(@)]
      /\ shut' = [shut EXCEPT ![p] = TRUE]
      /\ UNCHANGED <<mainVars, proc, writing, sock, inbuf, from, closed, match, recvq>>
  BY DEF TakeShutdown, SenderIdle, Entry, recvVars
<1>2. prog' = prog /\ pos' = pos /\ ret' = ret
  BY <1>1 DEF mainVars
<1>3. /\ shut' \in [Party -> BOOLEAN] /\ shut'[p] = TRUE
      /\ \A q \in Party : q # p => shut'[q] = shut[q]
  BY <1>1 DEF Shape, TypeOK
<1>4. Tail(sendq[p]) = <<>>
  BY <1>1, QueueTypes, MessagesToTail, PartyFacts DEF Shape
<1>5. TypeOK'
  <2>1. CallTypes' /\ SockTypes' /\ ReadTypes' /\ ReadyTypes'
    BY <1>1, <1>2, TypeGroups DEF Shape, CallTypes, SockTypes, ReadTypes, ReadyTypes
  <2>2. SendTypes'
    BY <1>1, <1>3, QueueTail, TypeGroups DEF Shape, SendTypes
  <2> QED BY <2>1, <2>2, TypeGroups
<1>6. Life'
  <2>1. proc[p] # "up"
    <3>1. Len(sendq[p]) \in Nat /\ DOMAIN sendq[p] = 1..Len(sendq[p]) /\ Len(sendq[p]) # 0
      BY <1>1, QueueTypes, LenProperties, EmptySeq DEF Shape
    <3>2. 1 \in DOMAIN sendq[p] /\ sendq[p][1].data.kind = "Shutdown"
      BY <1>1, <3>1
    <3> QED BY <3>2, QueueTypes DEF Shape
  <2>2. LifeOf(p)'
    BY <1>1, <1>2, <1>3, <1>4, <2>1, QueueTail, ZenonT(40) DEF Shape, Life, LifeOf, Finished
  <2> QED BY <1>1, <1>2, <1>3, <2>2, QueueTail, LifeStep DEF Shape
<1> QED BY <1>1, <1>5, <1>6 DEF Shape

\* The send thread writing to a socket keeps the types and the life cycle.
LEMMA WriteShape ==
  ASSUME Shape, NEW p \in Party, NEW q \in Peers(p), q \in DOMAIN writing[p], Written(p, q),
         \/ /\ sock' = [sock EXCEPT ![p][q] = Append(@, writing[p][q])]
            /\ Len(sock[p][q]) < SockCap
         \/ UNCHANGED sock
  PROVE  Shape'
<1> DEFINE D == DOMAIN writing[p] \ {q}
           m == writing[p][q]
<1>1. /\ writing' = [writing EXCEPT ![p] = [x \in D |-> writing[p][x]]] /\ DOMAIN writing = Party
      /\ UNCHANGED <<mainVars, proc, shut, sendq, inbuf, from, closed, match, recvq>>
  BY DEF Written, Restrict, recvVars, Shape, TypeOK
<1>2. prog' = prog /\ pos' = pos /\ ret' = ret
  BY <1>1 DEF mainVars
<1>3. /\ DOMAIN writing' = Party /\ \A a \in Party : a # p => writing'[a] = writing[a]
      /\ writing'[p] = [x \in D |-> writing[p][x]]
  BY <1>1
<1>4. ASSUME NEW a \in Party
      PROVE  DOMAIN writing'[a] \subseteq Peers(a) /\ writing'[a] \in [DOMAIN writing'[a] -> Message]
  <2>1. CASE a = p
    BY <1>3, <2>1 DEF Shape, TypeOK
  <2>2. CASE a # p
    BY <1>3, <2>2 DEF Shape, TypeOK
  <2> QED BY <2>1, <2>2
<1>5. SockTypes'
  <2>1. q \in Party /\ SockTypes
    BY PartyFacts, TypeGroups DEF Shape
  <2>2. CASE UNCHANGED sock
    BY <2>1, <2>2 DEF SockTypes
  <2>3. CASE sock' = [sock EXCEPT ![p][q] = Append(@, m)] /\ Len(sock[p][q]) < SockCap
    <3>1. m \in Message
      BY DEF Shape, TypeOK
    <3> HIDE DEF m
    <3>2. sock[p][q] \in Seq(Message) /\ Len(sock[p][q]) \in Nat
      BY <2>1, LenProperties DEF SockTypes
    <3>3. /\ Append(sock[p][q], m) \in Seq(Message)
          /\ Len(Append(sock[p][q], m)) =< SockCap
      BY <2>3, <3>1, <3>2, AppendProperties, SockCapAssumption
    <3>4. sock' \in [Party -> [Party -> Seq(Message)]]
      BY <2>1, <2>3, <3>3 DEF SockTypes
    <3>5. \A a, b \in Party : sock'[a][b] = IF a = p /\ b = q THEN Append(sock[p][q], m) ELSE sock[a][b]
      BY <2>1, <2>3 DEF SockTypes
    <3> QED BY <2>1, <3>3, <3>4, <3>5 DEF SockTypes
  <2> QED BY <2>2, <2>3
<1>6. TypeOK'
  <2>1. CallTypes' /\ ReadTypes' /\ ReadyTypes'
    BY <1>1, <1>2, TypeGroups DEF Shape, CallTypes, ReadTypes, ReadyTypes
  <2>2. SendTypes'
    BY <1>1, <1>3, <1>4, TypeGroups DEF Shape, SendTypes
  <2> QED BY <1>5, <2>1, <2>2, TypeGroups
<1>7. Life'
  <2>1. ~shut[p]
    BY NothingWritten DEF Shape, Life, LifeOf
  <2>2. LifeOf(p)'
    BY <1>1, <1>2, <2>1 DEF Shape, Life, LifeOf, Finished
  <2> QED BY <1>1, <1>2, <1>3, <2>2, LifeStep DEF Shape
<1> QED BY <1>1, <1>6, <1>7 DEF Shape

\* deinit keeps the types and the life cycle: the Shutdown is the last entry.
LEMMA DeinitShape ==
  ASSUME Shape, NEW p \in Party, Deinit(p)
  PROVE  Shape'
<1> DEFINE e == [ch |-> MainChannel, data |-> Shutdown]
           s == sendq[p]
           t == sendq'[p]
<1>1. /\ proc[p] = "up" /\ Finished(p)
      /\ proc' = [proc EXCEPT ![p] = "joining"]
      /\ sendq' = [sendq EXCEPT ![p] = Append(@, e)]
      /\ UNCHANGED <<mainVars, writing, shut, sock, inbuf, from, closed, match, recvq>>
  BY DEF Deinit, Enqueue, recvVars
<1>2. prog' = prog /\ pos' = pos /\ ret' = ret
  BY <1>1 DEF mainVars
<1>3. e \in Entries /\ e.data.kind = "Shutdown"
  BY ChannelAssumption DEF Entries, Datum, Shutdown
<1>4. s \in Seq(Entries) /\ \A i \in DOMAIN s : s[i].data.kind # "Shutdown"
  BY <1>1, QueueTypes DEF Shape
<1> HIDE DEF e
<1>5. /\ t = Append(s, e) /\ \A q \in Party : q # p => sendq'[q] = sendq[q] /\ proc'[q] = proc[q]
      /\ proc'[p] = "joining" /\ DOMAIN sendq' = Party
      /\ proc' \in [Party -> {"up", "joining", "exited", "aborted"}]
  BY <1>1 DEF Shape, TypeOK
<1> HIDE DEF s, t
<1>6. /\ t \in Seq(Entries) /\ Len(s) \in Nat /\ Len(t) = Len(s) + 1
      /\ DOMAIN t = 1..(Len(s) + 1) /\ DOMAIN s = 1..Len(s)
      /\ \A i \in DOMAIN t : (i \in DOMAIN s /\ t[i] = s[i]) \/ (i = Len(t) /\ t[i] = e)
  BY <1>3, <1>4, <1>5, AppendProperties, LenProperties
<1>7. Ends(t)
  BY <1>4, <1>6 DEF Ends
<1>8. sendq' \in [Party -> Seq(Entries)]
  BY <1>1, <1>5, <1>6, TypeGroups DEF Shape, SendTypes, t
<1>9. ASSUME NEW w \in Worker
      PROVE  \A i \in DOMAIN sendq'[w] : sendq'[w][i].data.kind # "Multi"
  <2>1. \A i \in DOMAIN sendq[w] : sendq[w][i].data.kind # "Multi"
    BY TypeGroups DEF Shape, SendTypes
  <2>2. CASE w = p
    BY <1>3, <1>6, <2>1, <2>2 DEF s, t
  <2>3. CASE w # p
    BY <1>5, <2>1, <2>3, PartyFacts
  <2> QED BY <2>2, <2>3
<1>10. TypeOK'
  <2>1. SockTypes' /\ ReadTypes' /\ ReadyTypes'
    BY <1>1, TypeGroups DEF Shape, SockTypes, ReadTypes, ReadyTypes
  <2>2. CallTypes'
    BY <1>2, <1>5, TypeGroups DEF Shape, CallTypes
  <2>3. SendTypes'
    BY <1>1, <1>8, <1>9, TypeGroups DEF Shape, SendTypes
  <2> QED BY <2>1, <2>2, <2>3, TypeGroups
<1>11. Life'
  <2>1. ~shut[p]
    BY <1>1 DEF Shape, Life, LifeOf
  <2>2. LifeOf(p)'
    BY <1>1, <1>2, <1>5, <1>7, <2>1 DEF Shape, Life, LifeOf, Finished, t
  <2> QED BY <1>1, <1>2, <1>5, <2>2, LifeStep DEF Shape
<1> QED BY <1>1, <1>10, <1>11 DEF Shape

\* Joining the send thread keeps the types and the life cycle.
LEMMA JoinSenderShape ==
  ASSUME Shape, NEW p \in Party, JoinSender(p)
  PROVE  Shape'
<1>1. /\ proc[p] = "joining" /\ shut[p]
      /\ proc' = [proc EXCEPT ![p] = "exited"]
      /\ UNCHANGED <<mainVars, sendq, writing, shut, sock, inbuf, from, closed, match, recvq>>
  BY DEF JoinSender, recvVars, sendVars
<1>2. prog' = prog /\ pos' = pos /\ ret' = ret
  BY <1>1 DEF mainVars
<1>3. /\ \A q \in Party : q # p => proc'[q] = proc[q]
      /\ proc'[p] = "exited"
      /\ proc' \in [Party -> {"up", "joining", "exited", "aborted"}]
  BY <1>1 DEF Shape, TypeOK
<1>4. TypeOK'
  <2>1. SendTypes' /\ SockTypes' /\ ReadTypes' /\ ReadyTypes'
    BY <1>1, TypeGroups DEF Shape, SendTypes, SockTypes, ReadTypes, ReadyTypes
  <2>2. CallTypes'
    BY <1>2, <1>3, TypeGroups DEF Shape, CallTypes
  <2> QED BY <2>1, <2>2, TypeGroups
<1>5. Life'
  <2>1. LifeOf(p)'
    BY <1>1, <1>2, <1>3 DEF Shape, Life, LifeOf, Finished
  <2> QED BY <1>1, <1>2, <1>3, <2>1, LifeStep DEF Shape
<1> QED BY <1>1, <1>4, <1>5 DEF Shape

\* Reading a socket keeps the types and the life cycle.
LEMMA ReadEventShape ==
  ASSUME Shape, NEW p \in Party, NEW q \in Peers(p), ReadEvent(p, q)
  PROVE  Shape'
<1>1. /\ inbuf' = [inbuf EXCEPT ![p] = sock[q][p]]
      /\ sock' = [sock EXCEPT ![q][p] = <<>>]
      /\ from' = [from EXCEPT ![p] = q]
      /\ closed' = [closed EXCEPT ![p] = IF AtEnd(p, q) THEN @ \cup {q} ELSE @]
      /\ UNCHANGED <<mainVars, proc, sendq, writing, shut, match, recvq>>
  BY DEF ReadEvent, sendVars
<1>2. prog' = prog /\ pos' = pos /\ ret' = ret
  BY <1>1 DEF mainVars
<1>3. q \in Party /\ q # NoData
  BY PartyFacts
<1>4. sock[q][p] \in Seq(Message)
  BY <1>3, TypeGroups DEF Shape, SockTypes
<1>5. /\ DOMAIN from' = Party /\ from'[p] = q /\ inbuf'[p] = sock[q][p] /\ DOMAIN closed' = Party
      /\ inbuf' \in [Party -> Seq(Message)]
      /\ \A a \in Party : a # p => from'[a] = from[a] /\ inbuf'[a] = inbuf[a] /\ closed'[a] = closed[a]
      /\ closed'[p] \subseteq Peers(p)
  BY <1>1, <1>4, TypeGroups DEF Shape, ReadTypes
<1>6. SockTypes'
  <2>1. SockTypes
    BY TypeGroups DEF Shape
  <2>2. <<>> \in Seq(Message) /\ Len(<<>>) =< SockCap
    BY EmptySeq, SockCapAssumption
  <2>3. sock' \in [Party -> [Party -> Seq(Message)]]
    BY <1>1, <1>3, <2>1, <2>2 DEF SockTypes
  <2>4. \A a, b \in Party : sock'[a][b] = IF a = q /\ b = p THEN <<>> ELSE sock[a][b]
    BY <1>1, <1>3, <2>1 DEF SockTypes
  <2> QED BY <2>1, <2>2, <2>3, <2>4 DEF SockTypes
<1>7. ReadTypes'
  <2>1. ReadTypes
    BY TypeGroups DEF Shape
  <2> QED BY <1>5, <2>1 DEF ReadTypes
<1>8. TypeOK'
  <2>1. CallTypes' /\ SendTypes' /\ ReadyTypes'
    BY <1>1, <1>2, TypeGroups DEF Shape, CallTypes, SendTypes, ReadyTypes
  <2> QED BY <1>6, <1>7, <2>1, TypeGroups
<1>9. Life'
  <2>1. LifeOf(p)'
    BY <1>1, <1>2, <1>3, <1>5 DEF Shape, Life, LifeOf, Finished
  <2> QED BY <1>1, <1>2, <1>5, <2>1, LifeStep DEF Shape
<1> QED BY <1>1, <1>8, <1>9 DEF Shape

\* The end of a round of parsing keeps the types and the life cycle.
LEMMA ParseDoneShape ==
  ASSUME Shape, NEW p \in Party, ParseDone(p)
  PROVE  Shape'
<1>1. /\ inbuf[p] = <<>> /\ from' = [from EXCEPT ![p] = NoData]
      /\ UNCHANGED <<mainVars, proc, sendq, writing, shut, sock, inbuf, closed, match, recvq>>
  BY DEF ParseDone, sendVars
<1>2. prog' = prog /\ pos' = pos /\ ret' = ret
  BY <1>1 DEF mainVars
<1>3. /\ DOMAIN from' = Party /\ from'[p] = NoData
      /\ \A a \in Party : a # p => from'[a] = from[a]
  BY <1>1 DEF Shape, TypeOK
<1>4. TypeOK'
  <2>1. CallTypes' /\ SendTypes' /\ SockTypes' /\ ReadyTypes'
    BY <1>1, <1>2, TypeGroups DEF Shape, CallTypes, SendTypes, SockTypes, ReadyTypes
  <2>2. ReadTypes'
    BY <1>1, <1>3, TypeGroups DEF Shape, ReadTypes
  <2> QED BY <2>1, <2>2, TypeGroups
<1>5. Life'
  <2>1. LifeOf(p)'
    BY <1>1, <1>2, <1>3 DEF Shape, Life, LifeOf, Finished
  <2> QED BY <1>1, <1>2, <1>3, <2>1, LifeStep DEF Shape
<1> QED BY <1>1, <1>4, <1>5 DEF Shape

\* The buffer that is parsed loses its head.
LEMMA ParseReads ==
  ASSUME Shape, NEW p \in Party, inbuf[p] # <<>>, from[p] # NoData,
         inbuf' = [inbuf EXCEPT ![p] = Tail(@)],
         UNCHANGED <<mainVars, proc, sendVars, sock, from, closed>>
  PROVE  CallTypes' /\ SendTypes' /\ SockTypes' /\ ReadTypes' /\ Life'
<1>1. /\ prog' = prog /\ pos' = pos /\ ret' = ret
      /\ sendq' = sendq /\ writing' = writing /\ shut' = shut
  BY DEF mainVars, sendVars
<1>2. /\ inbuf' \in [Party -> Seq(Message)] /\ \A a \in Party : a # p => inbuf'[a] = inbuf[a]
  <2>1. inbuf[p] \in Seq(Message) /\ Tail(inbuf[p]) \in Seq(Message)
    BY HeadTailProperties DEF Shape, TypeOK
  <2> QED BY <2>1 DEF Shape, TypeOK
<1>3. CallTypes' /\ SendTypes' /\ SockTypes'
  BY <1>1, TypeGroups DEF Shape, CallTypes, SendTypes, SockTypes
<1>4. ReadTypes'
  BY <1>2, TypeGroups DEF Shape, ReadTypes
<1>5. LifeOf(p)'
  BY <1>1 DEF Shape, Life, LifeOf, Finished
<1> QED BY <1>1, <1>2, <1>3, <1>4, <1>5, LifeStep DEF Shape

\* A worker's routing keeps the types and the life cycle.
LEMMA ParseWorkerShape ==
  ASSUME Shape, NEW w \in Worker, ParseWorker(w)
  PROVE  Shape'
<1> DEFINE m == Head(inbuf[w])
<1>1. /\ inbuf[w] # <<>> /\ from[w] # NoData /\ inbuf' = [inbuf EXCEPT ![w] = Tail(@)]
      /\ recvq' = [recvq EXCEPT ![w][m.ch] = Append(@, m.bytes)]
      /\ UNCHANGED <<mainVars, proc, sendVars, sock, from, closed>> /\ match' = match
  BY DEF ParseWorker
<1>2. m \in Message /\ m.ch \in Channel /\ m.bytes \in Payload
  <2>1. m \in Message
    BY <1>1, PartyFacts, HeadTailProperties DEF Shape, TypeOK
  <2> QED BY <2>1 DEF Message
<1> HIDE DEF m
<1>3. ReadyTypes
  BY TypeGroups DEF Shape
<1>4. recvq[w][m.ch] \in Seq(Payload) /\ Append(recvq[w][m.ch], m.bytes) \in Seq(Payload)
  BY <1>2, <1>3, AppendProperties DEF ReadyTypes
<1>5. /\ DOMAIN recvq' = Party /\ \A p \in Party : p # w => recvq'[p] = recvq[p]
      /\ recvq'[w] = [recvq[w] EXCEPT ![m.ch] = Append(@, m.bytes)]
  BY <1>1, <1>3, PartyFacts DEF ReadyTypes
<1>6. recvq'[w] \in [Channel -> Seq(Payload)]
  BY <1>2, <1>3, <1>4, <1>5 DEF ReadyTypes
<1>7. recvq'[Master] = recvq[Master]
  BY <1>5, PartyFacts
<1>8. ASSUME NEW v \in Worker PROVE recvq'[v] \in [Channel -> Seq(Payload)]
  BY <1>3, <1>5, <1>6, PartyFacts DEF ReadyTypes
<1>9. ReadyTypes'
  BY <1>1, <1>3, <1>5, <1>7, <1>8 DEF ReadyTypes
<1> QED BY <1>1, <1>9, PartyFacts, ParseReads, TypeGroups DEF Shape

\* The master's routing keeps the types, the life cycle and the matcher settled.
LEMMA ParseMasterShape ==
  ASSUME IInv, ParseMaster
  PROVE  Shape'
<1>1. Shape
  BY PipesOf DEF Shape
<1>2. /\ inbuf[Master] # <<>> /\ from[Master] # NoData /\ inbuf' = [inbuf EXCEPT ![Master] = Tail(@)]
      /\ UNCHANGED <<mainVars, proc, sendVars, sock, from, closed>>
  BY DEF ParseMaster
<1>3. PICK c \in Channel :
        /\ match' \in [Channel -> Matcher] /\ Settled(match'[c])
        /\ DOMAIN recvq' = Party
        /\ \A q \in Party : q # Master => recvq'[q] = recvq[q]
        /\ recvq'[Master] \in [Channel -> Seq(Round)]
        /\ \A x \in Channel : x # c => match'[x] = match[x]
  BY ParseMasterFacts
<1>4. ReadyTypes'
  <2>1. \A w \in Worker : recvq'[w] = recvq[w]
    BY <1>3, PartyFacts
  <2>2. \A w \in Worker : recvq'[w] \in [Channel -> Seq(Payload)]
    BY <1>1, <2>1, TypeGroups DEF Shape, ReadyTypes
  <2> QED BY <1>3, <2>2 DEF ReadyTypes
<1>5. \A x \in Channel : Settled(match'[x])
  BY <1>1, <1>3 DEF Shape
<1>6. TypeOK' /\ Life'
  BY <1>1, <1>2, <1>4, PartyFacts, ParseReads, TypeGroups
<1> QED BY <1>5, <1>6 DEF Shape

\* A death keeps the types and the life cycle of the others.
LEMMA AbortShape ==
  ASSUME Shape, NEW p \in Party, Alive(p), Abort(p)
  PROVE  Shape'
<1>1. /\ proc' = [proc EXCEPT ![p] = "aborted"] /\ sendq' = [sendq EXCEPT ![p] = <<>>]
      /\ writing' = [writing EXCEPT ![p] = NoFun] /\ inbuf' = [inbuf EXCEPT ![p] = <<>>]
      /\ from' = [from EXCEPT ![p] = NoData]
      /\ recvq' = [recvq EXCEPT ![p] = [c \in Channel |-> <<>>]]
      /\ UNCHANGED <<mainVars, shut, closed, match>>
  BY DEF Abort
<1>2. PICK kept \in [Party -> 0..SockCap] :
        /\ \A q \in Party : kept[q] =< Len(sock[p][q])
        /\ sock' = [s \in Party |-> [q \in Party |->
                     IF s = p THEN SubSeq(sock[p][q], 1, kept[q])
                     ELSE IF q = p THEN <<>> ELSE sock[s][q]]]
  BY DEF Abort
<1>3. prog' = prog /\ pos' = pos /\ ret' = ret
  BY <1>1 DEF mainVars
<1>4. /\ proc'[p] = "aborted" /\ sendq'[p] = <<>> /\ writing'[p] = NoFun
      /\ inbuf'[p] = <<>> /\ from'[p] = NoData /\ recvq'[p] = [c \in Channel |-> <<>>]
      /\ DOMAIN sendq' = Party /\ DOMAIN writing' = Party /\ DOMAIN inbuf' = Party
      /\ DOMAIN from' = Party /\ DOMAIN recvq' = Party
      /\ proc' \in [Party -> {"up", "joining", "exited", "aborted"}]
      /\ \A q \in Party : q # p =>
           /\ proc'[q] = proc[q] /\ sendq'[q] = sendq[q] /\ writing'[q] = writing[q]
           /\ inbuf'[q] = inbuf[q] /\ from'[q] = from[q] /\ recvq'[q] = recvq[q]
  BY <1>1 DEF Shape, TypeOK
<1>5. \A S : <<>> \in Seq(S)
  BY EmptySeq
<1>6. SockTypes'
  <2>1. SockTypes
    BY TypeGroups DEF Shape
  <2>2. ASSUME NEW a \in Party, NEW b \in Party
        PROVE  sock'[a][b] \in Seq(Message) /\ Len(sock'[a][b]) =< SockCap
    <3>1. CASE a = p
      <4> DEFINE s == sock[p][b]
                 k == kept[b]
      <4>1. s \in Seq(Message) /\ k \in Nat /\ k =< Len(s) /\ Len(s) \in Nat /\ Len(s) =< SockCap
        BY <1>2, <2>1, LenProperties DEF SockTypes
      <4>2. sock'[a][b] = SubSeq(s, 1, k)
        BY <1>2, <3>1
      <4> HIDE DEF s, k
      <4>3. SubSeq(s, 1, k) = [i \in 1..k |-> s[i]] /\ \A i \in 1..k : s[i] \in Message
        BY <4>1, ElementOfSeq
      <4>4. SubSeq(s, 1, k) \in [1..k -> Message]
        BY <4>3
      <4>5. SubSeq(s, 1, k) \in Seq(Message)
        BY <4>1, <4>4, SeqDef
      <4>6. Len(SubSeq(s, 1, k)) = k
        BY <4>1, <4>3, <4>5, LenProperties
      <4> QED BY <4>1, <4>2, <4>5, <4>6, SockCapAssumption
    <3>2. CASE a # p /\ b = p
      BY <1>2, <1>5, <3>2, SockCapAssumption
    <3>3. CASE a # p /\ b # p
      BY <1>2, <2>1, <3>3 DEF SockTypes
    <3> QED BY <3>1, <3>2, <3>3
  <2>3. DOMAIN sock' = Party /\ \A a \in Party : DOMAIN sock'[a] = Party
    BY <1>2
  <2>4. sock' \in [Party -> [Party -> Seq(Message)]]
    <3>1. sock' = [a \in Party |-> sock'[a]] /\ \A a \in Party : sock'[a] = [b \in Party |-> sock'[a][b]]
      BY <1>2
    <3>2. \A a \in Party : sock'[a] \in [Party -> Seq(Message)]
      BY <2>2, <3>1
    <3> QED BY <3>1, <3>2
  <2> QED BY <2>2, <2>4 DEF SockTypes
<1>7. CallTypes'
  BY <1>1, <1>3, <1>4, TypeGroups DEF Shape, CallTypes
<1>8. SendTypes'
  <2>1. SendTypes
    BY TypeGroups DEF Shape
  <2>2. ASSUME NEW q \in Party
        PROVE  /\ sendq'[q] \in Seq(Entries)
               /\ DOMAIN writing'[q] \subseteq Peers(q)
               /\ writing'[q] \in [DOMAIN writing'[q] -> Message]
               /\ q \in Worker => \A i \in DOMAIN sendq'[q] : sendq'[q][i].data.kind # "Multi"
    <3>1. CASE q = p
      <4>1. NoFun \in [{} -> Message] /\ DOMAIN NoFun = {} /\ DOMAIN <<>> = {}
        BY DEF NoFun
      <4> QED BY <1>4, <1>5, <3>1, <4>1
    <3>2. CASE q # p
      BY <1>4, <2>1, <3>2 DEF SendTypes
    <3> QED BY <3>1, <3>2
  <2>3. sendq' \in [Party -> Seq(Entries)]
    <3>1. sendq' = [q \in Party |-> sendq'[q]]
      BY <1>1, <2>1 DEF SendTypes
    <3> QED BY <2>2, <3>1
  <2> QED BY <1>1, <1>4, <2>1, <2>2, <2>3, PartyFacts DEF SendTypes
<1>9. ReadTypes'
  <2>1. ReadTypes
    BY TypeGroups DEF Shape
  <2>2. inbuf' \in [Party -> Seq(Message)]
    BY <1>1, <1>5, <2>1 DEF ReadTypes
  <2> QED BY <1>1, <1>4, <2>1, <2>2 DEF ReadTypes
<1>10. ReadyTypes'
  <2>1. ReadyTypes
    BY TypeGroups DEF Shape
  <2>2. [c \in Channel |-> <<>>] \in [Channel -> Seq(Payload)]
    BY <1>5
  <2>3. [c \in Channel |-> <<>>] \in [Channel -> Seq(Round)]
    BY <1>5
  <2>4. recvq'[Master] \in [Channel -> Seq(Round)]
    BY <1>4, <2>1, <2>3, PartyFacts DEF ReadyTypes
  <2>5. ASSUME NEW w \in Worker PROVE recvq'[w] \in [Channel -> Seq(Payload)]
    BY <1>4, <2>1, <2>2, PartyFacts DEF ReadyTypes
  <2> QED BY <1>1, <1>4, <2>1, <2>4, <2>5 DEF ReadyTypes
<1>11. Life'
  <2>1. LifeOf(p)'
    BY <1>1, <1>4 DEF LifeOf, Ends
  <2> QED BY <1>1, <1>3, <1>4, <2>1, LifeStep DEF Shape
<1> QED BY <1>1, <1>6, <1>7, <1>8, <1>9, <1>10, <1>11, TypeGroups DEF Shape
-----------------------------------------------------------------------------
(* Every step keeps the invariant and is a step of Collective, or leaves   *)
(* what Collective speaks of as it is.                                     *)
Preserved == Pipes' /\ Shape'

\* A worker's gather implements Contribute: the master is not past it.
LEMMA GatherWorkerStep ==
  ASSUME IInv, NEW w \in Worker, NEW c \in Channel, GatherWorker(w, c)
  PROVE  Preserved /\ CP!Contribute(w, c)
<1> DEFINE k == Step(w, c)
           d == Single(Arg(c, k, w))
<1> USE PipesOf
<1>1. /\ Calls(w, c, "gather") /\ Enqueue(w, c, d) /\ Returns(w, c, NoData)
      /\ w \in Party /\ Peers(w) = {Master} /\ Master # w
  BY PartyFacts DEF GatherWorker
<1>2. /\ k \in 1..Len(prog[c]) /\ k = pos[w][c] + 1 /\ k \in Nat /\ prog[c][k] = "gather"
  BY <1>1, CallFacts
<1>3. "gather" \in SentBy(w)
  BY <1>1 DEF SentBy
<1>4. Arg(c, k, w) \in Payload
  BY <1>1, <1>2 DEF Arg, Payload
<1>5. d \in Datum /\ d.kind = "Single"
  BY <1>4 DEF Datum, Single
<1>6. MessageTo([ch |-> c, data |-> d], Master).bytes = Arg(c, k, w)
  BY DEF MessageTo, Single
<1>7. pos[Master][c] =< pos[w][c]
  <2>1. /\ pos[w][c] \in Nat /\ pos[Master][c] \in Nat
    BY <1>1, PartyFacts DEF TypeOK
  <2>2. ~(pos[Master][c] >= k)
    BY <1>2, <2>1 DEF CP!IInv, CP!Causality
  <2> QED BY <1>2, <2>1, <2>2
<1>8. Pipes'
  <2> HIDE DEF k, d
  <2>1. \A q \in Peers(w) :
          /\ MessageTo([ch |-> c, data |-> d], q).bytes
               = Arg(c, Step(w, c), IF "gather" = "scatter" THEN q ELSE w)
          /\ pos[q][c] =< pos[w][c]
    BY <1>1, <1>6, <1>7 DEF k
  <2> QED BY <1>1, <1>3, <1>5, <2>1, CallSends
<1>9. Shape'
  <2> HIDE DEF k, d
  <2> QED BY <1>1, <1>5, EnqueueShape
<1>10. CP!Contribute(w, c)
  BY <1>1 DEF CP!Contribute, CP!Calls, CP!Next1, CP!Returns, Calls, OpAt, Step, Returns
<1> QED BY <1>8, <1>9, <1>10 DEF Preserved

\* The master's two calls that send.
LEMMA HandOutStep ==
  ASSUME IInv, NEW c \in Channel, ScatterMaster(c) \/ UniformMaster(c)
  PROVE  Preserved /\ CP!HandOut(c)
<1> DEFINE k == Step(Master, c)
           slots == [p \in Party |-> Arg(c, k, p)]
           u == Arg(c, k, Master)
<1> USE PipesOf
<1>1. Master \in Party /\ Peers(Master) = Worker /\ Master \notin Worker
  BY PartyFacts
<1>2. PICK o \in {"scatter", "uniform"} :
        /\ Calls(Master, c, o)
        /\ Enqueue(Master, c, IF o = "scatter" THEN Multi(slots) ELSE Single(u))
        /\ Returns(Master, c, Single(u))
  <2>1. slots[Master] = u
    BY <1>1
  <2> QED BY <2>1 DEF ScatterMaster, UniformMaster
<1> DEFINE d == IF o = "scatter" THEN Multi(slots) ELSE Single(u)
<1>3. /\ k \in 1..Len(prog[c]) /\ k = pos[Master][c] + 1 /\ k \in Nat /\ prog[c][k] = o
  BY <1>1, <1>2, CallFacts
<1>4. o \in SentBy(Master)
  BY <1>2 DEF SentBy
<1>5. \A p \in Party : Arg(c, k, p) \in Payload
  BY <1>3 DEF Arg, Payload
<1>6. /\ d \in Datum /\ d.kind # "Shutdown"
      /\ \A q \in Worker : MessageTo([ch |-> c, data |-> d], q).bytes
                             = Arg(c, k, IF o = "scatter" THEN q ELSE Master)
  <2>1. CASE o = "scatter"
    <3>1. slots \in [Party -> Payload]
      BY <1>5
    <3>2. d = Multi(slots)
      BY <2>1
    <3>3. d.kind = "Multi" /\ d.slots = slots
      BY <3>2 DEF Multi
    <3>4. d \in Datum
      BY <3>1, <3>2 DEF Datum, Multi
    <3>5. \A q \in Worker : MessageTo([ch |-> c, data |-> d], q).bytes = Arg(c, k, q)
      BY <3>3, PartyFacts DEF MessageTo
    <3> QED BY <2>1, <3>3, <3>4, <3>5
  <2>2. CASE o = "uniform"
    <3>1. d = Single(u)
      BY <2>2
    <3>2. d.kind = "Single" /\ d.bytes = u
      BY <3>1 DEF Single
    <3>3. d \in Datum
      BY <1>1, <1>5, <3>1 DEF Datum, Single
    <3>4. \A q \in Worker : MessageTo([ch |-> c, data |-> d], q).bytes = u
      BY <3>2 DEF MessageTo
    <3> QED BY <2>2, <3>2, <3>3, <3>4
  <2> QED BY <1>2, <2>1, <2>2
<1>7. ASSUME NEW w \in Worker PROVE pos[w][c] =< pos[Master][c]
  <2>1. /\ pos[w][c] \in Nat /\ pos[Master][c] \in Nat
    BY <1>1, PartyFacts DEF TypeOK
  <2>2. ~(pos[w][c] >= k)
    BY <1>2, <1>3, <2>1 DEF CP!IInv, CP!Causality, CP!IsReceive
  <2> QED BY <1>3, <2>1, <2>2
<1>8. Pipes'
  <2> HIDE DEF k, d, u, slots
  <2>1. \A q \in Peers(Master) :
          /\ MessageTo([ch |-> c, data |-> d], q).bytes
               = Arg(c, Step(Master, c), IF o = "scatter" THEN q ELSE Master)
          /\ pos[q][c] =< pos[Master][c]
    BY <1>1, <1>6, <1>7 DEF k
  <2> QED BY <1>1, <1>2, <1>4, <1>6, <2>1, CallSends DEF d
<1>9. Shape'
  <2> HIDE DEF k, u, slots
  <2> QED BY <1>1, <1>2, <1>6, EnqueueShape
<1>10. CP!HandOut(c)
  <2>1. CP!MasterArg(Master, c) = Single(u)
    BY DEF CP!MasterArg, CP!Single, CP!Arg, CP!Next1, Single, Arg, Step
  <2> HIDE DEF u, slots
  <2>2. CP!Returns(Master, c, CP!MasterArg(Master, c))
    BY <1>2, <2>1 DEF CP!Returns, Returns
  <2> QED BY <1>2, <2>2 DEF CP!HandOut, CP!Calls, CP!Next1, Calls, OpAt, Step
<1> QED BY <1>8, <1>9, <1>10 DEF Preserved

\* The master's gather implements Gather: every worker has contributed, and the
\* round holds their arguments of this very call.
LEMMA GatherMasterStep ==
  ASSUME IInv, NEW c \in Channel, GatherMaster(c)
  PROVE  Preserved /\ CP!Gather(c)
<1> DEFINE k == Step(Master, c)
           h == Head(recvq[Master][c])
           r == [h EXCEPT ![Master] = Arg(c, k, Master)]
<1> USE PipesOf
<1>1. /\ Calls(Master, c, "gather") /\ recvq[Master][c] # <<>> /\ Dequeue(Master, c)
      /\ Returns(Master, c, Multi(r))
      /\ Master \in Party /\ Peers(Master) = Worker /\ Master \notin Worker
  BY PartyFacts DEF GatherMaster
<1>2. "gather" \notin SentBy(Master)
  BY DEF SentBy
<1> HIDE DEF k, h, r
<1>3. /\ Pipes'
      /\ \A w \in Worker : k =< pos[w][c] /\ h[w] = Arg(c, k, w)
  BY <1>1, <1>2, CallReceives DEF k, h
<1>4. Shape'
  BY <1>1, DequeueShape
<1>5. r = [p \in Party |-> Arg(c, k, p)]
  <2>1. h \in Round
    BY <1>1, HeadTailProperties DEF TypeOK, h
  <2>2. DOMAIN h = Party
    BY <2>1 DEF Round
  <2> QED BY <1>1, <1>3, <2>2, PartyFacts DEF r
<1>6. CP!GatherResult(c, CP!Next1(Master, c)) = Multi(r)
  BY <1>5 DEF CP!GatherResult, CP!Multi, CP!Arg, CP!Party, CP!Next1, Multi, Arg, Party, Step, k
<1>7. \A w \in Worker : pos[w][c] >= CP!Next1(Master, c)
  <2>1. /\ k = pos[Master][c] + 1 /\ k \in Nat
    BY <1>1, CallFacts DEF k
  <2>2. \A w \in Worker : pos[w][c] \in Nat
    BY PartyFacts DEF TypeOK
  <2> QED BY <1>3, <2>1, <2>2 DEF CP!Next1
<1>8. CP!Gather(c)
  <2>1. CP!Calls(Master, c, "gather")
    BY <1>1 DEF CP!Calls, CP!Next1, Calls, OpAt, Step
  <2>2. CP!Returns(Master, c, CP!GatherResult(c, CP!Next1(Master, c)))
    BY <1>1, <1>6 DEF CP!Returns, Returns
  <2> QED BY <1>7, <2>1, <2>2 DEF CP!Gather
<1> QED BY <1>3, <1>4, <1>8 DEF Preserved

\* A worker's scatter or uniform implements Obtain: the master has handed out,
\* and what the worker returns is its slot of this very call.
LEMMA ReceiveWorkerStep ==
  ASSUME IInv, NEW w \in Worker, NEW c \in Channel, ReceiveWorker(w, c)
  PROVE  Preserved /\ CP!Obtain(w, c)
<1> DEFINE k == Step(w, c)
           h == Head(recvq[w][c])
<1> USE PipesOf
<1>1. /\ recvq[w][c] # <<>> /\ Dequeue(w, c) /\ Returns(w, c, Single(h))
      /\ w \in Party /\ Peers(w) = {Master} /\ Master # w
  BY PartyFacts DEF ReceiveWorker
<1>2. PICK o \in {"scatter", "uniform"} : Calls(w, c, o)
  BY DEF ReceiveWorker
<1>3. o \notin SentBy(w)
  BY <1>1 DEF SentBy
<1> HIDE DEF k, h
<1>4. /\ Pipes'
      /\ k =< pos[Master][c] /\ h = Arg(c, k, IF o = "scatter" THEN w ELSE Master)
  BY <1>1, <1>2, <1>3, CallReceives DEF k, h
<1>5. Shape'
  BY <1>1, <1>2, DequeueShape
<1>6. k = pos[w][c] + 1 /\ k \in Nat /\ prog[c][k] = o
  BY <1>1, <1>2, CallFacts DEF k
<1>7. CP!MasterArg(w, c) = Single(h)
  BY <1>4, <1>6 DEF CP!MasterArg, CP!Single, CP!Arg, CP!Next1, Single, Arg
<1>8. pos[Master][c] >= CP!Next1(w, c)
  <2>1. pos[Master][c] \in Nat
    BY PartyFacts DEF TypeOK
  <2> QED BY <1>4, <1>6, <2>1 DEF CP!Next1
<1>9. CP!Obtain(w, c)
  <2>1. CP!Calls(w, c, "scatter") \/ CP!Calls(w, c, "uniform")
    BY <1>2 DEF CP!Calls, CP!Next1, Calls, OpAt, Step
  <2>2. CP!Returns(w, c, CP!MasterArg(w, c))
    BY <1>1, <1>7 DEF CP!Returns, Returns
  <2> QED BY <1>8, <2>1, <2>2 DEF CP!Obtain
<1> QED BY <1>4, <1>5, <1>9 DEF Preserved

\* The send thread's steps implement a stutter of the collective calls.
LEMMA SendThreadStep ==
  ASSUME IInv, NEW p \in Party, SendThread(p)
  PROVE  Preserved /\ UNCHANGED mainVars
<1>1. IInv /\ Shape
  BY PipesOf DEF Shape
<1>2. CASE TakeEntry(p)
  BY <1>1, <1>2, TakeEntryPipes, TakeEntryShape DEF Preserved, TakeEntry
<1>3. CASE TakeShutdown(p)
  BY <1>1, <1>3, TakeShutdownPipes, TakeShutdownShape DEF Preserved, TakeShutdown
<1>4. ASSUME NEW q \in Peers(p), Write(p, q)
      PROVE  Preserved /\ UNCHANGED mainVars
  <2>1. Alive(p) /\ q \in DOMAIN writing[p]
    BY <1>4 DEF Write
  <2>2. CASE Abort(p)
    BY <1>1, <2>1, <2>2, AbortPipes, AbortShape DEF Preserved, Abort
  <2>3. CASE ~Open(q) /\ Written(p, q) /\ UNCHANGED sock
    BY <1>1, <2>1, <2>3, WritePipes, WriteShape DEF Preserved, Written
  <2>4. CASE /\ Len(sock[p][q]) < SockCap
             /\ sock' = [sock EXCEPT ![p][q] = Append(@, writing[p][q])]
             /\ Written(p, q)
    BY <1>1, <2>1, <2>4, WritePipes, WriteShape DEF Preserved, Written
  <2> QED BY <1>4, <2>2, <2>3, <2>4 DEF Write
<1> QED BY <1>2, <1>3, <1>4 DEF SendThread

\* The receive thread's steps implement a stutter of the collective calls.
LEMMA RecvThreadStep ==
  ASSUME IInv, NEW p \in Party, RecvThread(p)
  PROVE  Preserved /\ UNCHANGED mainVars
<1>1. IInv /\ Shape
  BY PipesOf DEF Shape
<1>2. ASSUME NEW q \in Peers(p), ReadEvent(p, q)
      PROVE  Preserved /\ UNCHANGED mainVars
  BY <1>1, <1>2, ReadEventPipes, ReadEventShape DEF Preserved, ReadEvent
<1>3. CASE Parse(p) /\ p = Master
  BY <1>1, <1>3, ParseMasterPipes, ParseMasterShape DEF Preserved, Parse, ParseMaster
<1>4. CASE Parse(p) /\ p # Master
  <2>1. p \in Worker /\ ParseWorker(p)
    BY <1>4, PartyFacts DEF Parse
  <2> QED BY <1>1, <2>1, ParseWorkerPipes, ParseWorkerShape DEF Preserved, ParseWorker
<1>5. CASE ParseDone(p)
  BY <1>1, <1>5, ParseDonePipes, ParseDoneShape DEF Preserved, ParseDone
<1> QED BY <1>2, <1>3, <1>4, <1>5 DEF RecvThread, Read

\* Every step of the network keeps the pipes and the shape, and implements a step
\* of the collective calls or a stutter.
LEMMA StepPreserves ==
  ASSUME IInv, [Next]_vars
  PROVE  Preserved /\ [CP!Next]_(CP!vars)
<1>1. ASSUME NEW c \in Channel, MasterCall(c)
      PROVE  Preserved /\ [CP!Next]_(CP!vars)
  BY <1>1, GatherMasterStep, HandOutStep DEF MasterCall, CP!Next
<1>2. ASSUME NEW c \in Channel, NEW w \in Worker, WorkerCall(w, c)
      PROVE  Preserved /\ [CP!Next]_(CP!vars)
  <2>1. CASE GatherWorker(w, c) \/ ReceiveWorker(w, c)
    BY <2>1, GatherWorkerStep, ReceiveWorkerStep DEF CP!Next
  <2>2. CASE ReceiveFails(w, c)
    <3>1. Abort(w) /\ Alive(w) /\ w \in Party /\ Shape
      BY <2>2, PartyFacts, PipesOf DEF ReceiveFails, Calls, Alive, Shape
    <3>2. UNCHANGED CP!vars
      BY <3>1 DEF Abort, mainVars, CP!vars
    <3> QED BY <3>1, <3>2, AbortPipes, AbortShape DEF Preserved
  <2> QED BY <1>2, <2>1, <2>2 DEF WorkerCall
<1>3. ASSUME NEW p \in Party, SendThread(p) \/ RecvThread(p)
      PROVE  Preserved /\ [CP!Next]_(CP!vars)
  <2>1. Preserved /\ UNCHANGED mainVars
    BY <1>3, SendThreadStep, RecvThreadStep
  <2> QED BY <2>1 DEF mainVars, CP!vars
<1>4. ASSUME NEW p \in Party, Deinit(p) \/ JoinSender(p)
      PROVE  Preserved /\ [CP!Next]_(CP!vars)
  <2>1. Shape
    BY PipesOf DEF Shape
  <2>2. Preserved
    BY <1>4, <2>1, DeinitPipes, DeinitShape, JoinSenderPipes, JoinSenderShape DEF Preserved
  <2>3. UNCHANGED mainVars
    BY <1>4 DEF Deinit, JoinSender
  <2> QED BY <2>2, <2>3 DEF mainVars, CP!vars
<1>5. ASSUME NEW p \in Party, Crash(p)
      PROVE  Preserved /\ [CP!Next]_(CP!vars)
  <2>1. Shape /\ Abort(p) /\ Alive(p)
    BY <1>5, PipesOf DEF Shape, Crash
  <2>2. UNCHANGED mainVars
    BY <2>1 DEF Abort
  <2> QED BY <2>1, <2>2, AbortPipes, AbortShape DEF Preserved, mainVars, CP!vars
<1>6. CASE UNCHANGED vars
  <2>1. UNCHANGED <<mainVars, proc, sendVars, sock, recvVars>>
    BY <1>6 DEF vars
  <2>2. /\ prog' = prog /\ pos' = pos /\ ret' = ret /\ proc' = proc /\ sock' = sock
        /\ sendq' = sendq /\ writing' = writing /\ shut' = shut
        /\ inbuf' = inbuf /\ from' = from /\ closed' = closed /\ match' = match /\ recvq' = recvq
    BY <2>1 DEF mainVars, sendVars, recvVars
  <2>3. Pipes'
    <3>1. \A p \in Party : \A q \in Peers(p) : Flow(p, q)' = Flow(p, q)
      BY <2>2 DEF Flow, Unparsed, InWriting
    <3> QED BY <2>1, <2>2, <3>1, FlowStays
  <2>4. Shape'
    <3>1. TypeOK' /\ \A c \in Channel : Settled(match'[c])
      BY <2>2, PipesOf, TypeGroups
        DEF CallTypes, SendTypes, SockTypes, ReadTypes, ReadyTypes
    <3>2. Life'
      BY <2>2, PipesOf DEF Life, LifeOf, Finished
    <3> QED BY <3>1, <3>2 DEF Shape
  <2> QED BY <2>2, <2>3, <2>4 DEF Preserved, CP!vars
<1>7. CASE AllGone
  BY <1>6, <1>7 DEF AllGone
<1> QED BY <1>1, <1>2, <1>3, <1>4, <1>5, <1>6, <1>7 DEF Next

\* The invariant is inductive.
LEMMA NextIInv == IInv /\ [Next]_vars => IInv'
<1> SUFFICES ASSUME IInv, [Next]_vars PROVE IInv'
  OBVIOUS
<1>1. Preserved /\ [CP!Next]_(CP!vars)
  BY StepPreserves
<1>2. CP!IInv'
  BY <1>1, PipesOf, CollectiveAssumptions, CP!NextIInv
<1>3. TypeOK' /\ Life' /\ \A c \in Channel : Settled(match'[c])
  BY <1>1 DEF Preserved, Shape
<1>4. PipelineExact'
  BY <1>1, <1>3 DEF Preserved, Pipes, PipelineExact
<1> QED BY <1>2, <1>3, <1>4 DEF IInv

\* An initial state of the network is one of the collective calls.
LEMMA InitCollective == Init => CP!Init
<1> SUFFICES ASSUME Init PROVE CP!Init
  OBVIOUS
<1>1. PICK f \in [Channel -> Bodies] : prog = [f EXCEPT ![MainChannel] = ConnectRound \o @]
  BY DEF Init
<1>2. ASSUME NEW c \in Channel PROVE prog[c] \in Programs
  BY <1>1, ChannelAssumption DEF Programs
<1>3. prog = [c \in Channel |-> prog[c]]
  BY <1>1
<1>4. prog \in [Channel -> Programs]
  BY <1>2, <1>3
<1> QED BY <1>4 DEF Init, CP!Init, CP!Party, Party

\* Nothing has been sent: the invariant holds at the start.
LEMMA InitIInv == Init => IInv
<1> SUFFICES ASSUME Init PROVE IInv
  OBVIOUS
<1>1. CP!Init /\ CP!IInv
  BY InitCollective, CollectiveAssumptions, CP!InitIInv
<1>2. \A S : <<>> \in Seq(S)
  BY EmptySeq
<1>3. /\ prog \in [Channel -> Programs]
      /\ pos = [p \in Party |-> [c \in Channel |-> 0]]
      /\ ret = [p \in Party |-> [c \in Channel |-> NoData]]
      /\ proc = [p \in Party |-> "up"]
      /\ sendq = [p \in Party |-> <<>>] /\ writing = [p \in Party |-> NoFun]
      /\ shut = [p \in Party |-> FALSE] /\ sock = [p \in Party |-> [q \in Party |-> <<>>]]
      /\ inbuf = [p \in Party |-> <<>>] /\ from = [p \in Party |-> NoData]
      /\ closed = [p \in Party |-> {}] /\ match = [c \in Channel |-> M!NoMessages]
      /\ recvq = [p \in Party |-> [c \in Channel |-> <<>>]]
  BY <1>1 DEF Init, CP!Init
<1>4. \A c \in Channel : prog[c] \in Seq(Op) /\ Len(prog[c]) \in Nat
  BY <1>3, ProgramsAreCalls, LenProperties
<1>5. CallTypes
  BY <1>3, <1>4 DEF CallTypes
<1>6. SendTypes /\ SockTypes
  <2>1. DOMAIN NoFun = {} /\ NoFun \in [{} -> Message] /\ DOMAIN <<>> = {} /\ Len(<<>>) = 0
    BY DEF NoFun
  <2>2. SendTypes
    BY <1>2, <1>3, <2>1, PartyFacts DEF SendTypes
  <2>3. SockTypes
    BY <1>2, <1>3, <2>1, SockCapAssumption DEF SockTypes
  <2> QED BY <2>2, <2>3
<1>7. ReadTypes
  BY <1>2, <1>3 DEF ReadTypes
<1>8. M!NoMessages \in Matcher /\ Settled(M!NoMessages)
  <2>1. M!NoMessages = [queue |-> [w \in Worker |-> <<>>], ready |-> 0]
    BY DEF M!NoMessages
  <2>2. {w \in Worker : M!NoMessages.queue[w] # <<>>} = {}
    BY <2>1
  <2>3. Cardinality({}) = 0
    BY FS_EmptySet
  <2> QED BY <1>2, <2>1, <2>2, <2>3, PartyAssumption DEF Matcher, Settled
<1>9. ReadyTypes
  <2>1. match \in [Channel -> Matcher]
    BY <1>3, <1>8
  <2>2. DOMAIN recvq = Party /\ \A p \in Party : recvq[p] = [c \in Channel |-> <<>>]
    BY <1>3
  <2> DEFINE none == [c \in Channel |-> <<>>]
  <2>3. none \in [Channel -> Seq(Round)] /\ none \in [Channel -> Seq(Payload)]
    <3>1. <<>> \in Seq(Round) /\ <<>> \in Seq(Payload)
      BY <1>2
    <3> QED BY <3>1
  <2> HIDE DEF none
  <2>4. recvq[Master] \in [Channel -> Seq(Round)]
    BY <2>2, <2>3, PartyFacts DEF none
  <2>5. \A w \in Worker : recvq[w] \in [Channel -> Seq(Payload)]
    BY <2>2, <2>3, PartyFacts DEF none
  <2> QED BY <2>1, <2>2, <2>4, <2>5 DEF ReadyTypes
<1>10. TypeOK
  BY <1>5, <1>6, <1>7, <1>9, TypeGroups
<1>11. Life
  BY <1>3 DEF Life, LifeOf, Ends
<1>12. \A c \in Channel : Settled(match[c])
  BY <1>3, <1>8
<1>13. ASSUME NEW p \in Party, NEW q \in Peers(p), NEW c \in Channel
       PROVE  Carries(Ready(p, q, c), Flow(p, q), c, Due(p, q, c), proc[p] = "aborted")
  <2>0. q \in Party
    BY PartyFacts
  <2> DEFINE r == Ready(p, q, c)
             f == Flow(p, q)
             due == Due(p, q, c)
             cut == proc[p] = "aborted"
  <2>1. r = <<>>
    <3>1. CASE q = Master
      <4>1. p \in Worker
        BY <3>1, PartyFacts
      <4>2. recvq[Master][c] = <<>> /\ match[c].queue[p] = <<>>
        BY <1>3, <4>1, PartyFacts DEF M!NoMessages
      <4>3. Column(<<>>, p) = <<>>
        BY <1>2, <4>1, ColumnType, EmptySeq
      <4>4. r = <<>> \o <<>>
        BY <3>1, <4>1, <4>2, <4>3, ReadyColumn
      <4> QED BY <1>2, <4>4, ConcatEmptySeq
    <3>2. CASE q # Master
      BY <1>3, <2>0, <3>2 DEF Ready
    <3> QED BY <3>1, <3>2
  <2>2. f = <<>>
    <3>1. MessagesTo(<<>>, q) = <<>>
      <4>1. <<>> \in Seq(Entries) /\ Ends(<<>>)
        BY EmptySeq DEF Ends
      <4>2. MessagesTo(<<>>, q) = [i \in 1..0 |-> MessageTo(<<>>[i], q)]
        BY DEF MessagesTo
      <4>3. MessagesTo(<<>>, q) \in Seq(Message)
        BY <2>0, <4>1, MessagesToType
      <4>4. Len(MessagesTo(<<>>, q)) = 0
        BY <4>2, <4>3, LenProperties
      <4> QED BY <4>3, <4>4, EmptySeq
    <3>2. /\ Unparsed(p, q) = <<>> /\ InWriting(p, q) = <<>> /\ sock[p][q] = <<>> /\ sendq[p] = <<>>
      BY <1>3, <2>0, NothingWritten DEF Unparsed, InWriting
    <3>3. f = (<<>> \o <<>>) \o (<<>> \o <<>>)
      BY <3>1, <3>2 DEF Flow
    <3>4. <<>> \o <<>> = <<>>
      BY <1>2, ConcatEmptySeq
    <3> QED BY <3>3, <3>4
  <2>3. DOMAIN due = {}
    <3>1. \A k \in Nat : ~(pos[q][c] < k /\ k =< pos[p][c])
      BY <1>3, <2>0
    <3> QED BY <1>10, <3>1, DueFacts
  <2> HIDE DEF r, f, due, cut
  <2>4. DOMAIN r = {} /\ DOMAIN f = {}
    BY <2>1, <2>2
  <2>5. Carries(r, f, c, due, cut)
    BY <2>3, <2>4 DEF Carries
  <2> QED BY <2>5 DEF r, f, due, cut
<1>14. PipelineExact
  BY <1>10, <1>13 DEF PipelineExact
<1> QED BY <1>1, <1>11, <1>12, <1>14 DEF IInv

\* Between any two connected parties and on each channel id, what is ready,
\* what is in the buffers, the socket and the send queue are, in this order
\* and without a gap, the data of exactly the calls the receiver has yet to
\* make, and of a party that died a prefix of them: no message is lost,
\* duplicated, reordered or delivered to another channel by the send thread,
\* the receive thread or the matcher (deNetwork/multi.rs), for any number of
\* workers and channels, any programs, any interleaving and any crash.
THEOREM Pipeline == Spec => []PipelineExact
<1>1. IInv => PipelineExact
  BY DEF IInv
<1> QED BY <1>1, InitIInv, NextIInv, PTL DEF Spec

\* The threads, queues and sockets of deNetwork/multi.rs implement the
\* collective calls of the DeNet trait: a gather returns to the master every
\* worker's argument of the same call, and a scatter or uniform returns to a
\* worker the master's argument of the same call.
THEOREM Refinement == Spec => Implements
<1>1. Init => C!Init
  BY InitCollective DEF C!Init, CP!Init, C!Party, CP!Party
<1>2. IInv /\ [Next]_vars => [C!Next]_(C!vars)
  <2> SUFFICES ASSUME IInv, [Next]_vars PROVE [C!Next]_(C!vars)
    OBVIOUS
  <2>1. [CP!Next]_(CP!vars)
    BY StepPreserves
  <2>2. C!vars = CP!vars /\ C!vars' = CP!vars'
    BY DEF C!vars, CP!vars
  <2>3. CP!Next => C!Next
    BY DEF C!Next, CP!Next, C!Gather, CP!Gather, C!HandOut, CP!HandOut, C!Contribute, CP!Contribute,
      C!Obtain, CP!Obtain, C!Calls, CP!Calls, C!Next1, CP!Next1, C!Returns, CP!Returns,
      C!GatherResult, CP!GatherResult, C!MasterArg, CP!MasterArg, C!Single, CP!Single,
      C!Multi, CP!Multi, C!Arg, CP!Arg, C!Party, CP!Party
  <2> QED BY <2>1, <2>2, <2>3
<1> QED BY <1>1, <1>2, InitIInv, NextIInv, PTL DEF Spec, Implements, C!Spec

\* The network inherits what is proved of the collective calls: a party that
\* has returned from the second half of a barrier, a gather and a call that
\* receives, knows that every party has gone through the first.
THEOREM NetworkBarrier == Spec => []C!BarrierSafe
<1>1. IInv /\ [Next]_vars => [CP!Next]_(CP!vars)
  BY StepPreserves
<1>2. CP!Spec => []CP!BarrierSafe
  BY CollectiveAssumptions, CP!BarrierHolds
<1>3. CP!BarrierSafe => C!BarrierSafe
  BY DEF CP!BarrierSafe, C!BarrierSafe, CP!IsReceive, C!IsReceive, CP!Party, C!Party
<1> QED BY <1>1, <1>2, <1>3, InitCollective, InitIInv, NextIInv, PTL DEF Spec, CP!Spec
-----------------------------------------------------------------------------
(* Without a crash.                                                        *)
Calm ==
  /\ Crashable = {}
  /\ NoPanic
  /\ \A p \in Party : \A q \in Peers(p) :
       q \in closed[p] => (shut[p] \/ shut[q]) /\ (~shut[p] => sock[q][p] = <<>>)

\* A flow is empty only if each of its buffers is.
LEMMA ConcatEmpty ==
  ASSUME NEW S, NEW s \in Seq(S), NEW t \in Seq(S), s \o t = <<>>
  PROVE  s = <<>> /\ t = <<>>
<1>1. Len(s) \in Nat /\ Len(t) \in Nat /\ Len(s \o t) = Len(s) + Len(t) /\ Len(<<>>) = 0
  BY ConcatProperties, LenProperties
<1>2. Len(s) = 0 /\ Len(t) = 0
  BY <1>1
<1> QED BY <1>2, EmptySeq

\* A worker does not wait on a channel whose receive thread has ended.
LEMMA ReceiveCannotFail ==
  ASSUME IInv, Calm, NEW w \in Worker, NEW c \in Channel
  PROVE  ~ReceiveFails(w, c)
<1> SUFFICES ASSUME ReceiveFails(w, c) PROVE FALSE
  OBVIOUS
<1> USE PipesOf
<1>1. /\ w \in Party /\ Master \in Party /\ w # Master /\ Peers(w) = {Master} /\ w \in Peers(Master)
      /\ NoData # Master
  BY PartyFacts
<1>2. /\ proc[w] = "up" /\ pos[w][c] < Len(prog[c]) /\ OpAt(w, c) \in SentBy(Master)
      /\ recvq[w][c] = <<>> /\ closed[w] # {} /\ from[w] = NoData
  BY DEF ReceiveFails, Calls, SentBy
<1>3. Master \in closed[w]
  BY <1>1, <1>2 DEF TypeOK
<1>4. shut[Master] /\ sock[Master][w] = <<>> /\ proc[Master] # "aborted"
  BY <1>1, <1>2, <1>3 DEF Calm, NoPanic, Life, LifeOf
<1>5. sendq[Master] = <<>> /\ writing[Master] = NoFun /\ Finished(Master)
  BY <1>1, <1>4 DEF Life, LifeOf, TypeOK
<1> DEFINE k == Step(w, c)
           due == Due(Master, w, c)
<1>6. k \in DOMAIN due
  <2>1. /\ pos[w][c] \in Nat /\ pos[Master][c] = Len(prog[c]) /\ pos[Master][c] \in Nat
    BY <1>1, <1>5 DEF TypeOK, Finished
  <2>2. k \in Nat /\ pos[w][c] < k /\ k =< pos[Master][c] /\ prog[c][k] \in SentBy(Master)
    BY <1>2, <2>1 DEF OpAt, Step
  <2> QED BY <1>1, <2>2, DueFacts
<1>7. Ready(Master, w, c) = <<>>
  BY <1>1, <1>2 DEF Ready
<1>8. Flow(Master, w) = <<>>
  <2>1. Unparsed(Master, w) = <<>> /\ InWriting(Master, w) = <<>>
    BY <1>1, <1>2, <1>5, NothingWritten DEF Unparsed, InWriting
  <2>2. MessagesTo(<<>>, w) = <<>>
    <3>1. MessagesTo(<<>>, w) = [i \in 1..0 |-> MessageTo(<<>>[i], w)]
      BY DEF MessagesTo
    <3>2. MessagesTo(<<>>, w) \in Seq(Message)
      BY <1>1, <1>5, PipeTypes
    <3>3. Len(MessagesTo(<<>>, w)) = 0
      BY <3>1, <3>2, LenProperties
    <3> QED BY <3>2, <3>3, EmptySeq
  <2>3. Flow(Master, w) = (<<>> \o <<>>) \o (<<>> \o <<>>)
    BY <1>4, <1>5, <2>1, <2>2 DEF Flow
  <2>4. <<>> \o <<>> = <<>>
    BY EmptySeq, ConcatEmptySeq
  <2> QED BY <2>3, <2>4
<1>9. Carries(<<>>, <<>>, c, due, FALSE)
  <2>1. Carries(Ready(Master, w, c), Flow(Master, w), c, due, proc[Master] = "aborted")
    BY <1>1, <1>2 DEF Pipes
  <2>2. (proc[Master] = "aborted") = FALSE
    BY <1>4
  <2> QED BY <1>7, <1>8, <2>1, <2>2
<1> HIDE DEF k, due
<1>10. DOMAIN <<>> = {}
  OBVIOUS
<1> QED BY <1>6, <1>9, <1>10 DEF Carries

\* Without a crash no step aborts a party: no worker waits on a closed channel,
\* and no peer is written to after it has gone.
LEMMA NobodyAborts ==
  ASSUME IInv, Calm, [Next]_vars
  PROVE  \A p \in Party : proc'[p] # "aborted"
<1> USE PipesOf
<1>1. \A p \in Party : proc[p] # "aborted"
  BY DEF Calm, NoPanic
<1>2. ASSUME NEW p \in Party, SendThread(p) PROVE proc' = proc
  <2>1. ASSUME NEW q \in Peers(p), Write(p, q) PROVE proc' = proc
    <3>1. q \in DOMAIN writing[p] /\ proc[q] # "aborted"
      BY <1>1, <2>1, PartyFacts DEF Write
    <3>2. Open(q)
      BY <3>1, NothingForGone
    <3> QED BY <2>1, <3>2 DEF Write, Written
  <2> QED BY <1>2, <2>1 DEF SendThread, TakeEntry, TakeShutdown
<1>3. ASSUME NEW p \in Party, RecvThread(p) PROVE proc' = proc
  BY <1>3 DEF RecvThread, Read, ReadEvent, Parse, ParseMaster, ParseWorker, ParseDone
<1>4. ASSUME NEW c \in Channel, MasterCall(c) PROVE proc' = proc
  BY <1>4 DEF MasterCall, GatherMaster, ScatterMaster, UniformMaster, Returns
<1>5. ASSUME NEW c \in Channel, NEW w \in Worker, WorkerCall(w, c) PROVE proc' = proc
  BY <1>5, ReceiveCannotFail DEF WorkerCall, GatherWorker, ReceiveWorker, Returns
<1>6. ASSUME NEW p \in Party, Deinit(p) \/ JoinSender(p)
      PROVE  \A q \in Party : proc'[q] # "aborted"
  <2>1. PICK x \in {"joining", "exited"} : proc' = [proc EXCEPT ![p] = x]
    BY <1>6 DEF Deinit, JoinSender
  <2>2. DOMAIN proc = Party
    BY DEF TypeOK
  <2>3. \A q \in Party : proc'[q] = IF q = p THEN x ELSE proc[q]
    BY <2>1, <2>2
  <2> QED BY <1>1, <2>1, <2>3
<1>7. ASSUME NEW p \in Party, Crash(p) PROVE FALSE
  BY <1>7 DEF Crash, Calm
<1>8. CASE UNCHANGED vars
  BY <1>1, <1>8 DEF vars
<1>9. CASE AllGone
  BY <1>1, <1>9 DEF AllGone, vars
<1> QED BY <1>1, <1>2, <1>3, <1>4, <1>5, <1>6, <1>7, <1>8, <1>9 DEF Next

\* The invariant of a network without crashes is inductive.
LEMMA NextCalm == IInv /\ Calm /\ [Next]_vars => Calm'
<1> SUFFICES ASSUME IInv, Calm, [Next]_vars PROVE Calm'
  OBVIOUS
<1> USE PipesOf
<1>1. \A p \in Party : proc[p] # "aborted" /\ proc'[p] # "aborted"
  BY NobodyAborts DEF Calm, NoPanic
<1> DEFINE Quiet(p, q) ==
             q \in closed[p] => (shut[p] \/ shut[q]) /\ (~shut[p] => sock[q][p] = <<>>)
<1>2. \A p \in Party : \A q \in Peers(p) : Quiet(p, q)
  BY DEF Calm
<1>3. \A p \in Party : \A q \in Peers(p) : q \in Party /\ p \in Peers(q)
  BY PartyFacts
<1>4. ASSUME UNCHANGED <<closed, shut, sock>> PROVE \A p \in Party : \A q \in Peers(p) : Quiet(p, q)'
  BY <1>2, <1>4
<1>5. ASSUME NEW a \in Party, Abort(a) PROVE FALSE
  BY <1>1, <1>5 DEF Abort, TypeOK
<1>6. ASSUME NEW a \in Party, SendThread(a)
      PROVE  \A p \in Party : \A q \in Peers(p) : Quiet(p, q)'
  <2>1. CASE TakeEntry(a)
    BY <1>4, <2>1 DEF TakeEntry, recvVars
  <2>2. CASE TakeShutdown(a)
    <3>1. /\ closed' = closed /\ sock' = sock /\ shut' = [shut EXCEPT ![a] = TRUE] /\ DOMAIN shut = Party
      BY <2>2 DEF TakeShutdown, recvVars, TypeOK
    <3>2. \A p \in Party : shut'[p] = IF p = a THEN TRUE ELSE shut[p]
      BY <3>1
    <3> QED BY <1>2, <1>3, <3>1, <3>2
  <2>3. ASSUME NEW b \in Peers(a), Write(a, b)
        PROVE  \A p \in Party : \A q \in Peers(p) : Quiet(p, q)'
    <3>1. CASE UNCHANGED sock /\ Written(a, b)
      BY <1>4, <3>1 DEF Written, recvVars
    <3>2. CASE /\ Open(b) /\ b \in DOMAIN writing[a]
               /\ sock' = [sock EXCEPT ![a][b] = Append(@, writing[a][b])] /\ Written(a, b)
      <4>1. closed' = closed /\ shut' = shut
        BY <3>2 DEF Written, recvVars
      <4>2. ~shut[a] /\ ~shut[b]
        BY <3>2, NothingWritten DEF Life, LifeOf, Open
      <4>3. ASSUME NEW p \in Party, NEW q \in Peers(p), p # b \/ q # a
            PROVE  sock'[q][p] = sock[q][p]
        <5>1. DOMAIN sock = Party /\ \A x \in Party : DOMAIN sock[x] = Party
          BY DEF TypeOK
        <5> DEFINE m == writing[a][b]
        <5>2. sock' = [sock EXCEPT ![a][b] = Append(@, m)]
          BY <3>2
        <5> HIDE DEF m
        <5> QED BY <1>3, <4>3, <5>1, <5>2
      <4>4. ASSUME NEW p \in Party, NEW q \in Peers(p) PROVE Quiet(p, q)'
        <5>1. CASE p = b /\ q = a
          BY <1>2, <4>1, <4>2, <5>1
        <5>2. CASE p # b \/ q # a
          BY <1>2, <4>1, <4>3, <5>2
        <5> QED BY <5>1, <5>2
      <4> QED BY <4>4
    <3> QED BY <1>5, <2>3, <3>1, <3>2 DEF Write
  <2> QED BY <1>6, <2>1, <2>2, <2>3 DEF SendThread
<1>7. ASSUME NEW a \in Party, RecvThread(a)
      PROVE  \A p \in Party : \A q \in Peers(p) : Quiet(p, q)'
  <2>1. ASSUME NEW b \in Peers(a), ReadEvent(a, b)
        PROVE  \A p \in Party : \A q \in Peers(p) : Quiet(p, q)'
    <3>1. /\ sock' = [sock EXCEPT ![b][a] = <<>>] /\ shut' = shut
          /\ closed' = [closed EXCEPT ![a] = IF AtEnd(a, b) THEN @ \cup {b} ELSE @]
      BY <2>1 DEF ReadEvent, sendVars
    <3>2. /\ DOMAIN sock = Party /\ DOMAIN closed = Party /\ \A x \in Party : DOMAIN sock[x] = Party
      BY DEF TypeOK
    <3>3. AtEnd(a, b) => shut[a] \/ shut[b]
      BY <1>1, <1>3 DEF AtEnd, Alive, Life, LifeOf, TypeOK
    <3>4. ASSUME NEW p \in Party, NEW q \in Peers(p) PROVE Quiet(p, q)'
      <4>1. CASE p = a /\ q = b
        <5>1. sock'[q][p] = <<>>
          BY <1>3, <3>1, <3>2, <4>1
        <5>2. q \in closed'[p] => q \in closed[p] \/ AtEnd(a, b)
          BY <3>1, <3>2, <4>1
        <5> QED BY <1>2, <3>1, <3>3, <4>1, <5>1, <5>2
      <4>2. CASE p # a \/ q # b
        <5>1. sock'[q][p] = sock[q][p]
          BY <1>3, <3>1, <3>2, <4>2
        <5>2. q \in closed'[p] => q \in closed[p]
          BY <3>1, <3>2, <4>2
        <5> QED BY <1>2, <3>1, <5>1, <5>2
      <4> QED BY <4>1, <4>2
    <3> QED BY <3>4
  <2>2. CASE Parse(a) \/ ParseDone(a)
    BY <1>4, <2>2 DEF Parse, ParseMaster, ParseWorker, ParseDone, sendVars
  <2> QED BY <1>7, <2>1, <2>2 DEF RecvThread, Read
<1>8. ASSUME NEW c \in Channel, MasterCall(c)
      PROVE  \A p \in Party : \A q \in Peers(p) : Quiet(p, q)'
  BY <1>4, <1>8 DEF MasterCall, GatherMaster, ScatterMaster, UniformMaster, Enqueue, Dequeue,
    recvVars, sendVars
<1>9. ASSUME NEW c \in Channel, NEW w \in Worker, WorkerCall(w, c)
      PROVE  \A p \in Party : \A q \in Peers(p) : Quiet(p, q)'
  BY <1>4, <1>9, ReceiveCannotFail DEF WorkerCall, GatherWorker, ReceiveWorker, Enqueue, Dequeue,
    recvVars, sendVars
<1>10. ASSUME NEW a \in Party, Deinit(a) \/ JoinSender(a)
       PROVE  \A p \in Party : \A q \in Peers(p) : Quiet(p, q)'
  BY <1>4, <1>10 DEF Deinit, JoinSender, Enqueue, recvVars, sendVars
<1>11. ASSUME NEW a \in Party, Crash(a) PROVE FALSE
  BY <1>5, <1>11 DEF Crash
<1>12. ASSUME UNCHANGED vars PROVE \A p \in Party : \A q \in Peers(p) : Quiet(p, q)'
  BY <1>4, <1>12 DEF vars, recvVars, sendVars
<1>13. \A p \in Party : \A q \in Peers(p) : Quiet(p, q)'
  BY <1>6, <1>7, <1>8, <1>9, <1>10, <1>11, <1>12 DEF Next, AllGone
<1> QED BY <1>1, <1>13 DEF Calm, NoPanic

\* A party that has shut its connections down has read all that was sent to it.
LEMMA CalmUnread == IInv /\ Calm => NothingUnreadAtShutdown
<1> SUFFICES ASSUME IInv, Calm, NEW p \in Party, shut[p]
             PROVE  /\ inbuf[p] = <<>>
                    /\ \A c \in Channel : recvq[p][c] = <<>>
                    /\ \A q \in Peers(p) :
                         /\ sock[q][p] = <<>> /\ p \notin DOMAIN writing[q]
                         /\ \A i \in DOMAIN sendq[q] : sendq[q][i].data.kind = "Shutdown"
                    /\ p = Master => \A c \in Channel, w \in Worker : match[c].queue[w] = <<>>
  BY DEF NothingUnreadAtShutdown
<1> USE PipesOf
<1>1. Finished(p) /\ proc[p] # "aborted"
  BY DEF Calm, NoPanic, Life, LifeOf, TypeOK
<1>2. ASSUME NEW q \in Peers(p)
      PROVE  /\ Unparsed(q, p) = <<>> /\ sock[q][p] = <<>> /\ InWriting(q, p) = <<>>
             /\ MessagesTo(sendq[q], p) = <<>>
             /\ \A c \in Channel : Ready(q, p, c) = <<>>
  <2> DEFINE u == Unparsed(q, p)
             s == sock[q][p]
             i == InWriting(q, p)
             t == MessagesTo(sendq[q], p)
  <2>1. q \in Party /\ p \in Peers(q)
    BY PartyFacts
  <2>2. Flow(q, p) = <<>> /\ \A c \in Channel : Ready(q, p, c) = <<>>
    BY <1>1, <2>1, NothingForFinished
  <2>3. /\ u \in Seq(Message) /\ s \in Seq(Message) /\ i \in Seq(Message) /\ t \in Seq(Message)
        /\ u \o s \in Seq(Message) /\ i \o t \in Seq(Message)
    BY <2>1, PipeTypes
  <2>4. (u \o s) \o (i \o t) = <<>>
    BY <2>2 DEF Flow
  <2> HIDE DEF u, s, i, t
  <2>5. u \o s = <<>> /\ i \o t = <<>>
    BY <2>3, <2>4, ConcatEmpty
  <2>6. u = <<>> /\ s = <<>> /\ i = <<>> /\ t = <<>>
    BY <2>3, <2>5, ConcatEmpty
  <2> QED BY <2>2, <2>6 DEF u, s, i, t
<1>3. inbuf[p] = <<>>
  <2>1. CASE from[p] = NoData
    BY <2>1 DEF Life, LifeOf
  <2>2. CASE from[p] \in Peers(p)
    BY <1>2, <2>2 DEF Unparsed
  <2> QED BY <2>1, <2>2 DEF TypeOK
<1>4. ASSUME NEW q \in Peers(p)
      PROVE  /\ p \notin DOMAIN writing[q]
             /\ \A i \in DOMAIN sendq[q] : sendq[q][i].data.kind = "Shutdown"
  <2> DEFINE s == sendq[q]
             n == Len(s)
             m == IF n > 0 /\ s[n].data.kind = "Shutdown" THEN n - 1 ELSE n
  <2>1. q \in Party /\ p \in Peers(q)
    BY PartyFacts
  <2>2. p \notin DOMAIN writing[q]
    <3>1. InWriting(q, p) = <<>> /\ <<writing[q][p]>> # <<>>
      BY <1>2
    <3> QED BY <3>1 DEF InWriting
  <2>3. s \in Seq(Entries) /\ n \in Nat /\ DOMAIN s = 1..n
    BY <2>1, QueueTypes, LenProperties
  <2>4. MessagesTo(s, p) = [i \in 1..m |-> MessageTo(s[i], p)] /\ MessagesTo(s, p) = <<>>
    BY <1>2 DEF MessagesTo
  <2> HIDE DEF s, n
  <2>5. m \in Nat /\ (m = n \/ (n > 0 /\ m = n - 1 /\ s[n].data.kind = "Shutdown"))
    BY <2>3
  <2> HIDE DEF m
  <2>6. m = 0
    <3>1. DOMAIN MessagesTo(s, p) = 1..m /\ DOMAIN MessagesTo(s, p) = {}
      BY <2>4
    <3> HIDE DEF m
    <3>2. m < 1
      BY <2>5, <3>1
    <3> QED BY <2>5, <3>2
  <2>7. \A i \in DOMAIN s : i = n /\ s[n].data.kind = "Shutdown"
    BY <2>3, <2>5, <2>6
  <2> QED BY <2>2, <2>7 DEF s
<1>5. CASE p # Master
  <2>1. Peers(p) = {Master}
    BY <1>5, PartyFacts
  <2>2. \A c \in Channel : recvq[p][c] = <<>>
    BY <1>2, <1>5, <2>1 DEF Ready
  <2> QED BY <1>2, <1>3, <1>4, <1>5, <2>2
<1>6. CASE p = Master
  <2>1. ASSUME NEW c \in Channel, NEW w \in Worker
        PROVE  recvq[Master][c] = <<>> /\ match[c].queue[w] = <<>>
    <3> DEFINE s == recvq[Master][c]
               u == match[c].queue[w]
    <3>1. s \in Seq(Round) /\ u \in Seq(Payload)
      BY DEF TypeOK, Matcher
    <3>2. Column(s, w) \o u = <<>>
      BY <1>2, <1>6, PartyFacts, ReadyColumn
    <3> HIDE DEF s, u
    <3>3. Column(s, w) \in Seq(Payload) /\ Len(Column(s, w)) = Len(s)
      BY <3>1, ColumnType
    <3>4. Column(s, w) = <<>> /\ u = <<>>
      BY <3>1, <3>2, <3>3, ConcatEmpty
    <3>5. Len(s) = 0
      BY <3>3, <3>4
    <3> QED BY <3>1, <3>4, <3>5, EmptySeq DEF s, u
  <2>2. \A c \in Channel : recvq[p][c] = <<>>
    BY <1>6, <2>1, PartyAssumption
  <2> QED BY <1>2, <1>3, <1>4, <1>6, <2>1, <2>2
<1> QED BY <1>5, <1>6

\* A network without crashes starts calm.
LEMMA InitCalm == Crashable = {} /\ Init => Calm
BY DEF Init, Calm, NoPanic

\* In a network in which no party is killed from outside, no thread panics,
\* whatever the programs: the send thread never writes to a stream that its
\* peer has shut down, and no worker's recv().unwrap() waits on a queue that
\* the end of the receive thread has closed.
THEOREM NobodyPanics == Crashable = {} /\ Spec => []NoPanic
<1>1. IInv /\ Calm => NoPanic
  BY DEF Calm
<1> QED BY <1>1, InitCalm, InitIInv, NextIInv, NextCalm, PTL DEF Spec

\* Nor is a connection shut down with anything unread on it: when deinit has
\* closed a party's ends, its queues, its buffers, the matcher and its peers'
\* send queues hold nothing more for it.
THEOREM ShutdownReadsAll == Crashable = {} /\ Spec => []NothingUnreadAtShutdown
<1>1. IInv /\ Calm => NothingUnreadAtShutdown
  BY CalmUnread
<1> QED BY <1>1, InitCalm, InitIInv, NextIInv, NextCalm, PTL DEF Spec
=============================================================================
