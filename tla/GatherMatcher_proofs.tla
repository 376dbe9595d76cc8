------------------------ MODULE GatherMatcher_proofs ------------------------
(***************************************************************************)
(* The master's matching is correct for any number of workers, channels    *)
(* and messages.  The argument: the count is the number of non-empty       *)
(* queues, and some queue is empty whenever the closure is not running.    *)
(* So a message completes a round only if its own queue was empty, that    *)
(* queue holds one message then and none after the pop, and a single pop   *)
(* per message is enough.                                                  *)
(***************************************************************************)
EXTENDS GatherMatcher, FiniteSetTheorems, SequenceTheorems, TLAPS

HasMessage(q) == {w \in Worker : q[w] # <<>>}

(* The count is exact and no complete round is in the queues.              *)
Settled(m) ==
  /\ m.ready = Cardinality(HasMessage(m.queue))
  /\ HasMessage(m.queue) # Worker

States == [queue : [Worker -> Seq(Data)], ready : Nat]

-----------------------------------------------------------------------------
(* After a push the count is exact again.                                  *)
LEMMA PushCounts ==
  ASSUME NEW m \in States, Settled(m), NEW w \in Worker, NEW d \in Data
  PROVE  /\ Pushed(m, w, d) \in States
         /\ HasMessage(Pushed(m, w, d).queue) = HasMessage(m.queue) \cup {w}
         /\ Pushed(m, w, d).ready = Cardinality(HasMessage(Pushed(m, w, d).queue))
<1> DEFINE p == Pushed(m, w, d)
           S == HasMessage(m.queue)
<1>1. IsFiniteSet(S) /\ Cardinality(S) \in Nat
  BY WorkerAssumption, FS_Subset, FS_CardinalityType DEF HasMessage
<1>2. /\ p.queue \in [Worker -> Seq(Data)]
      /\ \A v \in Worker : v # w => p.queue[v] = m.queue[v]
      /\ p.queue[w] = Append(m.queue[w], d)
  BY DEF Pushed, States
<1>3. p.queue[w] # <<>>
  BY <1>2 DEF States
<1>4. HasMessage(p.queue) = S \cup {w}
  BY <1>2, <1>3 DEF HasMessage
<1>5. p.ready = IF m.queue[w] = <<>> THEN m.ready + 1 ELSE m.ready
  BY DEF Pushed
<1>6. p.ready = Cardinality(S \cup {w})
  <2>1. m.queue[w] = <<>> <=> w \notin S
    BY DEF HasMessage
  <2>2. Cardinality(S \cup {w}) = IF w \in S THEN Cardinality(S) ELSE Cardinality(S) + 1
    BY <1>1, FS_AddElement
  <2> QED BY <1>1, <1>5, <2>1, <2>2 DEF Settled
<1>7. p \in States
  <2>1. p.ready \in Nat
    BY <1>5 DEF States
  <2> QED BY <1>2, <2>1 DEF Pushed, States
<1> QED BY <1>4, <1>6, <1>7

(* A push completes a round iff every queue has a message then, and if so  *)
(* the queue it went to was empty.                                         *)
LEMMA PushCompletes ==
  ASSUME NEW m \in States, Settled(m), NEW w \in Worker, NEW d \in Data
  PROVE  /\ Complete(Pushed(m, w, d)) <=> HasMessage(Pushed(m, w, d).queue) = Worker
         /\ Complete(Pushed(m, w, d)) => m.queue[w] = <<>>
<1> DEFINE p == Pushed(m, w, d)
           T == HasMessage(p.queue)
<1>1. T \in SUBSET Worker
  BY DEF HasMessage
<1>2. T = Worker <=> Cardinality(T) = Cardinality(Worker)
  BY <1>1, WorkerAssumption, FS_Subset
<1>3. p.ready = Cardinality(T) /\ T = HasMessage(m.queue) \cup {w}
  BY PushCounts
<1>4. Complete(p) <=> T = Worker
  BY <1>2, <1>3 DEF Complete
<1>5. T = Worker => w \notin HasMessage(m.queue)
  BY <1>3 DEF Settled, HasMessage
<1> QED BY <1>4, <1>5 DEF HasMessage

(* Popping a complete round leaves the count exact and an empty queue.     *)
LEMMA PopSettles ==
  ASSUME NEW m \in States, Settled(m), NEW w \in Worker, NEW d \in Data,
         Complete(Pushed(m, w, d))
  PROVE  /\ Popped(Pushed(m, w, d)) \in States
         /\ Settled(Popped(Pushed(m, w, d)))
         /\ Heads(Pushed(m, w, d)) \in [Worker -> Data]
<1> DEFINE p == Pushed(m, w, d)
           E == {v \in Worker : Tail(p.queue[v]) = <<>>}
           q == Popped(p)
<1>1. p \in States /\ HasMessage(p.queue) = Worker /\ p.ready = Cardinality(Worker)
  BY PushCounts, PushCompletes
<1>2. \A v \in Worker : p.queue[v] \in Seq(Data) /\ p.queue[v] # <<>>
  BY <1>1 DEF States, HasMessage
<1>3. \A v \in Worker : Head(p.queue[v]) \in Data /\ Tail(p.queue[v]) \in Seq(Data)
  BY <1>2
<1>4. q.queue = [v \in Worker |-> Tail(p.queue[v])] /\ q.ready = p.ready - Cardinality(E)
  BY DEF Popped
<1>5. HasMessage(q.queue) = Worker \ E
  BY <1>4 DEF HasMessage
<1>6. /\ Cardinality(Worker \ E) = Cardinality(Worker) - Cardinality(E)
      /\ Cardinality(Worker \ E) \in Nat
  <2>1. Cardinality(Worker \ E) = Cardinality(Worker) - Cardinality(Worker \cap E)
    BY WorkerAssumption, FS_Difference
  <2>2. Worker \cap E = E
    OBVIOUS
  <2>3. IsFiniteSet(Worker \ E)
    BY WorkerAssumption, FS_Difference
  <2> QED BY <2>1, <2>2, <2>3, FS_CardinalityType
<1>7. q.ready = Cardinality(HasMessage(q.queue))
  BY <1>1, <1>4, <1>5, <1>6
<1>8. w \in E
  <2>1. m.queue[w] = <<>>
    BY PushCompletes
  <2>2. p.queue[w] = Append(m.queue[w], d)
    BY DEF Pushed, States
  <2>3. Tail(Append(<<>>, d)) = <<>>
    OBVIOUS
  <2> QED BY <2>1, <2>2, <2>3
<1>9. Settled(q)
  BY <1>5, <1>7, <1>8 DEF Settled
<1>10. q \in States
  BY <1>3, <1>4, <1>5, <1>6, <1>7 DEF Popped, States
<1>11. Heads(p) \in [Worker -> Data]
  BY <1>3 DEF Heads
<1> QED BY <1>9, <1>10, <1>11
-----------------------------------------------------------------------------
(* The inductive invariant: the four properties together.  ReadyExact says *)
(* when a round is popped; NothingLost ties the heads of the queues to the *)
(* message that comes next from every worker, which RoundsAligned needs.   *)
IInv == TypeOK /\ ReadyExact /\ NothingLost /\ RoundsAligned

LEMMA InitIInv == Init => IInv
<1> SUFFICES ASSUME Init PROVE IInv
  OBVIOUS
<1>1. TypeOK
  BY DEF Init, NoMessages, TypeOK
<1>2. ReadyExact
  <2> SUFFICES ASSUME NEW c \in Channel
               PROVE  ready[c] = Cardinality(NonEmpty(c)) /\ NonEmpty(c) # Worker
    BY DEF ReadyExact
  <2>1. NonEmpty(c) = {}
    BY DEF Init, NoMessages, NonEmpty
  <2> QED BY <2>1, WorkerAssumption, FS_EmptySet DEF Init, NoMessages
<1>3. NothingLost /\ RoundsAligned
  BY DEF Init, NoMessages, NothingLost, RoundsAligned
<1> QED BY <1>1, <1>2, <1>3 DEF IInv

(* What a step leaves alone: the other channels.                           *)
LEMMA OtherChannels ==
  ASSUME IInv, NEW c \in Channel, NEW w \in Worker, NEW d \in Data,
         Receive(c, w, d), NEW x \in Channel, x # c
  PROVE  /\ queue'[x] = queue[x] /\ ready'[x] = ready[x]
         /\ sent'[x] = sent[x] /\ rounds'[x] = rounds[x]
BY DEF IInv, TypeOK, Receive

(* The rounds r, the queue s and all the messages t of one worker agree:   *)
(* what is in the rounds, then what is in the queue, is what was sent.     *)
Aligned(r, s, t, v) ==
  /\ r \in Seq([Worker -> Data]) /\ s \in Seq(Data) /\ t \in Seq(Data)
  /\ Len(t) = Len(r) + Len(s)
  /\ \A k \in 1..Len(s) : s[k] = t[Len(r) + k]
  /\ \A k \in 1..Len(r) : r[k][v] = t[k]

LEMMA AlignedInv ==
  ASSUME IInv, NEW c \in Channel, NEW w \in Worker
  PROVE  Aligned(rounds[c], queue[c][w], sent[c][w], w)
BY DEF IInv, TypeOK, NothingLost, RoundsAligned, Aligned

LEMMA AlignedLens ==
  ASSUME NEW r, NEW s, NEW t, NEW v, Aligned(r, s, t, v)
  PROVE  Len(r) =< Len(t)
BY DEF Aligned

(* A message that goes into the queue.                                     *)
LEMMA AppendAligns ==
  ASSUME NEW r, NEW s, NEW t, NEW v \in Worker, NEW d \in Data, Aligned(r, s, t, v)
  PROVE  Aligned(r, Append(s, d), Append(t, d), v)
<1>1. /\ r \in Seq([Worker -> Data]) /\ s \in Seq(Data) /\ t \in Seq(Data)
      /\ Len(r) \in Nat /\ Len(s) \in Nat /\ Len(t) = Len(r) + Len(s)
  BY DEF Aligned
<1>2. /\ Append(s, d) \in Seq(Data) /\ Append(t, d) \in Seq(Data)
      /\ Len(Append(s, d)) = Len(s) + 1 /\ Len(Append(t, d)) = Len(t) + 1
      /\ \A k \in 1..Len(s) : Append(s, d)[k] = s[k]
      /\ \A k \in 1..Len(t) : Append(t, d)[k] = t[k]
      /\ Append(s, d)[Len(s) + 1] = d /\ Append(t, d)[Len(t) + 1] = d
  BY <1>1, AppendProperties
<1>3. ASSUME NEW k \in 1..Len(Append(s, d))
      PROVE  Append(s, d)[k] = Append(t, d)[Len(r) + k]
  <2>1. CASE k = Len(s) + 1
    BY <1>1, <1>2, <2>1
  <2>2. CASE k \in 1..Len(s)
    <3>1. s[k] = t[Len(r) + k]
      BY <2>2 DEF Aligned
    <3>2. Len(r) + k \in 1..Len(t)
      BY <1>1, <2>2
    <3> QED BY <1>2, <2>2, <3>1, <3>2
  <2>3. k = Len(s) + 1 \/ k \in 1..Len(s)
    BY <1>1, <1>2
  <2> QED BY <2>1, <2>2, <2>3
<1>4. ASSUME NEW k \in 1..Len(r)
      PROVE  r[k][v] = Append(t, d)[k]
  <2>1. r[k][v] = t[k] /\ k \in 1..Len(t)
    BY <1>1 DEF Aligned
  <2> QED BY <1>2, <2>1
<1>5. Len(Append(t, d)) = Len(r) + Len(Append(s, d))
  BY <1>1, <1>2
<1> QED BY <1>1, <1>2, <1>3, <1>4, <1>5 DEF Aligned

(* The head of the queue that moves to the end of the rounds.              *)
LEMMA HeadMoves ==
  ASSUME NEW r, NEW s, NEW t, NEW v \in Worker, Aligned(r, s, t, v), s # <<>>,
         NEW h \in [Worker -> Data], h[v] = Head(s)
  PROVE  Aligned(Append(r, h), Tail(s), t, v)
<1>1. /\ r \in Seq([Worker -> Data]) /\ s \in Seq(Data) /\ t \in Seq(Data)
      /\ Len(r) \in Nat /\ Len(s) \in Nat /\ Len(s) >= 1 /\ Len(t) = Len(r) + Len(s)
      /\ h[v] = s[1]
  BY DEF Aligned
<1>2. /\ Tail(s) \in Seq(Data) /\ Len(Tail(s)) = Len(s) - 1
      /\ \A k \in 1..(Len(s) - 1) : Tail(s)[k] = s[k + 1]
  BY <1>1
<1>3. /\ Append(r, h) \in Seq([Worker -> Data])
      /\ Len(Append(r, h)) = Len(r) + 1
      /\ \A k \in 1..Len(r) : Append(r, h)[k] = r[k]
      /\ Append(r, h)[Len(r) + 1] = h
  BY <1>1
<1>4. ASSUME NEW k \in 1..Len(Tail(s))
      PROVE  Tail(s)[k] = t[Len(Append(r, h)) + k]
  <2>1. Tail(s)[k] = s[k + 1] /\ k + 1 \in 1..Len(s)
    BY <1>1, <1>2
  <2>2. s[k + 1] = t[Len(r) + (k + 1)]
    BY <2>1 DEF Aligned
  <2>3. Len(r) + (k + 1) = Len(Append(r, h)) + k
    BY <1>1, <1>3
  <2> QED BY <2>1, <2>2, <2>3
<1>5. ASSUME NEW k \in 1..Len(Append(r, h))
      PROVE  Append(r, h)[k][v] = t[k]
  <2>1. CASE k = Len(r) + 1
    <3>1. s[1] = t[Len(r) + 1]
      BY <1>1 DEF Aligned
    <3> QED BY <1>1, <1>3, <2>1, <3>1
  <2>2. CASE k \in 1..Len(r)
    BY <1>3, <2>2 DEF Aligned
  <2> QED BY <1>1, <1>3, <2>1, <2>2
<1>6. Len(t) = Len(Append(r, h)) + Len(Tail(s))
  BY <1>1, <1>2, <1>3
<1> QED BY <1>1, <1>2, <1>3, <1>4, <1>5, <1>6 DEF Aligned

(* A message that completes no round.                                      *)
LEMMA StepWaits ==
  ASSUME IInv, NEW c \in Channel, NEW w \in Worker, NEW d \in Data,
         Receive(c, w, d),
         ~Complete(Pushed([queue |-> queue[c], ready |-> ready[c]], w, d))
  PROVE  IInv'
<1> DEFINE m == [queue |-> queue[c], ready |-> ready[c]]
           p == Pushed(m, w, d)
<1>1. m \in States /\ Settled(m)
  BY DEF IInv, TypeOK, ReadyExact, NonEmpty, States, Settled, HasMessage
<1>2. /\ queue' = [queue EXCEPT ![c] = p.queue]
      /\ ready' = [ready EXCEPT ![c] = p.ready]
      /\ sent' = [sent EXCEPT ![c][w] = Append(@, d)]
      /\ rounds' = [rounds EXCEPT ![c] = @ \o <<>>]
  BY DEF Receive, Accept
<1>3. rounds' = rounds
  <2>1. rounds[c] \o <<>> = rounds[c]
    BY DEF IInv, TypeOK
  <2> QED BY <1>2, <2>1 DEF IInv, TypeOK
<1>4. /\ p \in States /\ p.ready = Cardinality(HasMessage(p.queue))
      /\ HasMessage(p.queue) # Worker
  BY <1>1, PushCounts, PushCompletes
<1>5. TypeOK'
  <2>1. queue' \in [Channel -> [Worker -> Seq(Data)]] /\ ready' \in [Channel -> Nat]
    BY <1>2, <1>4 DEF IInv, TypeOK, States
  <2>2. sent' \in [Channel -> [Worker -> Seq(Data)]]
    BY <1>2 DEF IInv, TypeOK
  <2> QED BY <1>3, <2>1, <2>2 DEF IInv, TypeOK
<1>6. ReadyExact'
  <2> SUFFICES ASSUME NEW x \in Channel
               PROVE  ready'[x] = Cardinality(NonEmpty(x)') /\ NonEmpty(x)' # Worker
    BY DEF ReadyExact
  <2>1. CASE x = c
    <3>1. queue'[c] = p.queue /\ ready'[c] = p.ready
      BY <1>2 DEF IInv, TypeOK
    <3>2. NonEmpty(x)' = HasMessage(p.queue)
      BY <2>1, <3>1 DEF NonEmpty, HasMessage
    <3> QED BY <1>4, <2>1, <3>1, <3>2
  <2>2. CASE x # c
    <3>1. NonEmpty(x)' = NonEmpty(x)
      BY <2>2, OtherChannels DEF NonEmpty
    <3> QED BY <2>2, <3>1, OtherChannels DEF IInv, ReadyExact
  <2> QED BY <2>1, <2>2
<1>7. ASSUME NEW x \in Channel, NEW v \in Worker, x # c \/ v # w
      PROVE  queue'[x][v] = queue[x][v] /\ sent'[x][v] = sent[x][v]
  <2>1. p.queue = [queue[c] EXCEPT ![w] = Append(@, d)]
    BY DEF Pushed
  <2> QED BY <1>2, <1>7, <2>1 DEF IInv, TypeOK
<1>8. /\ queue'[c][w] = Append(queue[c][w], d)
      /\ sent'[c][w] = Append(sent[c][w], d)
  <2>1. p.queue = [queue[c] EXCEPT ![w] = Append(@, d)]
    BY DEF Pushed
  <2> QED BY <1>2, <2>1 DEF IInv, TypeOK
<1>9. ASSUME NEW x \in Channel, NEW v \in Worker
      PROVE  Aligned(rounds'[x], queue'[x][v], sent'[x][v], v)
  <2>0. Aligned(rounds[x], queue[x][v], sent[x][v], v)
    BY AlignedInv
  <2>1. CASE x = c /\ v = w
    BY <1>3, <1>8, <2>0, <2>1, AppendAligns
  <2>2. CASE x # c \/ v # w
    BY <1>3, <1>7, <2>0, <2>2
  <2> QED BY <2>1, <2>2
<1>10. NothingLost' /\ RoundsAligned'
  <2>1. NothingLost'
    BY <1>9 DEF Aligned, NothingLost
  <2>2. ASSUME NEW x \in Channel, NEW v \in Worker
        PROVE  Len(rounds'[x]) =< Len(sent'[x][v])
    BY <1>9, AlignedLens
  <2>3. RoundsAligned'
    BY <1>9, <2>2 DEF Aligned, RoundsAligned
  <2> QED BY <2>1, <2>3
<1> QED BY <1>5, <1>6, <1>10 DEF IInv

(* A message that completes a round.                                       *)
LEMMA StepCompletes ==
  ASSUME IInv, NEW c \in Channel, NEW w \in Worker, NEW d \in Data,
         Receive(c, w, d),
         Complete(Pushed([queue |-> queue[c], ready |-> ready[c]], w, d))
  PROVE  IInv'
<1> DEFINE m == [queue |-> queue[c], ready |-> ready[c]]
           p == Pushed(m, w, d)
           q == Popped(p)
           h == Heads(p)
<1>1. m \in States /\ Settled(m)
  BY DEF IInv, TypeOK, ReadyExact, NonEmpty, States, Settled, HasMessage
<1>2. /\ queue' = [queue EXCEPT ![c] = q.queue]
      /\ ready' = [ready EXCEPT ![c] = q.ready]
      /\ sent' = [sent EXCEPT ![c][w] = Append(@, d)]
      /\ rounds' = [rounds EXCEPT ![c] = @ \o <<h>>]
  BY DEF Receive, Accept
<1>3. q \in States /\ Settled(q) /\ h \in [Worker -> Data]
  BY <1>1, PopSettles
<1>4. TypeOK'
  <2>1. queue' \in [Channel -> [Worker -> Seq(Data)]] /\ ready' \in [Channel -> Nat]
    BY <1>2, <1>3 DEF IInv, TypeOK, States
  <2>2. sent' \in [Channel -> [Worker -> Seq(Data)]]
    BY <1>2 DEF IInv, TypeOK
  <2>3. rounds' \in [Channel -> Seq([Worker -> Data])]
    <3>1. rounds[c] \o <<h>> \in Seq([Worker -> Data])
      BY <1>3 DEF IInv, TypeOK
    <3> QED BY <1>2, <3>1 DEF IInv, TypeOK
  <2> QED BY <2>1, <2>2, <2>3 DEF TypeOK
<1>5. ReadyExact'
  <2> SUFFICES ASSUME NEW x \in Channel
               PROVE  ready'[x] = Cardinality(NonEmpty(x)') /\ NonEmpty(x)' # Worker
    BY DEF ReadyExact
  <2>1. CASE x = c
    <3>1. queue'[c] = q.queue /\ ready'[c] = q.ready
      BY <1>2 DEF IInv, TypeOK
    <3>2. NonEmpty(x)' = HasMessage(q.queue)
      BY <2>1, <3>1 DEF NonEmpty, HasMessage
    <3> QED BY <1>3, <2>1, <3>1, <3>2 DEF Settled
  <2>2. CASE x # c
    <3>1. NonEmpty(x)' = NonEmpty(x)
      BY <2>2, OtherChannels DEF NonEmpty
    <3> QED BY <2>2, <3>1, OtherChannels DEF IInv, ReadyExact
  <2> QED BY <2>1, <2>2
<1>6. ASSUME NEW v \in Worker
      PROVE  /\ p.queue[v] = IF v = w THEN Append(queue[c][v], d) ELSE queue[c][v]
             /\ p.queue[v] \in Seq(Data) /\ p.queue[v] # <<>>
             /\ h[v] = Head(p.queue[v])
             /\ queue'[c][v] = Tail(p.queue[v])
             /\ sent'[c][v] = IF v = w THEN Append(sent[c][v], d) ELSE sent[c][v]
  <2>1. p.queue = [queue[c] EXCEPT ![w] = Append(@, d)]
    BY DEF Pushed
  <2>2. p.queue[v] = IF v = w THEN Append(queue[c][v], d) ELSE queue[c][v]
    BY <2>1 DEF IInv, TypeOK
  <2>3. p.queue[v] \in Seq(Data) /\ p.queue[v] # <<>>
    <3>1. p \in States /\ HasMessage(p.queue) = Worker
      BY <1>1, PushCounts, PushCompletes
    <3> HIDE DEF p
    <3> QED BY <3>1 DEF States, HasMessage
  <2>4. q.queue[v] = Tail(p.queue[v]) /\ h[v] = Head(p.queue[v])
    BY DEF Popped, Heads
  <2>5. queue'[c] = q.queue
    BY <1>2 DEF IInv, TypeOK
  <2>6. sent'[c][v] = IF v = w THEN Append(sent[c][v], d) ELSE sent[c][v]
    BY <1>2 DEF IInv, TypeOK
  <2> QED BY <2>2, <2>3, <2>4, <2>5, <2>6
<1>7. ASSUME NEW x \in Channel, NEW v \in Worker
      PROVE  Aligned(rounds'[x], queue'[x][v], sent'[x][v], v)
  <2>0. Aligned(rounds[x], queue[x][v], sent[x][v], v)
    BY AlignedInv
  <2>1. CASE x = c
    <3>1. Aligned(rounds[c], p.queue[v], sent'[c][v], v)
      <4>1. CASE v = w
        BY <1>6, <2>0, <2>1, <4>1, AppendAligns
      <4>2. CASE v # w
        BY <1>6, <2>0, <2>1, <4>2
      <4> QED BY <4>1, <4>2
    <3>2. rounds'[c] = Append(rounds[c], h)
      <4>1. rounds[c] \o <<h>> = Append(rounds[c], h)
        BY <1>3 DEF IInv, TypeOK
      <4> QED BY <1>2, <4>1 DEF IInv, TypeOK
    <3>3. p.queue[v] # <<>> /\ queue'[c][v] = Tail(p.queue[v]) /\ h[v] = Head(p.queue[v])
      BY <1>6
    <3> HIDE DEF p, h
    <3> QED BY <1>3, <2>1, <3>1, <3>2, <3>3, HeadMoves
  <2>2. CASE x # c
    BY <2>0, <2>2, OtherChannels
  <2> QED BY <2>1, <2>2
<1>8. NothingLost' /\ RoundsAligned'
  <2>1. NothingLost'
    BY <1>7 DEF Aligned, NothingLost
  <2>2. ASSUME NEW x \in Channel, NEW v \in Worker
        PROVE  Len(rounds'[x]) =< Len(sent'[x][v])
    BY <1>7, AlignedLens
  <2>3. RoundsAligned'
    BY <1>7, <2>2 DEF Aligned, RoundsAligned
  <2> QED BY <2>1, <2>3
<1> QED BY <1>4, <1>5, <1>8 DEF IInv

LEMMA NextIInv == IInv /\ [Next]_vars => IInv'
<1> SUFFICES ASSUME IInv, [Next]_vars PROVE IInv'
  OBVIOUS
<1>1. CASE Next
  <2>1. PICK c \in Channel, w \in Worker, d \in Data : Receive(c, w, d)
    BY <1>1 DEF Next
  <2> QED BY <2>1, StepWaits, StepCompletes
<1>2. CASE UNCHANGED vars
  BY <1>2 DEF vars, IInv, TypeOK, ReadyExact, NonEmpty, NothingLost, RoundsAligned
<1> QED BY <1>1, <1>2

(* The invariant holds along every behaviour.                              *)
LEMMA Invariance == Spec => []IInv
<1> QED BY InitIInv, NextIInv, PTL DEF Spec

(* What the matching promises is always so: num_peers_ready is exact, no   *)
(* complete round waits in the queues, the queues lose nothing, and slot w *)
(* of the k-th round is the k-th message of worker w.                      *)
THEOREM MatcherCorrect == Spec => [](TypeOK /\ ReadyExact /\ NothingLost /\ RoundsAligned)
<1>1. IInv => TypeOK /\ ReadyExact /\ NothingLost /\ RoundsAligned
  BY DEF IInv
<1> QED BY <1>1, Invariance, PTL

(* num_peers_ready is the number of workers with a message queued, and one *)
(* pop per message never leaves a complete round behind.                   *)
THEOREM NoRoundWaits == Spec => []ReadyExact
<1>1. IInv => ReadyExact
  BY DEF IInv
<1> QED BY <1>1, Invariance, PTL

(* What is not in a round yet is in the queue of its worker, in order: the *)
(* pops of a round neither drop nor repeat a message that came early.      *)
THEOREM QueuesLoseNothing == Spec => []NothingLost
<1>1. IInv => NothingLost
  BY DEF IInv
<1> QED BY <1>1, Invariance, PTL

(* No gather that could complete is held back in the queues.               *)
THEOREM NeverHeldBack == Spec => []NoRoundHeldBack
<1>1. IInv => NoRoundHeldBack
  <2> SUFFICES ASSUME IInv, NEW c \in Channel
               PROVE  \E w \in Worker : Len(rounds[c]) = Len(sent[c][w])
    BY DEF NoRoundHeldBack
  <2>1. PICK w \in Worker : queue[c][w] = <<>>
    BY DEF IInv, ReadyExact, NonEmpty
  <2>2. Len(sent[c][w]) = Len(rounds[c]) + Len(queue[c][w])
    BY DEF IInv, NothingLost
  <2>3. Len(rounds[c]) \in Nat /\ Len(queue[c][w]) = 0
    BY <2>1 DEF IInv, TypeOK
  <2> QED BY <2>2, <2>3
<1> QED BY <1>1, Invariance, PTL
=============================================================================
