-------------------------- MODULE LiveState_proofs --------------------------
(***************************************************************************)
(* Alfred's copy is what Home Assistant reports while it is connected, and *)
(* empty while it is away and after shutdown, for any number of entities,  *)
(* failed writes and credential pushes, whatever the writers interleave.   *)
(***************************************************************************)
EXTENDS LiveState, SequenceTheorems, TLAPS

-----------------------------------------------------------------------------
(* Sequences                                                               *)

\* r is q without its i-th element.
Drops(q, r, i) ==
    /\ i \in DOMAIN q
    /\ Len(r) = Len(q) - 1
    /\ \A k \in 1..Len(r) : r[k] = IF k < i THEN q[k] ELSE q[k + 1]

\* Where the k-th element of q is once the i-th is gone.
Place(k, i) == IF k < i THEN k ELSE k - 1

\* A sequence has its indices and values.
LEMMA SeqFacts ==
  ASSUME NEW S, NEW q \in Seq(S)
  PROVE  Len(q) \in Nat /\ DOMAIN q = 1..Len(q) /\ \A i \in DOMAIN q : q[i] \in S
  OBVIOUS

\* An appended element stands behind the others.
LEMMA AppendFacts ==
  ASSUME NEW S, NEW q \in Seq(S), NEW w \in S
  PROVE  /\ Append(q, w) \in Seq(S)
         /\ Append(q, w) # <<>>
         /\ DOMAIN Append(q, w) = 1..(Len(q) + 1)
         /\ Append(q, w)[Len(q) + 1] = w
         /\ \A i \in DOMAIN q : Append(q, w)[i] = q[i]
  OBVIOUS

\* The tail is the sequence without its first element.
LEMMA TailDrops ==
  ASSUME NEW S, NEW q \in Seq(S), q # <<>>
  PROVE  Tail(q) \in Seq(S) /\ Drops(q, Tail(q), 1) /\ Head(q) = q[1] /\ Head(q) \in S
<1>1. /\ Tail(q) \in Seq(S) /\ Len(q) \in Nat /\ Len(q) > 0 /\ Len(Tail(q)) = Len(q) - 1
      /\ Head(q) = q[1] /\ Head(q) \in S
  OBVIOUS
<1>2. \A k \in 1..Len(Tail(q)) : Tail(q)[k] = q[k + 1] /\ ~(k < 1)
  OBVIOUS
<1>3. 1 \in DOMAIN q
  OBVIOUS
<1>4. QED
  BY <1>1, <1>2, <1>3 DEF Drops

\* RemoveAt is what it says.
LEMMA RemoveAtDrops ==
  ASSUME NEW S, NEW q \in Seq(S), NEW i \in DOMAIN q
  PROVE  RemoveAt(q, i) \in Seq(S) /\ Drops(q, RemoveAt(q, i), i)
<1> DEFINE n == Len(q)
           A == SubSeq(q, 1, i - 1)
           B == SubSeq(q, i + 1, n)
<1>1. i \in 1..n /\ n \in Nat /\ \A k \in 1..n : q[k] \in S
  OBVIOUS
<1> HIDE DEF n
<1>2. A \in Seq(S) /\ Len(A) = i - 1 /\ \A k \in 1..(i - 1) : A[k] = q[k]
  <2>1. \A k \in 1..(i - 1) : q[k] \in S
    BY <1>1
  <2>2. /\ A \in Seq(S)
        /\ Len(A) = IF 1 <= i - 1 THEN (i - 1) - 1 + 1 ELSE 0
        /\ \A k \in 1..((i - 1) - 1 + 1) : A[k] = q[1 + k - 1]
    BY <1>1, <2>1, SubSeqProperties
  <2> HIDE DEF A
  <2>3. QED
    BY <1>1, <2>2
<1>3. B \in Seq(S) /\ Len(B) = n - i /\ \A k \in 1..(n - i) : B[k] = q[k + i]
  <2>1. \A k \in (i + 1)..n : q[k] \in S
    BY <1>1
  <2>2. /\ B \in Seq(S)
        /\ Len(B) = IF i + 1 <= n THEN n - (i + 1) + 1 ELSE 0
        /\ \A k \in 1..(n - (i + 1) + 1) : B[k] = q[(i + 1) + k - 1]
    BY <1>1, <2>1, SubSeqProperties
  <2> HIDE DEF B
  <2>3. ASSUME NEW k \in 1..(n - i) PROVE B[k] = q[k + i]
    <3>1. k \in 1..(n - (i + 1) + 1) /\ (i + 1) + k - 1 = k + i
      BY <1>1
    <3>2. QED
      BY <2>2, <3>1
  <2>4. Len(B) = n - i
    BY <1>1, <2>2
  <2>5. QED
    BY <2>2, <2>3, <2>4
<1>4. RemoveAt(q, i) = A \o B
  BY DEF RemoveAt, n
<1> HIDE DEF A, B
<1>5. /\ A \o B \in Seq(S)
      /\ Len(A \o B) = Len(A) + Len(B)
      /\ \A k \in 1..(Len(A) + Len(B)) :
            (A \o B)[k] = IF k <= Len(A) THEN A[k] ELSE B[k - Len(A)]
  BY <1>2, <1>3, ConcatProperties
<1>6. Len(A \o B) = n - 1
  BY <1>1, <1>2, <1>3, <1>5
<1>7. ASSUME NEW k \in 1..(n - 1) PROVE (A \o B)[k] = IF k < i THEN q[k] ELSE q[k + 1]
  <2>1. (A \o B)[k] = IF k <= i - 1 THEN A[k] ELSE B[k - (i - 1)]
    <3>1. k \in 1..(Len(A) + Len(B))
      BY <1>1, <1>2, <1>3
    <3>2. (A \o B)[k] = IF k <= Len(A) THEN A[k] ELSE B[k - Len(A)]
      BY <1>5, <3>1
    <3>3. QED
      BY <1>2, <3>2
  <2>2. CASE k < i
    <3>1. k \in 1..(i - 1) /\ k <= i - 1
      BY <1>1, <2>2
    <3>2. QED
      BY <1>2, <2>1, <2>2, <3>1
  <2>3. CASE ~(k < i)
    <3>1. k - (i - 1) \in 1..(n - i) /\ ~(k <= i - 1) /\ k - (i - 1) + i = k + 1
      BY <1>1, <2>3
    <3>2. QED
      BY <1>3, <2>1, <2>3, <3>1
  <2>4. QED
    BY <2>2, <2>3
<1>8. QED
  BY <1>4, <1>5, <1>6, <1>7 DEF Drops, n

\* What is left of a sequence: every element but one, in the same order.
LEMMA DropsFacts ==
  ASSUME NEW S, NEW q \in Seq(S), NEW r \in Seq(S), NEW i, Drops(q, r, i)
  PROVE  /\ \A k \in DOMAIN q : k # i => Place(k, i) \in DOMAIN r /\ r[Place(k, i)] = q[k]
         /\ \A m \in DOMAIN r : \E k \in DOMAIN q : k # i /\ m = Place(k, i)
         /\ \A k, m \in DOMAIN q :
               k # i /\ m # i => (k < m <=> Place(k, i) < Place(m, i))
<1>1. /\ Len(q) \in Nat /\ Len(r) \in Nat /\ DOMAIN q = 1..Len(q) /\ DOMAIN r = 1..Len(r)
      /\ i \in 1..Len(q) /\ Len(r) = Len(q) - 1
      /\ \A k \in 1..Len(r) : r[k] = IF k < i THEN q[k] ELSE q[k + 1]
  BY DEF Drops
<1>2. ASSUME NEW k \in DOMAIN q, k # i
      PROVE  Place(k, i) \in DOMAIN r /\ r[Place(k, i)] = q[k]
  <2>1. CASE k < i
    BY <1>1, <1>2, <2>1 DEF Place
  <2>2. CASE k > i
    <3>1. Place(k, i) = k - 1 /\ k - 1 \in 1..Len(r) /\ ~(k - 1 < i) /\ k - 1 + 1 = k
      BY <1>1, <1>2, <2>2 DEF Place
    <3>2. QED
      BY <1>1, <3>1
  <2>3. QED
    BY <1>1, <1>2, <2>1, <2>2
<1>3. ASSUME NEW m \in DOMAIN r PROVE \E k \in DOMAIN q : k # i /\ m = Place(k, i)
  <2>1. CASE m < i
    <3>1. m \in DOMAIN q /\ m # i /\ m = Place(m, i)
      BY <1>1, <2>1 DEF Place
    <3>2. QED
      BY <3>1
  <2>2. CASE ~(m < i)
    <3>1. m + 1 \in DOMAIN q /\ m + 1 # i /\ m = Place(m + 1, i)
      BY <1>1, <2>2 DEF Place
    <3>2. QED
      BY <3>1
  <2>3. QED
    BY <2>1, <2>2
<1>4. ASSUME NEW k \in DOMAIN q, NEW m \in DOMAIN q, k # i, m # i
      PROVE  k < m <=> Place(k, i) < Place(m, i)
  BY <1>1, <1>4 DEF Place
<1>5. QED
  BY <1>2, <1>3, <1>4

-----------------------------------------------------------------------------
(* What the writes come to                                                 *)

\* A write that is not the one dropped, and the last on e, still is.
LEMMA DropsKeepsLast ==
  ASSUME NEW S, NEW q \in Seq(S), NEW r \in Seq(S), NEW i, Drops(q, r, i),
         NEW e, NEW k \in DOMAIN q, k # i, LastOn(q, e, k)
  PROVE  Place(k, i) \in DOMAIN r /\ LastOn(r, e, Place(k, i)) /\ r[Place(k, i)] = q[k]
<1>1. Place(k, i) \in DOMAIN r /\ r[Place(k, i)] = q[k]
  BY DropsFacts
<1>2. ASSUME NEW m \in DOMAIN r, Place(k, i) < m PROVE e \notin DOMAIN r[m].data
  <2>1. PICK j \in DOMAIN q : j # i /\ m = Place(j, i)
    BY DropsFacts
  <2>2. r[m] = q[j] /\ k < j
    BY <1>2, <2>1, DropsFacts
  <2>3. QED
    BY <2>2 DEF LastOn
<1>3. QED
  BY <1>1, <1>2 DEF LastOn

\* Landing the first write changes the hash, and not what it will be.
LEMMA LandKeeps ==
  ASSUME NEW q \in Seq(Writes), NEW r \in Seq(Writes), Drops(q, r, 1),
         NEW h, NEW t, EndsIn(h, q, t)
  PROVE  EndsIn(Apply(h, q[1]), r, t)
<1>1. SUFFICES ASSUME NEW e \in Entities
               PROVE  \/ /\ \A i \in DOMAIN r : e \notin DOMAIN r[i].data
                         /\ Apply(h, q[1])[e] = t[e]
                      \/ \E i \in DOMAIN r : LastOn(r, e, i) /\ r[i].data[e] = t[e]
  BY DEF EndsIn
<1>2. Apply(h, q[1])[e] = IF e \in DOMAIN q[1].data THEN q[1].data[e] ELSE h[e]
  BY DEF Apply
<1>3. ASSUME \A k \in DOMAIN q : 1 < k => e \notin DOMAIN q[k].data
      PROVE  \A m \in DOMAIN r : e \notin DOMAIN r[m].data
  <2>1. SUFFICES ASSUME NEW m \in DOMAIN r PROVE e \notin DOMAIN r[m].data
    OBVIOUS
  <2>2. PICK k \in DOMAIN q : k # 1 /\ m = Place(k, 1) /\ r[m] = q[k]
    BY DropsFacts
  <2>3. 1 < k
    BY <2>2, SeqFacts
  <2>4. QED
    BY <1>3, <2>2, <2>3
<1>4. 1 \in DOMAIN q
  BY DEF Drops
<1>5. CASE (\A i \in DOMAIN q : e \notin DOMAIN q[i].data) /\ h[e] = t[e]
  BY <1>2, <1>3, <1>4, <1>5
<1>6. ASSUME NEW i \in DOMAIN q, LastOn(q, e, i), q[i].data[e] = t[e]
      PROVE  \/ /\ \A k \in DOMAIN r : e \notin DOMAIN r[k].data
                /\ Apply(h, q[1])[e] = t[e]
             \/ \E k \in DOMAIN r : LastOn(r, e, k) /\ r[k].data[e] = t[e]
  <2>1. CASE i = 1
    BY <1>2, <1>3, <1>6, <2>1 DEF LastOn
  <2>2. CASE i # 1
    BY <1>6, <2>2, DropsKeepsLast
  <2>3. QED
    BY <2>1, <2>2
<1>7. QED
  BY <1>5, <1>6 DEF EndsIn

\* What stands before a whole write does not matter.
LEMMA ShadowedDrop ==
  ASSUME NEW q \in Seq(Writes), NEW r \in Seq(Writes), NEW i, Drops(q, r, i),
         NEW j \in DOMAIN q, i < j, q[j].whole,
         NEW h, NEW g, NEW t, EndsIn(h, q, t)
  PROVE  EndsIn(g, r, t)
<1>1. SUFFICES ASSUME NEW e \in Entities
               PROVE  \E k \in DOMAIN r : LastOn(r, e, k) /\ r[k].data[e] = t[e]
  BY DEF EndsIn
<1>2. e \in DOMAIN q[j].data
  BY SeqFacts DEF Writes
<1>3. PICK k \in DOMAIN q : LastOn(q, e, k) /\ q[k].data[e] = t[e]
  BY <1>2 DEF EndsIn
<1>4. j \in Nat /\ k \in Nat /\ i \in Nat
  BY SeqFacts DEF Drops
<1>5. ~(k < j)
  BY <1>2, <1>3 DEF LastOn
<1>6. k # i
  BY <1>4, <1>5
<1>7. QED
  BY <1>3, <1>6, DropsKeepsLast

\* A whole write behind all others decides.
LEMMA AppendWhole ==
  ASSUME NEW q \in Seq(Writes), NEW w \in Writes, w.whole, NEW h
  PROVE  EndsIn(h, Append(q, w), w.data)
<1>1. SUFFICES ASSUME NEW e \in Entities
               PROVE  \E i \in DOMAIN Append(q, w) :
                         LastOn(Append(q, w), e, i) /\ Append(q, w)[i].data[e] = w.data[e]
  BY DEF EndsIn
<1>2. Len(q) + 1 \in DOMAIN Append(q, w) /\ Append(q, w)[Len(q) + 1] = w
  BY AppendFacts, SeqFacts
<1>3. e \in DOMAIN w.data
  BY DEF Writes
<1>4. \A j \in DOMAIN Append(q, w) : ~(Len(q) + 1 < j)
  BY AppendFacts, SeqFacts
<1>5. LastOn(Append(q, w), e, Len(q) + 1)
  BY <1>2, <1>3, <1>4 DEF LastOn
<1>6. QED
  BY <1>2, <1>5

\* An update behind all others changes its entity and no other.
LEMMA AppendUpdate ==
  ASSUME NEW q \in Seq(Writes), NEW w \in Writes, NEW x \in Entities,
         DOMAIN w.data = {x}, NEW h, NEW t, NEW u, EndsIn(h, q, t),
         u[x] = w.data[x], \A e \in Entities : e # x => u[e] = t[e]
  PROVE  EndsIn(h, Append(q, w), u)
<1> DEFINE p == Append(q, w)
<1>1. SUFFICES ASSUME NEW e \in Entities
               PROVE  \/ /\ \A i \in DOMAIN p : e \notin DOMAIN p[i].data
                         /\ h[e] = u[e]
                      \/ \E i \in DOMAIN p : LastOn(p, e, i) /\ p[i].data[e] = u[e]
  BY DEF EndsIn
<1>2. /\ DOMAIN p = 1..(Len(q) + 1) /\ p[Len(q) + 1] = w
      /\ \A i \in DOMAIN q : p[i] = q[i]
      /\ DOMAIN q = 1..Len(q) /\ Len(q) \in Nat
  BY AppendFacts, SeqFacts
<1> HIDE DEF p
<1>3. CASE e = x
  <2>1. LastOn(p, e, Len(q) + 1)
    BY <1>2, <1>3 DEF LastOn
  <2>2. Len(q) + 1 \in DOMAIN p
    BY <1>2
  <2>3. QED
    BY <1>2, <1>3, <2>1, <2>2
<1>4. CASE e # x
  <2>1. \A i \in DOMAIN p : i \in DOMAIN q \/ i = Len(q) + 1
    BY <1>2
  <2>2. e \notin DOMAIN p[Len(q) + 1].data
    BY <1>2, <1>4
  <2>3. CASE (\A i \in DOMAIN q : e \notin DOMAIN q[i].data) /\ h[e] = t[e]
    BY <1>2, <1>4, <2>1, <2>2, <2>3
  <2>4. ASSUME NEW i \in DOMAIN q, LastOn(q, e, i), q[i].data[e] = t[e]
        PROVE  i \in DOMAIN p /\ LastOn(p, e, i) /\ p[i].data[e] = u[e]
    BY <1>2, <1>4, <2>1, <2>2, <2>4 DEF LastOn
  <2>5. QED
    BY <2>3, <2>4 DEF EndsIn
<1>5. QED
  BY <1>3, <1>4

\* Outcome is what the writes come to.
LEMMA OutcomeIs ==
  ASSUME queue \in Seq(Writes), NEW t, t = [e \in Entities |-> t[e]],
         EndsIn(hash, queue, t)
  PROVE  Outcome = t
<1>1. SUFFICES ASSUME NEW e \in Entities PROVE Outcome[e] = t[e]
  BY DEF Outcome
<1> DEFINE naming == {i \in DOMAIN queue : e \in DOMAIN queue[i].data}
<1>2. Outcome[e] = IF naming = {} THEN hash[e] ELSE queue[Max(naming)].data[e]
  BY DEF Outcome
<1>3. CASE naming = {}
  BY <1>2, <1>3 DEF EndsIn, LastOn
<1>4. CASE naming # {}
  <2>1. PICK i \in DOMAIN queue : LastOn(queue, e, i) /\ queue[i].data[e] = t[e]
    BY <1>4 DEF EndsIn
  <2>2. naming \subseteq Nat
    BY SeqFacts
  <2>3. i \in naming /\ \A j \in naming : i >= j
    <3>1. \A j \in naming : ~(i < j)
      BY <2>1 DEF LastOn
    <3>2. i \in naming
      BY <2>1 DEF LastOn
    <3> HIDE DEF naming
    <3>3. QED
      BY <2>2, <3>1, <3>2
  <2> HIDE DEF naming
  <2>4. Max(naming) = i
    <3>1. Max(naming) \in naming /\ \A j \in naming : Max(naming) >= j
      BY <2>3 DEF Max
    <3>2. QED
      BY <2>2, <2>3, <3>1
  <2>5. QED
    BY <1>2, <1>4, <2>1, <2>4
<1>5. QED
  BY <1>3, <1>4

-----------------------------------------------------------------------------
(* Types                                                                   *)

\* The empty hash.
LEMMA EmptyType == Empty \in [Entities -> Entries]
  BY DEF Empty, Entries

\* What is published is a hash.
LEMMA SnapshotType ==
  ASSUME NEW ss \in [Entities -> Values \cup {Gone}], NEW rs \in Rooms
  PROVE  SnapshotOf(ss, rs) \in [Entities -> Entries]
  BY DEF SnapshotOf, Entry, Entries

\* A replace or a clear, as a write.
LEMMA WholeType ==
  ASSUME NEW by \in Tasks, NEW d \in [Entities -> Entries]
  PROVE  Whole(by, d) \in Writes /\ Whole(by, d).by = by /\ Whole(by, d).whole
         /\ Whole(by, d).data = d
<1>1. d \in Data
  BY DEF Data
<1>2. QED
  BY <1>1 DEF Whole, Writes

\* An update of one entity, as a write.
LEMMA UpdateType ==
  ASSUME NEW e \in Entities, NEW entry \in Entries
  PROVE  Update(e, entry) \in Writes /\ Update(e, entry).by = "run"
         /\ ~Update(e, entry).whole
         /\ DOMAIN Update(e, entry).data = {e} /\ Update(e, entry).data[e] = entry
<1> DEFINE d == [x \in {e} |-> entry]
<1>1. d \in [{e} -> Entries] /\ {e} \in SUBSET Entities
  OBVIOUS
<1>2. d \in Data
  BY <1>1 DEF Data
<1> HIDE DEF d
<1>3. [by |-> "run", whole |-> FALSE, data |-> d] \in Writes
  BY <1>2 DEF Writes, Tasks
<1>4. QED
  BY <1>3 DEF Update, d

\* A write turns a hash into a hash.
LEMMA ApplyType ==
  ASSUME NEW h \in [Entities -> Entries], NEW w \in Writes
  PROVE  Apply(h, w) \in [Entities -> Entries]
<1>1. PICK some \in SUBSET Entities : w.data \in [some -> Entries]
  BY DEF Writes, Data
<1>2. QED
  BY <1>1 DEF Apply

\* What a heal does: nothing, a replace from a live connection, a clear without.
LEMMA HealCases ==
  ASSUME NEW by, Heal(by)
  PROVE  \/ queue' = queue /\ stale' = stale
         \/ /\ conn_state = "connected"
            /\ queue' = Append(queue, Whole(by, Snapshot))
            /\ stale' = FALSE
         \/ /\ conn_state # "connected"
            /\ queue' = Append(queue, Whole(by, Empty))
            /\ stale' = stale
  BY DEF Heal, Publish, HandOver

\* A dropped write leaves the queue, and was served if it was the first.
LEMMA DropCases ==
  ASSUME queue \in Seq(Writes), NEW by, DropWrite(by)
  PROVE  \/ ~Waits(by) /\ hash' = hash /\ queue' = queue
         \/ \E i \in DOMAIN queue :
               /\ queue[i].by = by
               /\ queue' \in Seq(Writes)
               /\ Drops(queue, queue', i)
               /\ hash' = hash \/ (i = 1 /\ hash' = Apply(hash, queue[1]))
<1>1. CASE ~Waits(by) /\ UNCHANGED <<hash, queue>>
  BY <1>1
<1>2. ASSUME NEW i \in DOMAIN queue, queue[i].by = by, queue' = RemoveAt(queue, i),
             hash' \in IF i = 1 THEN {hash, Apply(hash, queue[i])} ELSE {hash}
      PROVE  /\ queue' \in Seq(Writes) /\ Drops(queue, queue', i)
             /\ hash' = hash \/ (i = 1 /\ hash' = Apply(hash, queue[1]))
  BY <1>2, RemoveAtDrops
<1>3. QED
  BY <1>1, <1>2 DEF DropWrite

\* The contents of the queue and of the hash keep their types.
HashType == queue \in Seq(Writes) /\ hash \in [Entities -> Entries]

\* A dropped write leaves a queue and a hash.
LEMMA DropType ==
  ASSUME HashType, NEW by, DropWrite(by)
  PROVE  HashType'
  BY DropCases, ApplyType, SeqFacts DEF HashType

\* A heal leaves a queue.
LEMMA HealType ==
  ASSUME TypeOK, NEW by \in Tasks, Heal(by)
  PROVE  queue' \in Seq(Writes) /\ stale' \in BOOLEAN
<1>1. Snapshot \in [Entities -> Entries]
  BY SnapshotType DEF Snapshot, TypeOK
<1>2. Whole(by, Snapshot) \in Writes /\ Whole(by, Empty) \in Writes
  BY <1>1, EmptyType, WholeType
<1>3. queue \in Seq(Writes) /\ stale \in BOOLEAN
  BY DEF TypeOK
<1>4. /\ Append(queue, Whole(by, Snapshot)) \in Seq(Writes)
      /\ Append(queue, Whole(by, Empty)) \in Seq(Writes)
  BY <1>2, <1>3, AppendFacts
<1>5. QED
  BY <1>3, <1>4, HealCases

\* At first only the clear of the startup is queued.
LEMMA InitType == Init => TypeOK
<1>1. SUFFICES ASSUME Init PROVE TypeOK
  OBVIOUS
<1>2. Whole("life", Empty) \in Writes
  BY EmptyType, WholeType DEF Tasks
<1>3. queue \in Seq(Writes)
  BY <1>1, <1>2 DEF Init, FirstClear
<1>4. states \in [Entities -> Values \cup {Gone}]
  BY <1>1 DEF Init, Empty
<1>5. hash \in [Entities -> Entries]
  BY <1>1 DEF Init, Entries
<1>6. fails \in 0..MaxFails /\ pushes \in 0..MaxPushes
  BY <1>1, LiveStateAssumption DEF Init
<1>7. QED
  BY <1>1, <1>3, <1>4, <1>5, <1>6 DEF Init, TypeOK

\* The writer serves a write, or fails to.
LEMMA WriterType == TypeOK /\ (LandWhole \/ LandUpdate \/ Fail) => TypeOK'
<1>1. SUFFICES ASSUME TypeOK, LandWhole \/ LandUpdate \/ Fail PROVE TypeOK'
  OBVIOUS
<1> USE LiveStateAssumption
<1>2. queue # <<>> /\ queue \in Seq(Writes)
  BY <1>1 DEF TypeOK, LandWhole, LandUpdate, Fail, Served
<1>3. /\ Tail(queue) \in Seq(Writes)
      /\ Apply(hash, Head(queue)) \in [Entities -> Entries]
  BY <1>1, <1>2, TailDrops, ApplyType DEF TypeOK
<1>4. Append(Tail(queue), Whole("run", Snapshot)) \in Seq(Writes)
  BY <1>1, <1>3, SnapshotType, WholeType, AppendFacts DEF TypeOK, Snapshot, Tasks
<1>5. CASE LandWhole
  BY <1>1, <1>3, <1>5 DEF TypeOK, LandWhole, connVars, taskVars
<1>6. CASE LandUpdate
  BY <1>1, <1>3, <1>4, <1>6 DEF TypeOK, LandUpdate, connVars, taskVars
<1>7. CASE Fail
  BY <1>1, <1>3, <1>7 DEF TypeOK, Fail, connVars, taskVars
<1>8. QED
  BY <1>1, <1>5, <1>6, <1>7

\* The connection comes and goes.
LEMMA ConnectionType ==
  TypeOK /\ (Connection \/ Start \/ Lose \/ Halt \/ InstallStates) => TypeOK'
<1>1. SUFFICES ASSUME TypeOK, Connection \/ Start \/ Lose \/ Halt \/ InstallStates
               PROVE  TypeOK'
  OBVIOUS
<1> USE LiveStateAssumption
<1>2. CASE AttemptFails \/ Report
  <2>1. Whole("run", Empty) \in Writes
    BY EmptyType, WholeType DEF Tasks
  <2>2. Append(queue, Whole("run", Empty)) \in Seq(Writes)
    BY <1>1, <2>1, AppendFacts DEF TypeOK
  <2>3. queue' = Append(queue, Whole("run", Empty))
    BY <1>2 DEF AttemptFails, Report, HandOver
  <2>4. QED
    BY <1>1, <1>2, <2>2, <2>3 DEF TypeOK, AttemptFails, Report, taskVars
<1>3. CASE Announce
  <2>1. Whole("setup", SnapshotOf(states, rooms')) \in Writes
    BY <1>1, <1>3, SnapshotType, WholeType DEF TypeOK, Announce, Tasks
  <2>2. queue' \in Seq(Writes)
    BY <1>1, <1>3, <2>1, AppendFacts DEF TypeOK, Announce, HandOver
  <2>3. QED
    BY <1>1, <1>3, <2>2 DEF TypeOK, Announce
<1>4. CASE RunUnwinds
  <2>1. HashType'
    BY <1>1, <1>4, DropType DEF TypeOK, HashType, RunUnwinds
  <2>2. QED
    BY <1>1, <1>4, <2>1 DEF TypeOK, HashType, RunUnwinds, taskVars
<1>5. CASE Authenticated \/ Reported \/ Retry \/ Cut \/ Halted \/ Start \/ Lose
  BY <1>1, <1>5 DEF TypeOK, Authenticated, Reported, Retry, Cut, Halted, Start, Lose,
                    Quietly, taskVars
<1>6. CASE Halt
  BY <1>1, <1>6 DEF TypeOK, Halt
<1>7. CASE InstallStates
  BY <1>1, <1>7 DEF TypeOK, InstallStates, taskVars
<1>8. QED
  BY <1>1, <1>2, <1>3, <1>4, <1>5, <1>6, <1>7 DEF Connection

\* A state event is an update of its entity.
LEMMA StateChangedType ==
  ASSUME TypeOK, NEW e \in Entities, StateChanged(e)
  PROVE  TypeOK'
<1>1. states' \in [Entities -> Values \cup {Gone}] /\ states'[e] \in Values \cup {Gone}
  BY DEF TypeOK, StateChanged
<1>2. Entry(states'[e], rooms) \in Entries
  BY <1>1 DEF TypeOK, Entry, Entries
<1>3. queue' \in Seq(Writes)
  BY <1>2, UpdateType, AppendFacts DEF TypeOK, StateChanged, HandOver
<1>4. QED
  BY <1>1, <1>3 DEF TypeOK, StateChanged, taskVars

\* The connect listener, the refresh and the retry.
LEMMA ListenerType ==
  TypeOK /\ (Listener \/ RegistryRefresh \/ Refresh \/ RetryRegistered) => TypeOK'
<1>1. SUFFICES ASSUME TypeOK, Listener \/ RegistryRefresh \/ Refresh \/ RetryRegistered
               PROVE  TypeOK'
  OBVIOUS
<1>2. CASE SetupRegistered
  <2>1. queue' \in Seq(Writes) /\ stale' \in BOOLEAN
    BY <1>1, <1>2, HealType DEF TypeOK, SetupRegistered, Tasks
  <2>2. QED
    BY <1>1, <1>2, <2>1 DEF TypeOK, SetupRegistered
<1>3. CASE SetupDone \/ RefreshDone \/ RegistryRefresh
  BY <1>1, <1>3 DEF TypeOK, SetupDone, RefreshDone, RegistryRefresh
<1>4. CASE SetupUnwinds \/ RefreshUnwinds
  <2>1. HashType'
    BY <1>1, <1>4, DropType DEF TypeOK, HashType, SetupUnwinds, RefreshUnwinds
  <2>2. QED
    BY <1>1, <1>4, <2>1 DEF TypeOK, HashType, SetupUnwinds, RefreshUnwinds
<1>5. CASE RefreshRegistered
  <2>1. queue' \in Seq(Writes) /\ stale' \in BOOLEAN
    BY <1>1, <1>5, HealType DEF TypeOK, RefreshRegistered, Tasks
  <2>2. QED
    BY <1>1, <1>5, <2>1 DEF TypeOK, RefreshRegistered
<1>6. CASE RetryRegistered
  <2>1. queue' \in Seq(Writes) /\ stale' \in BOOLEAN
    BY <1>1, <1>6, HealType DEF RetryRegistered, Tasks
  <2>2. QED
    BY <1>1, <1>6, <2>1 DEF TypeOK, RetryRegistered, taskVars
<1>7. QED
  BY <1>1, <1>2, <1>3, <1>4, <1>5, <1>6 DEF Listener, Refresh

\* Startup and shutdown.
LEMMA LifespanType == TypeOK /\ (Lifespan \/ Shutdown) => TypeOK'
<1>1. SUFFICES ASSUME TypeOK, Lifespan \/ Shutdown PROVE TypeOK'
  OBVIOUS
<1>2. queue' \in Seq(Writes) /\ stale' \in BOOLEAN
  <2>1. CASE StartupRegistered
    BY <1>1, <2>1, HealType DEF TypeOK, StartupRegistered, Tasks
  <2>2. CASE FinalClear
    <3>1. Whole("life", Empty) \in Writes
      BY EmptyType, WholeType DEF Tasks
    <3>2. QED
      BY <1>1, <2>2, <3>1, AppendFacts DEF TypeOK, FinalClear, HandOver
  <2>3. CASE Serve \/ Close \/ Shutdown
    BY <1>1, <2>3 DEF TypeOK, Serve, Close, Shutdown
  <2>4. QED
    BY <1>1, <2>1, <2>2, <2>3 DEF Lifespan
<1>3. QED
  BY <1>1, <1>2
     DEF TypeOK, Lifespan, StartupRegistered, Serve, FinalClear, Close, Shutdown, LifeGoes

\* Every step keeps the types.
LEMMA TypeNext == TypeOK /\ [Next]_vars => TypeOK'
<1>1. SUFFICES ASSUME TypeOK, [Next]_vars PROVE TypeOK'
  OBVIOUS
<1>2. CASE UNCHANGED vars
  BY <1>1, <1>2 DEF TypeOK, vars, taskVars
<1>3. QED
  BY <1>1, <1>2, WriterType, ConnectionType, StateChangedType, ListenerType, LifespanType
     DEF Next, Writer

\* Every variable keeps its kind of value; the hash never holds an entity without
\* a state.
THEOREM TypeCorrect == Spec => []TypeOK
<1>1. QED
  BY InitType, TypeNext, PTL DEF Spec

-----------------------------------------------------------------------------
(* The connection, and who waits                                           *)

\* ConnInv without its last conjunct.
PhaseInv ==
    /\ phase \in Phases
    /\ listeners \in {"idle", "running"}
    /\ listeners = "running" <=> setup # "idle"
    /\ listeners = "running" => phase \in {"up", "lost", "halting"}
    /\ phase = "up" => conn_state = "connected"
    /\ phase \in {"off", "dial", "setup", "report", "rejected", "backoff", "cutting"} =>
           conn_state # "connected"
    /\ phase \in {"off", "cutting", "halting"} => refresh \in {"idle", "unwinding"}
    /\ life \notin {"serving", "stopping"} => phase = "off"

\* Every step keeps what the tasks know of the connection.
LEMMA PhaseNext == TypeOK /\ PhaseInv /\ [Next]_vars => PhaseInv'
<1>1. SUFFICES ASSUME TypeOK, PhaseInv, [Next]_vars PROVE PhaseInv'
  OBVIOUS
<1> USE DEF PhaseInv, Phases
<1>2. CASE Writer \/ Fail \/ InstallStates \/ (\E e \in Entities : StateChanged(e))
           \/ RetryRegistered \/ RunUnwinds \/ UNCHANGED vars
  BY <1>1, <1>2 DEF Writer, LandWhole, LandUpdate, Fail, InstallStates, StateChanged,
                    RetryRegistered, RunUnwinds, vars, connVars, taskVars
<1>3. CASE AttemptFails \/ Authenticated \/ Report \/ Reported \/ Retry \/ Cut \/ Halted
  BY <1>1, <1>3 DEF AttemptFails, Authenticated, Report, Reported, Retry, Cut, Halted,
                    Quietly, taskVars, Conn!AttemptFails, Conn!Authenticated,
                    Conn!Report, Conn!Reported, Conn!Retry, Conn!Cut, Conn!Halted
<1>4. CASE Announce \/ Start \/ Lose \/ Halt
  BY <1>1, <1>4 DEF Announce, Start, Lose, Halt, Quietly, taskVars,
                    Conn!Announce, Conn!Start, Conn!Lose, Conn!Halt
<1>5. CASE SetupRegistered \/ SetupDone \/ SetupUnwinds
  BY <1>1, <1>5 DEF SetupRegistered, SetupDone, SetupUnwinds, Conn!ListenersEnd, connVars
<1>6. CASE RegistryRefresh \/ RefreshRegistered \/ RefreshDone \/ RefreshUnwinds
  BY <1>1, <1>6 DEF RegistryRefresh, RefreshRegistered, RefreshDone, RefreshUnwinds, connVars
<1>7. CASE StartupRegistered \/ Serve \/ FinalClear \/ Close \/ Shutdown
  BY <1>1, <1>7 DEF StartupRegistered, Serve, FinalClear, Close, Shutdown, LifeGoes, connVars
<1>8. QED
  BY <1>1, <1>2, <1>3, <1>4, <1>5, <1>6, <1>7
     DEF Next, Connection, Listener, Refresh, Lifespan

\* A closed service hands over nothing.
LEMMA ClosedNext == TypeOK /\ ConnInv /\ [Next]_vars => (life' = "closed" => queue' = <<>>)
<1>1. SUFFICES ASSUME TypeOK, ConnInv, [Next]_vars, life' = "closed" PROVE queue' = <<>>
  OBVIOUS
<1>2. CASE Close
  BY <1>2 DEF Close
<1>3. CASE life # "closed"
  BY <1>1, <1>2, <1>3
     DEF Next, Writer, LandWhole, LandUpdate, Fail, Connection, AttemptFails, Authenticated,
         Announce, Report, Reported, Retry, Cut, RunUnwinds, Halted, Start, Lose, Halt,
         InstallStates, StateChanged, Listener, SetupRegistered, SetupDone, SetupUnwinds,
         RegistryRefresh, Refresh, RefreshRegistered, RefreshDone, RefreshUnwinds,
         RetryRegistered, Lifespan, StartupRegistered, Serve, FinalClear, Shutdown, LifeGoes,
         Quietly, taskVars, vars
<1>4. CASE life = "closed"
  <2>1. phase = "off" /\ queue = <<>> /\ setup = "idle" /\ refresh \in {"idle", "unwinding"}
        /\ DOMAIN queue = {} /\ listeners = "idle"
    BY <1>1, <1>4 DEF ConnInv, TypeOK
  <2>2. ASSUME NEW by, DropWrite(by) PROVE queue' = <<>>
    BY <2>1, <2>2 DEF DropWrite
  <2>3. CASE RefreshUnwinds \/ SetupUnwinds \/ RunUnwinds
    BY <2>2, <2>3 DEF RefreshUnwinds, SetupUnwinds, RunUnwinds
  <2>4. CASE UNCHANGED vars
    BY <2>1, <2>4 DEF vars
  <2>5. QED
    BY <1>1, <1>2, <1>4, <2>1, <2>3, <2>4
       DEF Next, Writer, LandWhole, LandUpdate, Fail, Served, Connection, AttemptFails,
           Authenticated, Announce, Report, Reported, Retry, Cut, Halted, Start, Lose, Halt,
           InstallStates, StateChanged, Listener, SetupRegistered, SetupDone,
           RegistryRefresh, Refresh, RefreshRegistered, RefreshDone,
           RetryRegistered, Lifespan, StartupRegistered, Serve, FinalClear, Shutdown,
           LifeGoes, Quietly, Conn!AttemptFails, Conn!Announce, Conn!Report
<1>5. QED
  BY <1>3, <1>4

\* Every step keeps ConnInv.
LEMMA ConnNext == TypeOK /\ ConnInv /\ [Next]_vars => ConnInv'
<1>1. ConnInv <=> PhaseInv /\ (life = "closed" => queue = <<>>)
  BY DEF ConnInv, PhaseInv
<1>2. ConnInv' <=> PhaseInv' /\ (life' = "closed" => queue' = <<>>)
  BY DEF ConnInv, PhaseInv
<1>3. QED
  BY <1>1, <1>2, PhaseNext, ClosedNext

\* The writes q are of different tasks, and those that are not whole of the run task.
Alone(q) ==
    /\ \A i, j \in DOMAIN q : q[i].by = q[j].by => i = j
    /\ \A i \in DOMAIN q : q[i].whole \/ q[i].by = "run"

\* The task by has a write among q.
Has(q, by) == \E i \in DOMAIN q : q[i].by = by

\* WaitInv, apart from the writes being Alone.
Waiting ==
    /\ phase \in {"off", "dial", "lost", "rejected", "backoff"} => ~Has(queue, "run")
    /\ setup = "idle" => ~Has(queue, "setup")
    /\ refresh \in {"idle", "registering"} => ~Has(queue, "refresh")
    /\ life \in {"serving", "stopping"} => ~Has(queue, "life")

\* A task without a write may append one.
LEMMA HasAppend ==
  ASSUME NEW q \in Seq(Writes), NEW w \in Writes, Alone(q), ~Has(q, w.by),
         w.whole \/ w.by = "run"
  PROVE  /\ Alone(Append(q, w))
         /\ \A b : b # w.by /\ Has(Append(q, w), b) => Has(q, b)
<1> DEFINE p == Append(q, w)
<1>1. /\ DOMAIN p = 1..(Len(q) + 1) /\ p[Len(q) + 1] = w
      /\ \A i \in DOMAIN q : p[i] = q[i]
      /\ DOMAIN q = 1..Len(q) /\ Len(q) \in Nat
  BY AppendFacts, SeqFacts
<1> HIDE DEF p
<1>2. \A i \in DOMAIN p : (i \in DOMAIN q /\ p[i] = q[i]) \/ (i = Len(q) + 1 /\ p[i] = w)
  BY <1>1
<1>3. Alone(p)
  BY <1>2 DEF Alone, Has
<1>4. \A b : b # w.by /\ Has(p, b) => Has(q, b)
  BY <1>2 DEF Has
<1>5. QED
  BY <1>3, <1>4 DEF p

\* A dropped write was its task's only one.
LEMMA HasDrop ==
  ASSUME NEW q \in Seq(Writes), NEW r \in Seq(Writes), NEW i, Drops(q, r, i), Alone(q)
  PROVE  Alone(r) /\ ~Has(r, q[i].by) /\ \A b : Has(r, b) => Has(q, b)
<1>1. \A m \in DOMAIN r : \E k \in DOMAIN q : k # i /\ m = Place(k, i) /\ r[m] = q[k]
  BY DropsFacts
<1>2. i \in DOMAIN q
  BY DEF Drops
<1>3. Alone(r)
  BY <1>1 DEF Alone
<1>4. ~Has(r, q[i].by)
  BY <1>1, <1>2 DEF Has, Alone
<1>5. \A b : Has(r, b) => Has(q, b)
  BY <1>1 DEF Has
<1>6. QED
  BY <1>3, <1>4, <1>5

\* Only the task by may have a write it did not have.
OnlyNew(by) == Alone(queue') /\ \A b : b # by /\ Has(queue', b) => Has(queue, b)

\* No task has a write it did not have, and the task by has none.
Without(by) == Alone(queue') /\ ~Has(queue', by) /\ \A b : Has(queue', b) => Has(queue, b)

\* A hand-over puts the task, and no other, in the queue.
LEMMA AppendWaits ==
  ASSUME queue \in Seq(Writes), Alone(queue), NEW w \in Writes, ~Has(queue, w.by),
         w.whole \/ w.by = "run", queue' = Append(queue, w)
  PROVE  OnlyNew(w.by)
  BY HasAppend DEF OnlyNew

\* A heal hands over for its task, or not at all.
LEMMA HealWaits ==
  ASSUME TypeOK, Alone(queue), NEW by \in Tasks, ~Has(queue, by),
         Heal(by) \/ UNCHANGED <<queue, stale>>
  PROVE  OnlyNew(by)
<1>1. queue \in Seq(Writes)
  BY DEF TypeOK
<1>2. Snapshot \in [Entities -> Entries]
  BY SnapshotType DEF Snapshot, TypeOK
<1>3. /\ Whole(by, Snapshot) \in Writes /\ Whole(by, Snapshot).by = by
      /\ Whole(by, Snapshot).whole
      /\ Whole(by, Empty) \in Writes /\ Whole(by, Empty).by = by /\ Whole(by, Empty).whole
  BY <1>2, EmptyType, WholeType
<1>4. CASE queue' = queue
  BY <1>4 DEF OnlyNew
<1>5. CASE queue' = Append(queue, Whole(by, Snapshot))
  BY <1>1, <1>3, <1>5, AppendWaits
<1>6. CASE queue' = Append(queue, Whole(by, Empty))
  BY <1>1, <1>3, <1>6, AppendWaits
<1>7. QED
  BY <1>4, <1>5, <1>6, HealCases

\* A cancelled task is no longer in the queue.
LEMMA DropWaits ==
  ASSUME queue \in Seq(Writes), Alone(queue), NEW by, DropWrite(by)
  PROVE  Without(by)
<1>1. CASE ~Waits(by) /\ queue' = queue
  BY <1>1 DEF Waits, Has, Without
<1>2. ASSUME NEW i \in DOMAIN queue, queue[i].by = by, queue' \in Seq(Writes),
             Drops(queue, queue', i)
      PROVE  Without(by)
  BY <1>2, HasDrop DEF Without
<1>3. QED
  BY <1>1, <1>2, DropCases

\* The task that was served leaves the queue, and none enters it.
LEMMA ServedWaits ==
  ASSUME queue \in Seq(Writes), Alone(queue), LandWhole \/ Fail
  PROVE  Alone(queue') /\ \A b : Has(queue', b) => Has(queue, b)
<1>1. queue # <<>> /\ queue' = Tail(queue)
  BY DEF LandWhole, Fail, Served
<1>2. queue' \in Seq(Writes) /\ Drops(queue, queue', 1)
  BY <1>1, TailDrops
<1>3. QED
  BY <1>2, HasDrop

\* An update that lands may leave the run task with a snapshot to write.
LEMMA UpdateWaits ==
  ASSUME TypeOK, Alone(queue), LandUpdate
  PROVE  OnlyNew("run") /\ Has(queue, "run")
<1>1. queue # <<>> /\ queue \in Seq(Writes) /\ ~Head(queue).whole
  BY DEF LandUpdate, Served, TypeOK
<1>2. Tail(queue) \in Seq(Writes) /\ Drops(queue, Tail(queue), 1) /\ Head(queue) = queue[1]
      /\ 1 \in DOMAIN queue
  BY <1>1, TailDrops DEF Drops
<1>3. queue[1].by = "run"
  BY <1>1, <1>2 DEF Alone
<1>4. /\ Alone(Tail(queue)) /\ ~Has(Tail(queue), "run")
      /\ \A b : Has(Tail(queue), b) => Has(queue, b)
  <2> DEFINE r == Tail(queue)
  <2>1. r \in Seq(Writes) /\ Drops(queue, r, 1)
    BY <1>2
  <2> HIDE DEF r
  <2>2. Alone(r) /\ ~Has(r, queue[1].by) /\ \A b : Has(r, b) => Has(queue, b)
    BY <1>1, <2>1, HasDrop
  <2>3. QED
    BY <1>3, <2>2 DEF r
<1>5. Whole("run", Snapshot) \in Writes /\ Whole("run", Snapshot).by = "run"
      /\ Whole("run", Snapshot).whole
  BY SnapshotType, WholeType DEF Snapshot, TypeOK, Tasks
<1>6. /\ Alone(Append(Tail(queue), Whole("run", Snapshot)))
      /\ \A b : b # "run" /\ Has(Append(Tail(queue), Whole("run", Snapshot)), b) =>
                   Has(Tail(queue), b)
  BY <1>2, <1>4, <1>5, HasAppend
<1>7. queue' = Tail(queue) \/ queue' = Append(Tail(queue), Whole("run", Snapshot))
  BY DEF LandUpdate
<1>8. OnlyNew("run")
  BY <1>4, <1>6, <1>7 DEF OnlyNew
<1>9. QED
  BY <1>2, <1>3, <1>8 DEF Has

\* Every task has at most one write, and none where its code is not waiting for one.
LEMMA WaitNext ==
  ASSUME TypeOK, ConnInv, Alone(queue), Waiting, [Next]_vars
  PROVE  Alone(queue') /\ Waiting'
<1> USE DEF Waiting
<1>0. queue \in Seq(Writes) /\ \A b : Waits(b) <=> Has(queue, b)
  BY DEF TypeOK, Waits, Has
<1>1. CASE LandWhole \/ Fail
  <2>1. Alone(queue') /\ \A b : Has(queue', b) => Has(queue, b)
    BY <1>0, <1>1, ServedWaits
  <2>2. QED
    BY <1>1, <2>1 DEF LandWhole, Fail, connVars, taskVars
<1>2. CASE LandUpdate
  <2>1. OnlyNew("run") /\ Has(queue, "run")
    BY <1>2, UpdateWaits
  <2>2. QED
    BY <1>2, <2>1 DEF OnlyNew, LandUpdate, connVars, taskVars
<1>3. CASE AttemptFails \/ Report
  <2>1. ~Has(queue, "run")
    BY <1>3 DEF AttemptFails, Report, Conn!AttemptFails, Conn!Report
  <2>2. /\ Whole("run", Empty) \in Writes /\ Whole("run", Empty).by = "run"
        /\ Whole("run", Empty).whole
    BY EmptyType, WholeType DEF Tasks
  <2>3. OnlyNew("run")
    BY <1>0, <1>3, <2>1, <2>2, AppendWaits DEF AttemptFails, Report, HandOver
  <2>4. QED
    BY <1>3, <2>3 DEF OnlyNew, AttemptFails, Report, Conn!AttemptFails, Conn!Report, taskVars
<1>4. CASE Announce
  <2> DEFINE w == Whole("setup", SnapshotOf(states, rooms'))
  <2>1. w \in Writes /\ w.by = "setup" /\ w.whole
    BY <1>4, SnapshotType, WholeType DEF TypeOK, Announce, Tasks
  <2>2. ~Has(queue, "setup") /\ queue' = Append(queue, w)
    BY <1>4 DEF Announce, HandOver
  <2> HIDE DEF w
  <2>3. OnlyNew("setup")
    BY <1>0, <2>1, <2>2, AppendWaits
  <2>4. QED
    BY <1>4, <2>3 DEF OnlyNew, Announce, Conn!Announce
<1>5. ASSUME NEW e \in Entities, StateChanged(e) PROVE Alone(queue') /\ Waiting'
  <2> DEFINE w == Update(e, Entry(states'[e], rooms))
  <2>1. Entry(states'[e], rooms) \in Entries
    BY <1>5 DEF StateChanged, TypeOK, Entry, Entries
  <2>2. w \in Writes /\ w.by = "run"
    BY <2>1, UpdateType
  <2>3. ~Has(queue, "run") /\ queue' = Append(queue, w)
    BY <1>0, <1>5 DEF StateChanged, HandOver
  <2> HIDE DEF w
  <2>4. OnlyNew("run")
    BY <1>0, <2>2, <2>3, AppendWaits
  <2>5. QED
    BY <1>5, <2>4 DEF OnlyNew, StateChanged, connVars, taskVars
<1>6. CASE SetupUnwinds
  <2>1. Without("setup")
    BY <1>0, <1>6, DropWaits DEF SetupUnwinds
  <2>2. QED
    BY <1>6, <2>1 DEF Without, SetupUnwinds, Conn!ListenersEnd
<1>7. CASE RefreshUnwinds
  <2>1. Without("refresh")
    BY <1>0, <1>7, DropWaits DEF RefreshUnwinds
  <2>2. QED
    BY <1>7, <2>1 DEF Without, RefreshUnwinds, connVars
<1>8. CASE RunUnwinds
  <2>1. Without("run")
    BY <1>0, <1>8, DropWaits DEF RunUnwinds
  <2>2. QED
    BY <1>8, <2>1 DEF Without, RunUnwinds, connVars, taskVars
<1>9. CASE SetupRegistered
  <2>1. OnlyNew("setup")
    BY <1>0, <1>9, HealWaits DEF SetupRegistered, Tasks
  <2>2. QED
    BY <1>9, <2>1 DEF OnlyNew, SetupRegistered, connVars
<1>10. CASE RefreshRegistered
  <2>1. OnlyNew("refresh")
    BY <1>10, HealWaits DEF RefreshRegistered, Tasks
  <2>2. QED
    BY <1>10, <2>1 DEF OnlyNew, RefreshRegistered, connVars
<1>11. CASE RetryRegistered
  <2>1. OnlyNew("retry")
    BY <1>0, <1>11, HealWaits DEF RetryRegistered, Tasks
  <2>2. QED
    BY <1>11, <2>1 DEF OnlyNew, RetryRegistered, connVars, taskVars
<1>12. CASE StartupRegistered
  <2>1. OnlyNew("life")
    BY <1>0, <1>12, HealWaits DEF StartupRegistered, Tasks
  <2>2. QED
    BY <1>12, <2>1 DEF OnlyNew, StartupRegistered, LifeGoes, connVars
<1>13. CASE FinalClear
  <2>1. ~Has(queue, "life")
    BY <1>13 DEF FinalClear, LifeGoes
  <2>2. /\ Whole("life", Empty) \in Writes /\ Whole("life", Empty).by = "life"
        /\ Whole("life", Empty).whole
    BY EmptyType, WholeType DEF Tasks
  <2>3. OnlyNew("life")
    BY <1>0, <1>13, <2>1, <2>2, AppendWaits DEF FinalClear, HandOver
  <2>4. QED
    BY <1>13, <2>3 DEF OnlyNew, FinalClear, LifeGoes, connVars
<1>14. CASE \/ Authenticated \/ Reported \/ Retry \/ Cut \/ Halted \/ Start \/ Lose \/ Halt
            \/ InstallStates \/ UNCHANGED vars
  BY <1>0, <1>14
     DEF Authenticated, Reported, Retry, Cut, Halted, Start, Lose, Halt, InstallStates,
         Conn!Authenticated, Conn!Reported, Conn!Retry, Conn!Cut, Conn!Halted, Conn!Start,
         Conn!Lose, Conn!Halt, Quietly, connVars, taskVars, vars
<1>15. CASE \/ SetupDone \/ RefreshDone \/ RegistryRefresh \/ Serve \/ Close \/ Shutdown
  BY <1>0, <1>15
     DEF SetupDone, RefreshDone, RegistryRefresh, Serve, Close, Shutdown, LifeGoes,
         Conn!ListenersEnd, connVars
<1>16. QED
  BY <1>1, <1>2, <1>3, <1>4, <1>5, <1>6, <1>7, <1>8, <1>9, <1>10, <1>11, <1>12, <1>13,
     <1>14, <1>15
     DEF Next, Writer, Connection, Listener, Refresh, Lifespan

-----------------------------------------------------------------------------
(* The hash                                                                *)

\* What the hash is to become, one step on.
LEMMA TargetNext ==
  /\ Target = IF phase = "up" THEN SnapshotOf(states, rooms) ELSE Empty
  /\ Target' = IF phase' = "up" THEN SnapshotOf(states', rooms') ELSE Empty
  BY DEF Target, Snapshot, Empty

\* HashInv as it reads after a step.
LEMMA HashPrimed ==
  HashInv' <=>
    (/\ Settled'
     /\ phase' = "up" => ~stale'
     /\ dirty' => \E i \in DOMAIN queue' : queue'[i].whole
     => EndsIn(hash', queue', Target'))
  BY DEF HashInv, EndsIn, LastOn

\* Where nothing is settled there is nothing to show.
LEMMA Unsettled == ~Settled' => HashInv' /\ LeftoverInv'
  BY DEF HashInv, LeftoverInv

\* The steps that leave, or stay out of, the phases in which the hash is settled.
LEMMA Unsettling ==
  ASSUME ConnInv,
         \/ Start \/ Authenticated \/ Retry \/ Lose \/ Halt \/ Cut \/ Halted
         \/ InstallStates \/ SetupUnwinds \/ RunUnwinds
  PROVE  ~Settled'
<1> USE DEF Settled, Unconnected, ConnInv
<1>1. CASE Start \/ Authenticated \/ Retry \/ Lose \/ Cut \/ Halted
  BY <1>1 DEF Start, Authenticated, Retry, Lose, Cut, Halted, Quietly, taskVars,
              Conn!Start, Conn!Authenticated, Conn!Retry, Conn!Lose, Conn!Cut, Conn!Halted
<1>2. CASE Halt
  BY <1>2 DEF Halt, Conn!Halt
<1>3. CASE InstallStates \/ SetupUnwinds \/ RunUnwinds
  BY <1>3 DEF InstallStates, SetupUnwinds, RunUnwinds, Conn!ListenersEnd, connVars, taskVars
<1>4. QED
  BY <1>1, <1>2, <1>3

\* The steps that settle nothing new, and write nothing.
LEMMA Calm ==
  ASSUME ConnInv,
         SetupDone \/ RefreshDone \/ Reported \/ Serve \/ Shutdown \/ Close \/ UNCHANGED vars
  PROVE  /\ hash' = hash /\ queue' = queue /\ dirty' = dirty /\ stale' = stale
         /\ states' = states /\ rooms' = rooms
         /\ refresh' = refresh \/ refresh' = "idle"
         /\ Settled' => Settled
         /\ (phase' = "up") = (phase = "up")
<1>1. CASE SetupDone \/ RefreshDone
  BY <1>1 DEF SetupDone, RefreshDone, Conn!ListenersEnd, connVars, Settled, Unconnected
<1>2. CASE Reported
  BY <1>2 DEF Reported, Conn!Reported, Quietly, taskVars, Settled, Unconnected
<1>3. CASE Serve \/ Shutdown \/ Close
  BY <1>3 DEF Serve, Shutdown, Close, LifeGoes, connVars, Settled, Unconnected
<1>4. CASE UNCHANGED vars
  BY <1>4 DEF vars, connVars, taskVars, Settled, Unconnected
<1>5. QED
  BY <1>1, <1>2, <1>3, <1>4

\* Where neither hash, queue nor target moves, nothing is to be shown again.
LEMMA CalmHash ==
  ASSUME HashInv, LeftoverInv,
         hash' = hash /\ queue' = queue /\ dirty' = dirty /\ stale' = stale,
         states' = states /\ rooms' = rooms, refresh' = refresh \/ refresh' = "idle",
         Settled' => Settled, (phase' = "up") = (phase = "up")
  PROVE  HashInv' /\ LeftoverInv'
<1>1. Target' = Target
  BY TargetNext
<1>2. HashInv'
  BY <1>1, HashPrimed DEF HashInv
<1>3. LeftoverInv'
  BY DEF LeftoverInv
<1>4. QED
  BY <1>2, <1>3

\* The write of every refresh stands before a whole write of another task.
Shadowed(q) ==
    \A i \in DOMAIN q : q[i].by = "refresh" =>
        \E j \in DOMAIN q : i < j /\ q[j].whole /\ q[j].by # "refresh"

\* A write behind a leftover one leaves it shadowed.
LEMMA ShadowAppend ==
  ASSUME NEW q \in Seq(Writes), NEW w \in Writes, w.by # "refresh", w.whole \/ Shadowed(q)
  PROVE  Shadowed(Append(q, w))
<1> DEFINE p == Append(q, w)
<1>1. /\ DOMAIN p = 1..(Len(q) + 1) /\ p[Len(q) + 1] = w
      /\ \A i \in DOMAIN q : p[i] = q[i]
      /\ DOMAIN q = 1..Len(q) /\ Len(q) \in Nat
  BY AppendFacts, SeqFacts
<1> HIDE DEF p
<1>2. \A i \in DOMAIN p : p[i].by = "refresh" => i \in DOMAIN q /\ i < Len(q) + 1
  BY <1>1
<1>3. CASE w.whole
  <2>1. Len(q) + 1 \in DOMAIN p
    BY <1>1
  <2>2. QED
    BY <1>1, <1>2, <1>3, <2>1 DEF Shadowed
<1>4. CASE Shadowed(q)
  <2>1. \A j \in DOMAIN q : j \in DOMAIN p
    BY <1>1
  <2>2. QED
    BY <1>1, <1>2, <1>4, <2>1 DEF Shadowed
<1>5. QED
  BY <1>3, <1>4 DEF p

\* The first write, or the leftover itself, may go.
LEMMA ShadowDrop ==
  ASSUME NEW q \in Seq(Writes), NEW r \in Seq(Writes), NEW i, Drops(q, r, i),
         i = 1 \/ q[i].by = "refresh", Shadowed(q)
  PROVE  Shadowed(r)
<1>1. SUFFICES ASSUME NEW m \in DOMAIN r, r[m].by = "refresh"
               PROVE  \E n \in DOMAIN r : m < n /\ r[n].whole /\ r[n].by # "refresh"
  BY DEF Shadowed
<1>2. PICK k \in DOMAIN q : k # i /\ m = Place(k, i) /\ r[m] = q[k]
  BY DropsFacts
<1>3. PICK j \in DOMAIN q : k < j /\ q[j].whole /\ q[j].by # "refresh"
  BY <1>1, <1>2 DEF Shadowed
<1>4. j # i
  <2>1. j > 1
    BY <1>3, SeqFacts
  <2>2. QED
    BY <1>3, <2>1
<1>5. Place(j, i) \in DOMAIN r /\ r[Place(j, i)] = q[j] /\ m < Place(j, i)
  BY <1>2, <1>3, <1>4, DropsFacts
<1>6. QED
  BY <1>3, <1>5

\* LeftoverInv as it reads before and after a step.
LEMMA LeftoverIs ==
  /\ LeftoverInv <=> (Settled /\ refresh = "unwinding" => Shadowed(queue))
  /\ LeftoverInv' <=> (Settled' /\ refresh' = "unwinding" => Shadowed(queue'))
  BY DEF LeftoverInv, Shadowed

\* A whole write of what the hash is to become settles everything.
LEMMA WholeSettles ==
  ASSUME queue \in Seq(Writes), NEW w \in Writes, w.whole,
         queue' = Append(queue, w), w.data = Target', w.by # "refresh" \/ refresh' # "unwinding"
  PROVE  HashInv' /\ LeftoverInv'
<1>1. EndsIn(hash', queue', Target')
  BY AppendWhole
<1>2. HashInv'
  BY <1>1, HashPrimed
<1>3. LeftoverInv'
  BY LeftoverIs, ShadowAppend
<1>4. QED
  BY <1>2, <1>3

\* A heal writes the snapshot while the connection is up, and nothing otherwise.
LEMMA HealSettles ==
  ASSUME TypeOK, ConnInv, HashInv, LeftoverInv, NEW by \in Tasks,
         Heal(by) \/ UNCHANGED <<queue, stale>>,
         phase' = phase /\ states' = states /\ rooms' = rooms /\ hash' = hash /\ dirty' = dirty,
         Settled' <=> Settled, refresh' = refresh \/ refresh' = "healing",
         by # "refresh" \/ refresh' # "unwinding"
  PROVE  HashInv' /\ LeftoverInv'
<1>1. SUFFICES ASSUME Settled PROVE HashInv' /\ LeftoverInv'
  BY Unsettled
<1>2. Target' = Target
  BY TargetNext
<1>3. CASE queue' = queue /\ stale' = stale
  <2>1. HashInv'
    BY <1>2, <1>3, HashPrimed DEF HashInv
  <2>2. LeftoverInv'
    BY <1>3, LeftoverIs
  <2>3. QED
    BY <2>1, <2>2
<1>4. queue \in Seq(Writes) /\ Snapshot \in [Entities -> Entries]
  BY SnapshotType DEF Snapshot, TypeOK
<1>5. CASE conn_state = "connected" /\ queue' = Append(queue, Whole(by, Snapshot))
  <2>1. phase = "up"
    BY <1>1, <1>5 DEF ConnInv, Settled, Unconnected
  <2>2. Snapshot = Target'
    BY <1>2, <2>1 DEF Target
  <2>3. QED
    BY <1>4, <1>5, <2>2, WholeType, WholeSettles
<1>6. CASE conn_state # "connected" /\ queue' = Append(queue, Whole(by, Empty))
  <2>1. phase # "up"
    BY <1>6 DEF ConnInv
  <2>2. Empty = Target'
    BY <1>2, <2>1 DEF Target
  <2>3. QED
    BY <1>4, <1>6, <2>2, EmptyType, WholeType, WholeSettles
<1>7. QED
  BY <1>3, <1>5, <1>6, HealCases

\* A whole write that lands clears the mark, and what is behind it decides.
LEMMA WholeLands ==
  ASSUME TypeOK, HashInv, LeftoverInv, LandWhole
  PROVE  HashInv' /\ LeftoverInv'
<1>1. queue # <<>> /\ queue \in Seq(Writes) /\ Head(queue).whole /\ queue' = Tail(queue)
  BY DEF LandWhole, Served, TypeOK
<1>2. /\ queue' \in Seq(Writes) /\ Drops(queue, queue', 1) /\ Head(queue) = queue[1]
      /\ 1 \in DOMAIN queue
  BY <1>1, TailDrops DEF Drops
<1>3. /\ hash' = Apply(hash, queue[1]) /\ phase' = phase /\ stale' = stale
      /\ states' = states /\ rooms' = rooms /\ refresh' = refresh /\ life' = life
  BY <1>2 DEF LandWhole, connVars, taskVars
<1>4. Target' = Target /\ (Settled' <=> Settled)
  BY <1>3, TargetNext DEF Settled, Unconnected
<1>5. EndsIn(hash, queue, Target) => EndsIn(hash', queue', Target')
  BY <1>1, <1>2, <1>3, <1>4, LandKeeps
<1>6. HashInv'
  BY <1>1, <1>2, <1>3, <1>4, <1>5, HashPrimed DEF HashInv
<1>7. LeftoverInv'
  BY <1>1, <1>2, <1>3, <1>4, LeftoverIs, ShadowDrop
<1>8. QED
  BY <1>6, <1>7

\* An update that lands changes one entity, or has the snapshot written behind it.
LEMMA UpdateLands ==
  ASSUME TypeOK, ConnInv, HashInv, LeftoverInv, LandUpdate
  PROVE  HashInv' /\ LeftoverInv'
<1>1. queue # <<>> /\ queue \in Seq(Writes)
  BY DEF LandUpdate, Served, TypeOK
<1> DEFINE r == Tail(queue)
<1>2. /\ r \in Seq(Writes) /\ Drops(queue, r, 1) /\ Head(queue) = queue[1]
      /\ 1 \in DOMAIN queue
  BY <1>1, TailDrops DEF Drops
<1>3. /\ hash' = Apply(hash, queue[1]) /\ phase' = phase /\ conn_state' = conn_state
      /\ states' = states /\ rooms' = rooms /\ refresh' = refresh /\ life' = life
      /\ dirty' = dirty
  BY <1>2 DEF LandUpdate, connVars, taskVars
<1>4. Target' = Target /\ (Settled' <=> Settled)
  BY <1>3, TargetNext DEF Settled, Unconnected
<1>5. CASE queue' = r /\ stale' = stale
  <2>1. EndsIn(hash, queue, Target) => EndsIn(hash', queue', Target')
    BY <1>1, <1>2, <1>3, <1>4, <1>5, LandKeeps
  <2>2. (\E i \in DOMAIN r : r[i].whole) => \E i \in DOMAIN queue : queue[i].whole
    BY <1>1, <1>2, DropsFacts
  <2> HIDE DEF r
  <2>3. HashInv'
    BY <1>3, <1>4, <1>5, <2>1, <2>2, HashPrimed DEF HashInv
  <2>4. LeftoverInv'
    BY <1>1, <1>2, <1>3, <1>4, <1>5, LeftoverIs, ShadowDrop
  <2>5. QED
    BY <2>3, <2>4
<1>6. CASE conn_state = "connected" /\ queue' = Append(r, Whole("run", Snapshot))
  <2> DEFINE w == Whole("run", Snapshot)
  <2>1. w \in Writes /\ w.by = "run" /\ w.whole /\ w.data = Snapshot
    BY SnapshotType, WholeType DEF Snapshot, TypeOK, Tasks
  <2>2. CASE ~Settled
    BY <1>4, <2>2, Unsettled
  <2>3. CASE Settled
    <3>1. phase = "up"
      BY <1>6, <2>3 DEF ConnInv, Settled, Unconnected
    <3>2. w.data = Target'
      BY <1>4, <2>1, <3>1 DEF Target
    <3> HIDE DEF w, r
    <3>3. EndsIn(hash', queue', Target')
      BY <1>2, <1>6, <2>1, <3>2, AppendWhole DEF w
    <3>4. Shadowed(queue')
      BY <1>2, <1>6, <2>1, ShadowAppend DEF w
    <3>5. QED
      BY <3>3, <3>4, HashPrimed, LeftoverIs
  <2>4. QED
    BY <2>2, <2>3
<1>7. QED
  BY <1>5, <1>6 DEF LandUpdate

\* Behind a write that failed stands a whole one, or nothing is to be shown.
LEMMA FailLeaves ==
  ASSUME TypeOK, HashInv, LeftoverInv, Fail
  PROVE  HashInv' /\ LeftoverInv'
<1>1. queue # <<>> /\ queue \in Seq(Writes) /\ queue' = Tail(queue)
  BY DEF Fail, Served, TypeOK
<1>2. queue' \in Seq(Writes) /\ Drops(queue, queue', 1)
  BY <1>1, TailDrops
<1>3. /\ phase' = phase /\ stale' = stale /\ dirty' = TRUE
      /\ states' = states /\ rooms' = rooms /\ refresh' = refresh /\ life' = life
  BY DEF Fail, connVars, taskVars
<1>4. Target' = Target /\ (Settled' <=> Settled)
  BY <1>3, TargetNext DEF Settled, Unconnected
<1>5. ASSUME NEW m \in DOMAIN queue', queue'[m].whole, EndsIn(hash, queue, Target)
      PROVE  EndsIn(hash', queue', Target')
  <2>1. PICK j \in DOMAIN queue : j # 1 /\ queue'[m] = queue[j]
    BY <1>1, <1>2, DropsFacts
  <2>2. 1 < j /\ queue[j].whole
    BY <1>1, <1>5, <2>1, SeqFacts
  <2>3. QED
    BY <1>1, <1>2, <1>4, <1>5, <2>2, ShadowedDrop
<1>6. (\E i \in DOMAIN queue' : queue'[i].whole) => \E i \in DOMAIN queue : queue[i].whole
  BY <1>1, <1>2, DropsFacts
<1>7. HashInv'
  BY <1>3, <1>4, <1>5, <1>6, HashPrimed DEF HashInv
<1>8. LeftoverInv'
  BY <1>1, <1>2, <1>3, <1>4, LeftoverIs, ShadowDrop
<1>9. QED
  BY <1>7, <1>8

\* A cancelled refresh drops a write that another overwrites.
LEMMA RefreshLeaves ==
  ASSUME TypeOK, HashInv, LeftoverInv, RefreshUnwinds
  PROVE  HashInv' /\ LeftoverInv'
<1>1. /\ phase' = phase /\ stale' = stale /\ dirty' = dirty /\ states' = states
      /\ rooms' = rooms /\ refresh = "unwinding" /\ refresh' = "idle" /\ life' = life
      /\ DropWrite("refresh") /\ queue \in Seq(Writes)
  BY DEF RefreshUnwinds, connVars, TypeOK
<1>2. Target' = Target /\ (Settled' <=> Settled)
  BY <1>1, TargetNext DEF Settled, Unconnected
<1>3. LeftoverInv'
  BY <1>1 DEF LeftoverInv
<1>4. CASE hash' = hash /\ queue' = queue
  BY <1>1, <1>2, <1>3, <1>4, HashPrimed DEF HashInv
<1>5. ASSUME NEW i \in DOMAIN queue, queue[i].by = "refresh",
             queue' \in Seq(Writes), Drops(queue, queue', i), Settled
      PROVE  HashInv'
  <2>1. PICK j \in DOMAIN queue : i < j /\ queue[j].whole
    BY <1>1, <1>5, LeftoverIs DEF Shadowed
  <2>2. EndsIn(hash, queue, Target) => EndsIn(hash', queue', Target')
    BY <1>1, <1>2, <1>5, <2>1, ShadowedDrop
  <2>3. QED
    BY <1>1, <1>2, <1>5, <2>1, <2>2, HashPrimed DEF HashInv
<1>6. QED
  BY <1>1, <1>2, <1>3, <1>4, <1>5, DropCases, Unsettled

\* A lost connection and a failed attempt are reported with a clear.
LEMMA ReportSettles ==
  ASSUME TypeOK, AttemptFails \/ Report
  PROVE  HashInv' /\ LeftoverInv'
<1>1. /\ Whole("run", Empty) \in Writes /\ Whole("run", Empty).by = "run"
      /\ Whole("run", Empty).whole /\ Whole("run", Empty).data = Empty
  BY EmptyType, WholeType DEF Tasks
<1>2. queue \in Seq(Writes) /\ queue' = Append(queue, Whole("run", Empty))
  BY DEF TypeOK, AttemptFails, Report, HandOver
<1>3. phase' = "report"
  BY DEF AttemptFails, Report, Conn!AttemptFails, Conn!Report
<1>4. Target' = Empty
  BY <1>3, TargetNext
<1>5. QED
  BY <1>1, <1>2, <1>4, WholeSettles

\* An announced connection publishes the snapshot it was announced with.
LEMMA AnnounceSettles ==
  ASSUME TypeOK, ConnInv, Announce
  PROVE  HashInv' /\ LeftoverInv'
<1> DEFINE w == Whole("setup", SnapshotOf(states, rooms'))
<1>1. w \in Writes /\ w.by = "setup" /\ w.whole /\ w.data = SnapshotOf(states, rooms')
  BY SnapshotType, WholeType DEF TypeOK, Announce, Tasks
<1>2. queue \in Seq(Writes) /\ queue' = Append(queue, w)
  BY DEF TypeOK, Announce, HandOver
<1> HIDE DEF w
<1>3. phase' \in {"up", "halting"} /\ states' = states /\ life' = life /\ phase # "off"
  BY DEF Announce, Conn!Announce
<1>4. CASE phase' = "up"
  <2>1. Target' = w.data
    BY <1>1, <1>3, <1>4, TargetNext
  <2>2. QED
    BY <1>1, <1>2, <2>1, WholeSettles
<1>5. CASE phase' = "halting"
  <2>1. ~Settled'
    BY <1>3, <1>5 DEF Settled, Unconnected, ConnInv
  <2>2. QED
    BY <2>1, Unsettled
<1>6. QED
  BY <1>3, <1>4, <1>5

\* An event changes one entity of the snapshot, and its write the same.
LEMMA EventSettles ==
  ASSUME TypeOK, ConnInv, HashInv, LeftoverInv, NEW e \in Entities, StateChanged(e)
  PROVE  HashInv' /\ LeftoverInv'
<1> DEFINE w == Update(e, Entry(states'[e], rooms))
<1>1. /\ queue \in Seq(Writes) /\ queue' = Append(queue, w)
      /\ phase' = phase /\ life' = life /\ refresh' = refresh /\ rooms' = rooms
      /\ stale' = stale /\ dirty' = dirty /\ hash' = hash /\ phase \in {"setup", "up"}
  BY DEF TypeOK, StateChanged, HandOver, connVars, taskVars
<1>2. Entry(states'[e], rooms) \in Entries
  BY DEF StateChanged, TypeOK, Entry, Entries
<1>3. /\ w \in Writes /\ w.by = "run" /\ ~w.whole /\ DOMAIN w.data = {e}
      /\ w.data[e] = Entry(states'[e], rooms)
  BY <1>2, UpdateType
<1> HIDE DEF w
<1>4. CASE phase = "setup"
  <2>1. ~Settled'
    BY <1>1, <1>4 DEF Settled, Unconnected, ConnInv
  <2>2. QED
    BY <2>1, Unsettled
<1>5. CASE phase = "up"
  <2>1. Settled /\ Settled'
    BY <1>1, <1>5 DEF Settled, Unconnected
  <2>2. /\ Target = SnapshotOf(states, rooms)
        /\ Target' = SnapshotOf(states', rooms)
    BY <1>1, <1>5, TargetNext
  <2>3. Target'[e] = w.data[e] /\ \A x \in Entities : x # e => Target'[x] = Target[x]
    <3>1. \A x \in Entities : x # e => states'[x] = states[x]
      BY DEF StateChanged, TypeOK
    <3>2. QED
      BY <1>3, <2>2, <3>1 DEF SnapshotOf
  <2>4. EndsIn(hash, queue, Target) => EndsIn(hash', queue', Target')
    BY <1>1, <1>3, <2>3, AppendUpdate
  <2>5. (\E i \in DOMAIN queue' : queue'[i].whole) => \E i \in DOMAIN queue : queue[i].whole
    <3>1. \A i \in DOMAIN queue' :
             (i \in DOMAIN queue /\ queue'[i] = queue[i]) \/ queue'[i] = w
      <4>1. /\ DOMAIN queue' = 1..(Len(queue) + 1) /\ queue'[Len(queue) + 1] = w
            /\ \A i \in DOMAIN queue : queue'[i] = queue[i]
            /\ DOMAIN queue = 1..Len(queue) /\ Len(queue) \in Nat
        BY <1>1, <1>3, AppendFacts, SeqFacts
      <4>2. QED
        BY <4>1
    <3>2. QED
      BY <1>3, <3>1
  <2>6. HashInv'
    BY <1>1, <2>1, <2>4, <2>5, HashPrimed DEF HashInv
  <2>7. LeftoverInv'
    BY <1>1, <1>3, <2>1, LeftoverIs, ShadowAppend
  <2>8. QED
    BY <2>6, <2>7
<1>6. QED
  BY <1>1, <1>4, <1>5

\* A refresh that moves an entity marks the hash stale, and waits for its heal.
LEMMA RefreshMarks ==
  ASSUME TypeOK, ConnInv, HashInv, LeftoverInv, RegistryRefresh
  PROVE  HashInv' /\ LeftoverInv'
<1>1. /\ phase' = phase /\ life' = life /\ states' = states /\ hash' = hash
      /\ queue' = queue /\ dirty' = dirty /\ refresh' = "registering"
      /\ stale' = (stale \/ rooms' # rooms) /\ phase \in {"setup", "up", "lost"}
  BY DEF RegistryRefresh, connVars
<1>2. LeftoverInv'
  BY <1>1 DEF LeftoverInv
<1>3. CASE phase # "up" \/ stale'
  <2>1. Settled' /\ phase' = "up" => stale'
    BY <1>1, <1>3
  <2>2. Settled' => phase' = "up"
    BY <1>1 DEF Settled, Unconnected, ConnInv
  <2>3. QED
    BY <1>2, <2>1, <2>2, HashPrimed
<1>4. CASE ~stale'
  <2>1. rooms' = rooms /\ ~stale
    BY <1>1, <1>4
  <2>2. Target' = Target /\ (Settled' <=> Settled)
    BY <1>1, <2>1, TargetNext DEF Settled, Unconnected
  <2>3. HashInv'
    BY <1>1, <2>1, <2>2, HashPrimed DEF HashInv
  <2>4. QED
    BY <1>2, <2>3
<1>5. QED
  BY <1>3, <1>4

\* The last clear.
LEMMA LastClearSettles ==
  ASSUME TypeOK, FinalClear
  PROVE  HashInv' /\ LeftoverInv'
<1>1. /\ Whole("life", Empty) \in Writes /\ Whole("life", Empty).by = "life"
      /\ Whole("life", Empty).whole /\ Whole("life", Empty).data = Empty
  BY EmptyType, WholeType DEF Tasks
<1>2. queue \in Seq(Writes) /\ queue' = Append(queue, Whole("life", Empty))
  BY DEF TypeOK, FinalClear, HandOver
<1>3. phase' = "off"
  BY DEF FinalClear, LifeGoes, connVars
<1>4. Target' = Empty
  BY <1>3, TargetNext
<1>5. QED
  BY <1>1, <1>2, <1>4, WholeSettles

\* Every step keeps what the hash comes to.
LEMMA HashNext ==
  ASSUME TypeOK, ConnInv, HashInv, LeftoverInv, [Next]_vars
  PROVE  HashInv' /\ LeftoverInv'
<1>1. CASE SetupRegistered
  BY <1>1, HealSettles DEF SetupRegistered, connVars, Tasks, Settled, Unconnected
<1>2. CASE RefreshRegistered
  BY <1>2, HealSettles DEF RefreshRegistered, connVars, Tasks, Settled, Unconnected
<1>3. CASE RetryRegistered
  BY <1>3, HealSettles DEF RetryRegistered, connVars, taskVars, Tasks, Settled, Unconnected
<1>4. CASE StartupRegistered
  BY <1>4, HealSettles DEF StartupRegistered, LifeGoes, connVars, Tasks, Settled, Unconnected
<1>5. CASE SetupDone \/ RefreshDone \/ Reported \/ Serve \/ Shutdown \/ Close \/ UNCHANGED vars
  BY <1>5, Calm, CalmHash
<1>6. QED
  BY <1>1, <1>2, <1>3, <1>4, <1>5, WholeLands, UpdateLands, FailLeaves, RefreshLeaves,
     ReportSettles, AnnounceSettles, EventSettles, RefreshMarks, LastClearSettles,
     Unsettling, Unsettled
     DEF Next, Writer, Connection, Listener, Refresh, Lifespan

-----------------------------------------------------------------------------
(* The theorems                                                            *)

\* It holds at first,
LEMMA InitInductive == Init => Inductive
<1>1. SUFFICES ASSUME Init PROVE Inductive
  OBVIOUS
<1>2. TypeOK
  BY <1>1, InitType
<1>3. ConnInv
  BY <1>1 DEF Init, Conn!Init, ConnInv, Phases
<1>4. /\ queue = <<Whole("life", Empty)>> /\ DOMAIN queue = {1}
      /\ queue[1].by = "life" /\ queue[1].whole
  BY <1>1 DEF Init, Whole, FirstClear
<1>5. phase = "off" /\ life = "starting"
  BY <1>1 DEF Init, Conn!Init
<1>6. WaitInv
  BY <1>4, <1>5 DEF WaitInv, Waits
<1>7. HashInv
  <2>1. queue[1].data = Empty /\ DOMAIN Empty = Entities
    BY <1>1 DEF Init, Whole, FirstClear, Empty
  <2>2. EndsIn(hash, queue, Empty)
    BY <1>4, <2>1 DEF EndsIn, LastOn
  <2>3. QED
    BY <1>5, <2>2 DEF HashInv, Target
<1>8. LeftoverInv
  BY <1>1 DEF Init, LeftoverInv
<1>9. QED
  BY <1>2, <1>3, <1>6, <1>7, <1>8 DEF Inductive

\* every step keeps it,
LEMMA NextInductive == Inductive /\ [Next]_vars => Inductive'
<1>1. SUFFICES ASSUME Inductive, [Next]_vars PROVE Inductive'
  OBVIOUS
<1>2. WaitInv <=> Alone(queue) /\ Waiting
  BY DEF WaitInv, Waits, Alone, Waiting, Has
<1>3. WaitInv' <=> Alone(queue') /\ Waiting'
  BY DEF WaitInv, Waits, Alone, Waiting, Has
<1>4. QED
  BY <1>1, <1>2, <1>3, TypeNext, ConnNext, WaitNext, HashNext DEF Inductive

\* so it always holds.
LEMMA AlwaysInductive == Spec => []Inductive
<1>1. QED
  BY InitInductive, NextInductive, PTL DEF Spec

\* With the connection up the target is the snapshot.
LEMMA SettlesInStep == Inductive => InStep
<1>1. SUFFICES ASSUME Inductive, phase = "up", ~dirty, ~stale PROVE Outcome = Snapshot
  BY DEF InStep
<1>2. EndsIn(hash, queue, Snapshot)
  BY <1>1 DEF Inductive, HashInv, Settled, Unconnected, Target
<1>3. Snapshot = [e \in Entities |-> Snapshot[e]]
  BY DEF Snapshot, SnapshotOf
<1>4. QED
  BY <1>1, <1>2, <1>3, OutcomeIs DEF Inductive, TypeOK

\* With the connection away the target is empty.
LEMMA SettlesAway == Inductive => AwayIsEmpty
<1>1. SUFFICES ASSUME Inductive, Unconnected \/ phase \in {"backoff", "rejected"}, ~dirty
               PROVE  Outcome = Empty
  BY DEF AwayIsEmpty
<1>2. EndsIn(hash, queue, Empty)
  BY <1>1 DEF Inductive, HashInv, Settled, Unconnected, Target
<1>3. Empty = [e \in Entities |-> Empty[e]]
  BY DEF Empty
<1>4. QED
  BY <1>1, <1>2, <1>3, OutcomeIs DEF Inductive, TypeOK

\* A closed service has no write left.
LEMMA SettlesClosed == Inductive => ShutdownLeavesEmpty
<1>1. SUFFICES ASSUME Inductive, life = "closed", ~dirty PROVE hash = Empty
  BY DEF ShutdownLeavesEmpty
<1>2. queue = <<>> /\ phase = "off"
  BY <1>1 DEF Inductive, ConnInv
<1>3. EndsIn(hash, queue, Empty)
  BY <1>1, <1>2 DEF Inductive, HashInv, Settled, Unconnected, Target
<1>4. \A e \in Entities : hash[e] = Empty[e]
  <2>1. DOMAIN queue = {}
    BY <1>2
  <2>2. QED
    BY <1>3, <2>1 DEF EndsIn
<1>5. QED
  BY <1>1, <1>4 DEF Inductive, TypeOK, Empty

\* While the connection is up, and nothing is marked wrong, what has been handed
\* over ends in exactly Home Assistant's states with their rooms.
THEOREM StaysInStep == Spec => []InStep
<1>1. QED
  BY AlwaysInductive, SettlesInStep, PTL

\* Once a lost connection or a failed attempt has been reported, and nothing is
\* marked wrong, what has been handed over ends in an empty hash.
THEOREM AwayStaysEmpty == Spec => []AwayIsEmpty
<1>1. QED
  BY AlwaysInductive, SettlesAway, PTL

\* A service that has shut down leaves no entries behind, unless a write failed
\* and nothing healed it.
THEOREM ShutdownLeavesNone == Spec => []ShutdownLeavesEmpty
<1>1. QED
  BY AlwaysInductive, SettlesClosed, PTL

\* A task has at most one write at a time, whichever tasks interleave, and the
\* disconnect clear starts with no write of its task left behind.
THEOREM OneWriteEach == Spec => []WaitInv
<1>1. QED
  BY AlwaysInductive, PTL DEF Inductive
=============================================================================
