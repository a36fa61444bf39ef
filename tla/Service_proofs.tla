--------------------------- MODULE Service_proofs ---------------------------
(***************************************************************************)
(* What the service promises for any credentials and any number of drops,  *)
(* saves, failures and registry changes: it follows Alfred's credentials,  *)
(* never takes the tools back, and does not come back after shutdown.      *)
(***************************************************************************)
EXTENDS Service, SequenceTheorems, TLAPS

-----------------------------------------------------------------------------
(* The queue of the attempt lock                                           *)

\* Removing one element of a sequence without repetitions keeps the order of
\* the others, and the head unless it is the one.
LEMMA RemoveAtFacts ==
  ASSUME NEW S, NEW s \in Seq(S), IsInjective(s), NEW i \in DOMAIN s
  PROVE  /\ RemoveAt(s, i) \in Seq(S)
         /\ IsInjective(RemoveAt(s, i))
         /\ \A a : a \in Range(RemoveAt(s, i)) <=> a \in Range(s) /\ a # s[i]
         /\ Head(s) # s[i] => RemoveAt(s, i) # <<>> /\ Head(RemoveAt(s, i)) = Head(s)
<1> DEFINE n == Len(s)
           A == SubSeq(s, 1, i - 1)
           B == SubSeq(s, i + 1, n)
           r == RemoveAt(s, i)
<1>1. i \in 1..n /\ n \in Nat /\ DOMAIN s = 1..n
  OBVIOUS
<1>2. /\ A \in Seq(S) /\ Len(A) = i - 1 /\ \A j \in 1..(i - 1) : A[j] = s[j]
      /\ B \in Seq(S) /\ Len(B) = n - i /\ \A j \in 1..(n - i) : B[j] = s[j + i]
  <2> HIDE DEF n
  <2>1. \A k \in 1..n : s[k] \in S
    BY <1>1
  <2>2. A \in Seq(S) /\ Len(A) = i - 1 /\ \A j \in 1..(i - 1) : A[j] = s[j]
    <3>1. \A k \in 1..(i - 1) : s[k] \in S
      BY <1>1, <2>1
    <3>2. /\ A \in Seq(S)
          /\ Len(A) = IF 1 <= i - 1 THEN (i - 1) - 1 + 1 ELSE 0
          /\ \A j \in 1..((i - 1) - 1 + 1) : A[j] = s[1 + j - 1]
      BY <1>1, <3>1, SubSeqProperties
    <3> HIDE DEF A
    <3>3. QED
      BY <1>1, <3>2
  <2>3. B \in Seq(S) /\ Len(B) = n - i /\ \A j \in 1..(n - i) : B[j] = s[j + i]
    <3>1. \A k \in (i + 1)..n : s[k] \in S
      BY <1>1, <2>1
    <3>2. /\ B \in Seq(S)
          /\ Len(B) = IF i + 1 <= n THEN n - (i + 1) + 1 ELSE 0
          /\ \A j \in 1..(n - (i + 1) + 1) : B[j] = s[(i + 1) + j - 1]
      BY <1>1, <3>1, SubSeqProperties
    <3> HIDE DEF B
    <3>3. Len(B) = n - i
      BY <1>1, <3>2
    <3>4. ASSUME NEW j \in 1..(n - i) PROVE B[j] = s[j + i]
      <4>1. j \in 1..(n - (i + 1) + 1) /\ (i + 1) + j - 1 = j + i
        BY <1>1
      <4>2. B[j] = s[(i + 1) + j - 1]
        BY <3>2, <4>1
      <4>3. QED
        BY <4>1, <4>2
    <3>5. QED
      BY <3>2, <3>3, <3>4
  <2>4. QED
    BY <2>2, <2>3
<1>3. r \in Seq(S) /\ Len(r) = n - 1 /\ DOMAIN r = 1..(n - 1)
  <2>1. r \in Seq(S)
    BY <1>2 DEF RemoveAt
  <2>2. Len(r) = Len(A) + Len(B)
    BY <1>2 DEF RemoveAt
  <2>3. Len(r) = n - 1
    BY <1>1, <1>2, <2>2
  <2>4. QED
    BY <2>1, <2>3
<1>4. ASSUME NEW j \in 1..(n - 1) PROVE r[j] = IF j < i THEN s[j] ELSE s[j + 1]
  <2>1. r = A \o B
    BY DEF RemoveAt
  <2> HIDE DEF A, B, r
  <2>2. r[j] = IF j <= Len(A) THEN A[j] ELSE B[j - Len(A)]
    BY <1>1, <1>2, <2>1
  <2>3. CASE j < i
    BY <1>1, <1>2, <2>2, <2>3
  <2>4. CASE j >= i
    <3>1. j - (i - 1) \in 1..(n - i) /\ (j - (i - 1)) + i = j + 1
      BY <1>1, <2>4
    <3>2. QED
      BY <1>1, <1>2, <2>2, <2>4, <3>1
  <2>5. QED
    BY <1>1, <2>3, <2>4
<1>5. IsInjective(r)
  <2>1. SUFFICES ASSUME NEW a \in 1..(n - 1), NEW b \in 1..(n - 1), r[a] = r[b]
                 PROVE  a = b
    BY <1>3 DEF IsInjective
  <2>2. \A k, l \in 1..n : s[k] = s[l] => k = l
    BY <1>1 DEF IsInjective
  <2>3. (IF a < i THEN a ELSE a + 1) = (IF b < i THEN b ELSE b + 1)
    BY <1>1, <1>4, <2>1, <2>2
  <2>4. QED
    BY <1>1, <2>3
<1>6. ASSUME NEW a PROVE a \in Range(r) <=> a \in Range(s) /\ a # s[i]
  <2>1. ASSUME NEW j \in 1..(n - 1), a = r[j] PROVE a \in Range(s) /\ a # s[i]
    <3>1. \E k \in 1..n : k # i /\ a = s[k]
      BY <1>1, <1>4, <2>1
    <3>2. QED
      BY <1>1, <3>1 DEF Range, IsInjective
  <2>2. ASSUME NEW k \in 1..n, a = s[k], a # s[i] PROVE a \in Range(r)
    <3>1. CASE k < i
      <4>1. k \in 1..(n - 1) /\ r[k] = a
        BY <1>1, <1>4, <2>2, <3>1
      <4>2. QED
        BY <1>3, <4>1 DEF Range
    <3>2. CASE k > i
      <4>1. k - 1 \in 1..(n - 1) /\ r[k - 1] = a
        BY <1>1, <1>4, <2>2, <3>2
      <4>2. QED
        BY <1>3, <4>1 DEF Range
    <3>3. QED
      BY <1>1, <2>2, <3>1, <3>2
  <2>3. QED
    BY <1>1, <1>3, <2>1, <2>2 DEF Range
<1>7. ASSUME Head(s) # s[i] PROVE r # <<>> /\ Head(r) = Head(s)
  <2>1. i # 1 /\ Head(s) = s[1] /\ 1 \in 1..(n - 1)
    BY <1>1, <1>7
  <2>2. r[1] = s[1]
    BY <1>1, <1>4, <2>1
  <2>3. QED
    BY <1>3, <2>1, <2>2
<1>8. QED
  BY <1>3, <1>5, <1>6, <1>7

\* The same of a queue that may not hold the one who leaves.
LEMMA RemovalsFacts ==
  ASSUME NEW S, NEW s \in Seq(S), IsInjective(s), NEW x, NEW r \in Removals(s, x)
  PROVE  /\ r \in Seq(S)
         /\ IsInjective(r)
         /\ \A a : a \in Range(r) <=> a \in Range(s) /\ a # x
         /\ s # <<>> /\ Head(s) # x => r # <<>> /\ Head(r) = Head(s)
<1>1. CASE x \in Range(s)
  <2>1. PICK i \in DOMAIN s : s[i] = x /\ r = RemoveAt(s, i)
    BY <1>1 DEF Removals
  <2>2. QED
    BY <2>1, RemoveAtFacts
<1>2. CASE x \notin Range(s)
  BY <1>2 DEF Removals
<1>3. QED
  BY <1>1, <1>2

\* One who joins the queue stands behind the others.
LEMMA AppendFacts ==
  ASSUME NEW S, NEW s \in Seq(S), IsInjective(s), NEW x \in S, x \notin Range(s)
  PROVE  /\ Append(s, x) \in Seq(S)
         /\ IsInjective(Append(s, x))
         /\ \A a : a \in Range(Append(s, x)) <=> a \in Range(s) \/ a = x
         /\ s # <<>> => Append(s, x) # <<>> /\ Head(Append(s, x)) = Head(s)
<1>1. /\ Append(s, x) \in Seq(S) /\ Len(s) \in Nat /\ DOMAIN s = 1..Len(s)
      /\ DOMAIN Append(s, x) = 1..(Len(s) + 1) /\ Append(s, x)[Len(s) + 1] = x
      /\ \A j \in 1..Len(s) : Append(s, x)[j] = s[j]
  OBVIOUS
<1>2. IsInjective(Append(s, x))
  <2>1. \A j \in 1..Len(s) : s[j] # x
    BY <1>1 DEF Range
  <2>2. QED
    BY <1>1, <2>1 DEF IsInjective
<1>3. ASSUME NEW a PROVE a \in Range(Append(s, x)) <=> a \in Range(s) \/ a = x
  BY <1>1 DEF Range
<1>4. s # <<>> => Append(s, x) # <<>> /\ Head(Append(s, x)) = Head(s)
  OBVIOUS
<1>5. QED
  BY <1>1, <1>2, <1>3, <1>4

\* The tail of a sequence keeps its last element.
LEMMA TailFacts ==
  ASSUME NEW S, NEW s \in Seq(S), s # <<>>
  PROVE  /\ Tail(s) \in Seq(S) /\ Head(s) \in S
         /\ Tail(s) # <<>> => Tail(s)[Len(Tail(s))] = s[Len(s)]
         /\ Tail(s) = <<>> => s[Len(s)] = Head(s)
<1>1. Len(s) \in Nat /\ Len(s) > 0 /\ Len(Tail(s)) = Len(s) - 1 /\ Tail(s) \in Seq(S)
  OBVIOUS
<1>2. Tail(s) # <<>> => Tail(s)[Len(Tail(s))] = s[Len(s)]
  BY <1>1
<1>3. Tail(s) = <<>> => s[Len(s)] = Head(s)
  <2>1. Tail(s) = <<>> => Len(s) = 1
    <3>1. Tail(s) = <<>> => Len(Tail(s)) = Len(<<>>)
      BY Zenon
    <3>2. Len(<<>>) = 0
      BY EmptySeq
    <3>3. Len(Tail(s)) = 0 => Len(s) = 1
      <4>1. \A m, n : n \in Nat /\ m = n - 1 /\ m = 0 => n = 1
        OBVIOUS
      <4>2. QED
        BY <1>1, <4>1, Zenon
    <3>4. QED
      BY <3>1, <3>2, <3>3, Zenon
  <2>2. Head(s) = s[1]
    OBVIOUS
  <2>3. QED
    BY <2>1, <2>2
<1>4. QED
  BY <1>1, <1>2, <1>3

\* The part of TypeOK about the attempt lock.
QueueOK ==
    /\ asks \in Seq(Askers) /\ IsInjective(asks)
    /\ sent \in [Askers -> {"none", "empty", "tools"}]
    /\ \A by \in Askers : sent[by] # "none" => Turn(by)

\* Who holds the lock is in its queue.
LEMMA TurnAsks ==
  ASSUME QueueOK, NEW by \in Askers, Turn(by)
  PROVE  Asking(by)
<1>1. asks[1] = by /\ 1 \in DOMAIN asks
  BY DEF Turn, QueueOK
<1>2. QED
  BY <1>1 DEF Asking, Range

\* A task that leaves takes nobody's turn.
LEMMA LeaveQueue ==
  ASSUME QueueOK, NEW by \in Askers, Leave(by)
  PROVE  /\ QueueOK'
         /\ \A a : Asking(a)' <=> Asking(a) /\ a # by
         /\ \A a \in Askers : sent'[a] = IF a = by THEN "none" ELSE sent[a]
<1>1. /\ asks' \in Seq(Askers) /\ IsInjective(asks')
      /\ \A a : a \in Range(asks') <=> a \in Range(asks) /\ a # by
      /\ asks # <<>> /\ Head(asks) # by => asks' # <<>> /\ Head(asks') = Head(asks)
  BY RemovalsFacts DEF Leave, QueueOK
<1>2. \A a \in Askers : sent'[a] = IF a = by THEN "none" ELSE sent[a]
  BY DEF Leave, QueueOK
<1>3. sent' \in [Askers -> {"none", "empty", "tools"}]
  BY DEF Leave, QueueOK
<1>4. ASSUME NEW a \in Askers, sent'[a] # "none" PROVE Turn(a)'
  BY <1>1, <1>2, <1>4 DEF QueueOK, Turn
<1>5. QED
  BY <1>1, <1>2, <1>3, <1>4 DEF QueueOK, Asking

\* A success takes itself and the retry out of the queue.
LEMMA LandsQueue ==
  ASSUME QueueOK, NEW by \in Askers, Lands(by)
  PROVE  /\ QueueOK'
         /\ \A a : Asking(a)' <=> Asking(a) /\ a # by /\ a # "retry"
         /\ \A a \in Askers : sent'[a] = "none"
<1>1. PICK rest \in Removals(asks, by) : asks' \in Removals(rest, "retry")
  BY DEF Lands
<1>2. /\ rest \in Seq(Askers) /\ IsInjective(rest)
      /\ \A a : a \in Range(rest) <=> a \in Range(asks) /\ a # by
  BY <1>1, RemovalsFacts DEF QueueOK
<1>3. /\ asks' \in Seq(Askers) /\ IsInjective(asks')
      /\ \A a : a \in Range(asks') <=> a \in Range(rest) /\ a # "retry"
  BY <1>1, <1>2, RemovalsFacts
<1>4. \A a \in Askers : sent[a] # "none" => a = by
  BY DEF QueueOK, Turn, Lands
<1>5. \A a \in Askers : sent'[a] = "none"
  BY <1>4 DEF QueueOK, Lands
<1>6. sent' \in [Askers -> {"none", "empty", "tools"}]
  BY DEF QueueOK, Lands
<1>7. QED
  BY <1>2, <1>3, <1>5, <1>6 DEF QueueOK, Asking

\* One who asks waits behind the others.
LEMMA JoinQueue ==
  ASSUME QueueOK, NEW by \in Askers, ~Asking(by), asks' = Append(asks, by), sent' = sent
  PROVE  QueueOK' /\ \A a : Asking(a)' <=> Asking(a) \/ a = by
<1>1. /\ asks' \in Seq(Askers) /\ IsInjective(asks')
      /\ \A a : a \in Range(asks') <=> a \in Range(asks) \/ a = by
      /\ asks # <<>> => asks' # <<>> /\ Head(asks') = Head(asks)
  BY AppendFacts DEF QueueOK, Asking
<1>2. QED
  BY <1>1 DEF QueueOK, Turn, Asking

\* Who has the turn sends what there is.
LEMMA AttemptQueue ==
  ASSUME QueueOK, NEW by \in Askers, Attempt(by)
  PROVE  /\ QueueOK'
         /\ \A a \in Askers :
               sent'[a] = IF a = by THEN (IF ready THEN "tools" ELSE "empty") ELSE sent[a]
<1>1. \A a \in Askers :
        sent'[a] = IF a = by THEN (IF ready THEN "tools" ELSE "empty") ELSE sent[a]
  BY DEF QueueOK, Attempt
<1>2. sent' \in [Askers -> {"none", "empty", "tools"}] /\ asks' = asks
  BY DEF QueueOK, Attempt
<1>3. QED
  BY <1>1, <1>2 DEF QueueOK, Attempt, Turn

-----------------------------------------------------------------------------
(* The inductive invariant                                                 *)

\* Nothing has happened yet.
LEMMA InitInductive == Init => Inductive
<1> SUFFICES ASSUME Init PROVE Inductive
  OBVIOUS
<1>1. \A a : ~Asking(a)
  BY DEF Init, Asking, Range
<1>2. TypeOK
  <2>1. pushes \in Seq(Creds)
    <3>1. pushes = <<>> \/ \E c \in Creds : pushes = <<c>>
      BY DEF Init
    <3>2. ASSUME NEW c \in Creds PROVE <<c>> \in Seq(Creds)
      OBVIOUS
    <3>3. CASE pushes = <<>>
      BY <3>3
    <3>4. CASE \E c \in Creds : pushes = <<c>>
      BY <3>2, <3>4, Zenon
    <3>5. QED
      BY <3>1, <3>3, <3>4
  <2>2. asks \in Seq(Askers) /\ IsInjective(asks)
    BY DEF Init, IsInjective
  <2>3. QED
    BY <2>1, <2>2 DEF Init, TypeOK
<1>3. ConnInv
  BY DEF Init, Conn!Init, ConnInv, Phases
<1>4. QED
  BY <1>1, <1>2, <1>3 DEF Init, Inductive, AskInv, LeaveInv, ToolsInv, PushInv

\* The steps of the connection that leave the credentials alone.
LEMMA ConnectionKeeps ==
  ASSUME Inductive, Authenticated \/ AttemptFails \/ Announce \/ Lose \/ GoesOn
  PROVE  Inductive'
<1>1. UNCHANGED <<creds, swap, pushes, alfred, ready, registrar, life>> /\ spoiled' \in BOOLEAN
  BY DEF Authenticated, AttemptFails, Announce, Lose, GoesOn, Quietly, Closed, Inductive, TypeOK
<1>2. TypeOK' /\ LeaveInv' /\ ToolsInv' /\ PushInv' /\ AskInv'
  <2>1. phase # "off" /\ phase' # "off"
    BY DEF Authenticated, AttemptFails, Announce, Lose, GoesOn, Conn!Authenticated,
       Conn!AttemptFails, Conn!Announce, Conn!Lose, Conn!Report, Conn!Reported,
       Conn!Retry, Conn!Cut
  <2>2. setup' = setup \/ (setup' = "publishing" /\ setup = "idle")
    <3>1. CASE Announce
      BY <3>1 DEF Inductive, ConnInv, Announce, Conn!Announce
    <3>2. CASE ~Announce
      BY <3>2 DEF Authenticated, AttemptFails, Lose, GoesOn
    <3>3. QED
      BY <3>1, <3>2
  <2>3. QED
    BY <1>1, <2>1, <2>2 DEF Inductive, TypeOK, LeaveInv, ToolsInv, PushInv, AskInv, Asking, Turn,
       alfred, registrar
<1>3. ConnInv'
  BY DEF Inductive, ConnInv, Phases, Authenticated, AttemptFails, Announce, Lose, GoesOn,
     Conn!Authenticated, Conn!AttemptFails, Conn!Announce, Conn!Lose, Conn!Report,
     Conn!Reported, Conn!Retry, Conn!Cut
<1>4. QED
  BY <1>2, <1>3 DEF Inductive

\* Calls of apply_credentials, and Alfred's side of them.
LEMMA PushesKeep ==
  ASSUME Inductive, (\E c \in Creds : Save(c)) \/ Push \/ Apply \/ Swap
  PROVE  Inductive'
<1>1. CASE \E c \in Creds : Save(c)
  BY <1>1 DEF Save, Inductive, TypeOK, ConnInv, LeaveInv, ToolsInv, PushInv, AskInv, Asking, Turn,
     connVars, registrar
<1>2. CASE Push
  <2>1. pushes' \in Seq(Creds)
    BY <1>2 DEF Push, Inductive, TypeOK
  <2>2. PushInv'
    <3>1. CASE stored = None
      BY <1>2, <3>1 DEF Push, PushInv
    <3>2. CASE stored # None
      <4>1. pushes' # <<>> /\ pushes'[Len(pushes')] = stored
        BY <1>2, <3>2 DEF Push, Inductive, TypeOK
      <4>2. QED
        BY <1>2, <4>1 DEF Push, PushInv
    <3>3. QED
      BY <3>1, <3>2
  <2>3. TypeOK' /\ ConnInv' /\ LeaveInv' /\ ToolsInv' /\ AskInv'
    BY <1>2, <2>1 DEF Push, Inductive, TypeOK, ConnInv, LeaveInv, ToolsInv, AskInv, Asking,
       Turn, connVars, registrar
  <2>4. QED
    BY <2>2, <2>3 DEF Inductive
<1>3. CASE Apply
  <2>1. /\ pushes' \in Seq(Creds) /\ Head(pushes) \in Creds /\ Head(pushes) # None
        /\ pushes' # <<>> => pushes'[Len(pushes')] = pushes[Len(pushes)]
        /\ pushes' = <<>> => pushes[Len(pushes)] = Head(pushes)
        /\ pushes # <<>>
    BY <1>3, TailFacts, ServiceAssumption DEF Apply, Inductive, TypeOK
  <2>2. \/ UNCHANGED <<connVars, creds, swap>> /\ NothingToDo(Head(pushes))
        \/ /\ phase = "off" /\ Conn!Start /\ creds' = Head(pushes) /\ swap' = swap
           /\ spoiled' = FALSE
        \/ Conn!Halt /\ swap' = Head(pushes) /\ creds' = creds /\ spoiled' = FALSE
    BY <1>3 DEF Apply, Closed
  <2>3. swap = None /\ life = "serving" /\ UNCHANGED <<alfred, ready, setup, registrar, life>>
    BY <1>3 DEF Apply
  <2>4. TypeOK' /\ PushInv'
    BY <2>1, <2>2, <2>3 DEF Inductive, TypeOK, PushInv, NothingToDo, connVars, alfred, registrar, Turn
  <2>5. ConnInv' /\ AskInv' /\ LeaveInv' /\ ToolsInv'
    BY <2>2, <2>3 DEF Inductive, ConnInv, AskInv, LeaveInv, ToolsInv, Asking, Phases, connVars,
       Conn!Start, Conn!Halt, alfred, registrar
  <2>6. QED
    BY <2>4, <2>5 DEF Inductive
<1>4. CASE Swap
  BY <1>4 DEF Swap, Closed, Conn!Start, Inductive, TypeOK, ConnInv, LeaveInv, ToolsInv, PushInv, AskInv,
     Asking, Turn, Phases, alfred, registrar
<1>5. QED
  BY <1>1, <1>2, <1>3, <1>4

\* Attempts, their ends, and those who ask for them.
LEMMA AttemptsKeep ==
  ASSUME Inductive,
         \/ \E by \in Askers : Attempt(by) \/ Lands(by) \/ Fails(by)
         \/ RetryWakes \/ Published \/ RegistryChange
  PROVE  Inductive'
<1>1. QueueOK /\ TypeOK /\ ConnInv /\ AskInv /\ LeaveInv /\ ToolsInv /\ PushInv
  BY DEF Inductive, TypeOK, QueueOK
<1>2. ASSUME NEW by \in Askers, Attempt(by) PROVE Inductive'
  <2>1. QueueOK' /\ \A a \in Askers :
               sent'[a] = IF a = by THEN (IF ready THEN "tools" ELSE "empty") ELSE sent[a]
    BY <1>1, <1>2, AttemptQueue
  <2>2. UNCHANGED <<connVars, creds, swap, pushes, alfred, ready, setup, asks, retry, refresh,
                   life>>
    BY <1>2 DEF Attempt
  <2>3. TypeOK' /\ ConnInv' /\ AskInv' /\ LeaveInv' /\ PushInv'
    BY <1>1, <2>1, <2>2 DEF QueueOK, TypeOK, ConnInv, AskInv, LeaveInv, PushInv, Asking,
       connVars, alfred
  <2>4. ToolsInv'
    BY <1>1, <2>1, <2>2 DEF TypeOK, ToolsInv, alfred
  <2>5. QED
    BY <2>3, <2>4 DEF Inductive
<1>3. ASSUME NEW by \in Askers, Lands(by) PROVE Inductive'
  <2>1. /\ QueueOK'
        /\ \A a : Asking(a)' <=> Asking(a) /\ a # by /\ a # "retry"
        /\ \A a \in Askers : sent'[a] = "none"
    BY <1>1, <1>3, LandsQueue
  <2>2. /\ UNCHANGED <<connVars, creds, swap, pushes, stored, ready, setup, refresh, life>>
        /\ listed' = sent[by] /\ owed' = owed + 1 /\ retry' = FALSE
        /\ sent[by] \in {"empty", "tools"}
    BY <1>1, <1>3 DEF Lands, Land, TypeOK
  <2>3. TypeOK'
    <3>1. listed' \in {"none", "empty", "tools", "gone"} /\ owed' \in Nat /\ retry' \in BOOLEAN
      <4>1. owed \in Nat
        BY <1>1 DEF TypeOK
      <4>2. owed' \in Nat
        BY <2>2, <4>1
      <4>3. listed' \in {"none", "empty", "tools", "gone"}
        BY <2>2
      <4>4. QED
        BY <2>2, <4>2, <4>3
    <3>2. UNCHANGED <<creds, swap, pushes, stored, ready, setup, refresh, spoiled, life>>
      BY <2>2 DEF connVars
    <3>3. QED
      BY <1>1, <2>1, <3>1, <3>2 DEF QueueOK, TypeOK
  <2>4. ConnInv' /\ AskInv' /\ ToolsInv' /\ LeaveInv'
    BY <1>1, <2>1, <2>2 DEF ConnInv, AskInv, ToolsInv, LeaveInv, connVars
  <2>5. PushInv'
    BY <1>1, <2>2 DEF PushInv, TypeOK
  <2>6. QED
    BY <2>3, <2>4, <2>5 DEF Inductive
<1>4. ASSUME NEW by \in Askers, Fails(by) PROVE Inductive'
  <2>1. /\ QueueOK'
        /\ \A a : Asking(a)' <=> Asking(a) /\ a # by
        /\ \A a \in Askers : sent'[a] = IF a = by THEN "none" ELSE sent[a]
    BY <1>1, <1>4, LeaveQueue DEF Fails
  <2>2. UNCHANGED <<connVars, creds, swap, pushes, alfred, ready, setup, refresh, life>>
        /\ retry' = TRUE
    BY <1>4 DEF Fails
  <2>3. Asking(by)
    BY <1>1, <1>4, TurnAsks DEF Fails, QueueOK
  <2>4. life \notin {"leaving", "closed"}
    BY <1>1, <2>3 DEF AskInv, LeaveInv, ConnInv, Askers
  <2>5. TypeOK' /\ ConnInv' /\ AskInv' /\ LeaveInv' /\ ToolsInv' /\ PushInv'
    BY <1>1, <2>1, <2>2, <2>4 DEF QueueOK, TypeOK, ConnInv, AskInv, LeaveInv, ToolsInv, PushInv,
       connVars, alfred
  <2>6. QED
    BY <2>5 DEF Inductive
<1>5. CASE RetryWakes
  <2>1. QueueOK' /\ \A a : Asking(a)' <=> Asking(a) \/ a = "retry"
    BY <1>1, <1>5, JoinQueue DEF RetryWakes, Askers
  <2>2. QED
    BY <1>1, <1>5, <2>1 DEF RetryWakes, QueueOK, Inductive, TypeOK, ConnInv, AskInv, LeaveInv,
       ToolsInv, PushInv, connVars, alfred
<1>6. CASE Published
  <2>1. QueueOK' /\ \A a : Asking(a)' <=> Asking(a) \/ a = "connect"
    BY <1>1, <1>6, JoinQueue DEF Published, Askers, AskInv
  <2>2. QED
    BY <1>1, <1>6, <2>1 DEF Published, QueueOK, Inductive, TypeOK, ConnInv, AskInv, LeaveInv,
       ToolsInv, PushInv, connVars, alfred
<1>7. CASE RegistryChange
  <2>1. QueueOK' /\ \A a : Asking(a)' <=> Asking(a) \/ a = "refresh"
    BY <1>1, <1>7, JoinQueue DEF RegistryChange, Askers, AskInv
  <2>2. QED
    BY <1>1, <1>7, <2>1 DEF RegistryChange, QueueOK, Inductive, TypeOK, ConnInv, AskInv, LeaveInv,
       ToolsInv, PushInv, connVars, alfred
<1>8. QED
  BY <1>2, <1>3, <1>4, <1>5, <1>6, <1>7

\* The listeners end or are cancelled, and so is the refresh.
LEMMA ListenersKeep ==
  ASSUME Inductive, ListenerDone \/ ListenerCancelled \/ RefreshGoesOn \/ RefreshCancelled
  PROVE  Inductive'
<1>1. QueueOK /\ TypeOK /\ ConnInv /\ AskInv /\ LeaveInv /\ ToolsInv /\ PushInv
  BY DEF Inductive, TypeOK, QueueOK
<1>2. CASE ListenerDone
  BY <1>1, <1>2 DEF ListenerDone, Quietly, Conn!ListenersEnd, Inductive, TypeOK, ConnInv, AskInv,
     LeaveInv, ToolsInv, PushInv, Asking, Turn, alfred, registrar
<1>3. CASE ListenerCancelled
  <2>1. /\ QueueOK'
        /\ \A a : Asking(a)' <=> Asking(a) /\ a # "connect"
        /\ \A a \in Askers : sent'[a] = IF a = "connect" THEN "none" ELSE sent[a]
    BY <1>1, <1>3, LeaveQueue DEF ListenerCancelled, Cancelled, Askers
  <2>2. /\ UNCHANGED <<spoiled, creds, swap, pushes, stored, ready, retry, refresh, life>>
        /\ phase' = phase /\ phase \in {"up", "lost", "halting"}
        /\ setup' = "idle" /\ listeners' = "idle"
    BY <1>3 DEF ListenerCancelled, Conn!ListenersEnd, Cancelled, Land, alfred
  <2>3. CASE UNCHANGED alfred
    BY <1>1, <2>1, <2>2, <2>3 DEF QueueOK, Inductive, TypeOK, ConnInv, AskInv, LeaveInv, ToolsInv,
       PushInv, alfred
  <2>4. CASE sent["connect"] # "none" /\ Land("connect")
    <3>1. listed' = sent["connect"] /\ owed' = owed + 1 /\ sent["connect"] \in {"empty", "tools"}
      BY <1>1, <2>4 DEF Land, TypeOK, Askers
    <3>2. \A a \in Askers : sent[a] # "none" => a = "connect"
      BY <1>1, <2>4 DEF QueueOK, Turn, Askers
    <3>3. owed' \in Nat /\ owed' # 0
      BY <1>1, <3>1 DEF TypeOK
    <3>4. TypeOK'
      BY <1>1, <2>1, <2>2, <3>1, <3>3 DEF QueueOK, TypeOK
    <3>5. ConnInv' /\ AskInv' /\ LeaveInv' /\ PushInv'
      BY <1>1, <2>1, <2>2, <3>1, <3>3 DEF ConnInv, AskInv, LeaveInv, PushInv
    <3>6. ToolsInv'
      BY <1>1, <2>1, <2>2, <3>1, <3>2 DEF ToolsInv, TypeOK, Askers
    <3>7. QED
      BY <3>4, <3>5, <3>6 DEF Inductive
  <2>5. QED
    BY <1>3, <2>3, <2>4 DEF ListenerCancelled, Cancelled
<1>4. CASE RefreshCancelled
  <2>1. /\ QueueOK'
        /\ \A a : Asking(a)' <=> Asking(a) /\ a # "refresh"
        /\ \A a \in Askers : sent'[a] = IF a = "refresh" THEN "none" ELSE sent[a]
    BY <1>1, <1>4, LeaveQueue DEF RefreshCancelled, Cancelled, Askers
  <2>2. /\ UNCHANGED <<phase, listeners, spoiled, creds, swap, pushes, stored, ready, setup, retry,
                        life>>
        /\ phase # "off" /\ refresh' = FALSE
    BY <1>4 DEF RefreshCancelled, Doomed, Cancelled, Land, connVars, alfred
  <2>3. CASE UNCHANGED alfred
    BY <1>1, <2>1, <2>2, <2>3 DEF QueueOK, Inductive, TypeOK, ConnInv, AskInv, LeaveInv, ToolsInv,
       PushInv, alfred
  <2>4. CASE sent["refresh"] # "none" /\ Land("refresh")
    <3>1. listed' = sent["refresh"] /\ owed' = owed + 1 /\ sent["refresh"] \in {"empty", "tools"}
      BY <1>1, <2>4 DEF Land, TypeOK, Askers
    <3>2. \A a \in Askers : sent[a] # "none" => a = "refresh"
      BY <1>1, <2>4 DEF QueueOK, Turn, Askers
    <3>3. owed' \in Nat /\ owed' # 0
      BY <1>1, <3>1 DEF TypeOK
    <3>4. TypeOK'
      BY <1>1, <2>1, <2>2, <3>1, <3>3 DEF QueueOK, TypeOK
    <3>5. ConnInv' /\ AskInv' /\ LeaveInv' /\ PushInv'
      BY <1>1, <2>1, <2>2, <3>1, <3>3 DEF ConnInv, AskInv, LeaveInv, PushInv
    <3>6. ToolsInv'
      BY <1>1, <2>1, <2>2, <3>1, <3>2 DEF ToolsInv, TypeOK, Askers
    <3>7. QED
      BY <3>4, <3>5, <3>6 DEF Inductive
  <2>5. QED
    BY <1>4, <2>3, <2>4 DEF RefreshCancelled, Cancelled
<1>5. CASE RefreshGoesOn
  <2>1. /\ UNCHANGED <<conn_state, phase, listeners, creds, swap, pushes, alfred, ready, setup,
                        asks, sent, retry, life>>
        /\ refresh' = FALSE /\ spoiled' \in BOOLEAN /\ ~Asking("refresh")
    BY <1>5 DEF RefreshGoesOn
  <2>2. TypeOK'
    <3>1. refresh' \in BOOLEAN
      BY <2>1
    <3>2. QED
      BY <1>1, <2>1, <3>1 DEF TypeOK, Turn, alfred
  <2>3. AskInv'
    BY <1>1, <2>1 DEF AskInv, Asking
  <2>4. ConnInv' /\ LeaveInv' /\ ToolsInv' /\ PushInv'
    BY <1>1, <2>1 DEF ConnInv, LeaveInv, ToolsInv, PushInv, alfred
  <2>5. QED
    BY <2>2, <2>3, <2>4 DEF Inductive
<1>6. QED
  BY <1>2, <1>3, <1>4, <1>5

\* Shutdown's steps.
LEMMA ShutdownKeeps ==
  ASSUME Inductive, Shutdown \/ Halt \/ Halted \/ StopRegistrar \/ Unregister
  PROVE  Inductive'
<1>1. QueueOK /\ TypeOK /\ ConnInv /\ AskInv /\ LeaveInv /\ ToolsInv /\ PushInv
  BY DEF Inductive, TypeOK, QueueOK
<1>2. CASE Shutdown
  <2>1. pushes' \in Seq(Creds)
    BY <1>2, EmptySeq DEF Shutdown
  <2>2. QED
    BY <1>1, <1>2, <2>1 DEF Shutdown, LifeGoes, Inductive, TypeOK, ConnInv, AskInv, LeaveInv,
       ToolsInv, PushInv, Asking, Turn, connVars, alfred, registrar
<1>3. CASE Halt \/ Halted
  <2>1. /\ UNCHANGED <<creds, swap, pushes, alfred, ready, registrar, life, setup, listeners>>
        /\ phase # "off" /\ phase' \in Phases /\ life # "serving"
        /\ listeners = "running" => phase' = "halting"
        /\ phase' = "off" => ~refresh
        /\ spoiled' \in BOOLEAN
    BY <1>1, <1>3 DEF Halt, Halted, Quietly, Closed, Conn!Halt, Conn!Halted, ConnInv, Phases,
       TypeOK, registrar
  <2>2. QED
    BY <1>1, <2>1 DEF Inductive, TypeOK, ConnInv, AskInv, LeaveInv, ToolsInv, PushInv, Asking,
       Turn, alfred, registrar
<1>4. CASE StopRegistrar
  <2>1. /\ QueueOK'
        /\ \A a : Asking(a)' <=> Asking(a) /\ a # "retry"
        /\ \A a \in Askers : sent'[a] = IF a = "retry" THEN "none" ELSE sent[a]
    BY <1>1, <1>4, LeaveQueue DEF StopRegistrar, Cancelled, Askers
  <2>2. /\ UNCHANGED <<phase, listeners, spoiled, creds, swap, pushes, stored, ready, setup, refresh>>
        /\ phase = "off" /\ retry' = FALSE /\ life = "stopping" /\ life' = "leaving"
    BY <1>4 DEF StopRegistrar, LifeGoes, Cancelled, Land, connVars, alfred
  <2>3. CASE UNCHANGED alfred
    BY <1>1, <2>1, <2>2, <2>3 DEF QueueOK, Inductive, TypeOK, ConnInv, AskInv, LeaveInv, ToolsInv,
       PushInv, alfred
  <2>4. CASE sent["retry"] # "none" /\ Land("retry")
    <3>1. listed' = sent["retry"] /\ owed' = owed + 1 /\ sent["retry"] \in {"empty", "tools"}
      BY <1>1, <2>4 DEF Land, TypeOK, Askers
    <3>2. \A a \in Askers : sent[a] # "none" => a = "retry"
      BY <1>1, <2>4 DEF QueueOK, Turn, Askers
    <3>3. owed' \in Nat
      BY <1>1, <3>1 DEF TypeOK
    <3>4. TypeOK'
      BY <1>1, <2>1, <2>2, <3>1, <3>3 DEF QueueOK, TypeOK
    <3>5. ConnInv' /\ AskInv' /\ LeaveInv' /\ PushInv'
      BY <1>1, <2>1, <2>2, <3>1 DEF ConnInv, AskInv, LeaveInv, PushInv
    <3>6. ToolsInv'
      BY <1>1, <2>1, <2>2, <3>1, <3>2 DEF ToolsInv, TypeOK, Askers
    <3>7. QED
      BY <3>4, <3>5, <3>6 DEF Inductive
  <2>5. QED
    BY <1>4, <2>3, <2>4 DEF StopRegistrar, Cancelled
<1>5. CASE Unregister
  BY <1>1, <1>5 DEF Unregister, LifeGoes, Inductive, TypeOK, ConnInv, AskInv, LeaveInv,
     ToolsInv, PushInv, Asking, Turn, connVars, registrar
<1>6. QED
  BY <1>2, <1>3, <1>4, <1>5

\* Every step of the service keeps the inductive invariant.
LEMMA NextInductive == Inductive /\ [Next]_vars => Inductive'
<1> SUFFICES ASSUME Inductive, [Next]_vars PROVE Inductive'
  OBVIOUS
<1>1. CASE UNCHANGED vars
  BY <1>1 DEF vars, connVars, alfred, registrar, Inductive, TypeOK, ConnInv, AskInv, LeaveInv,
     ToolsInv, PushInv, Asking, Turn
<1>2. CASE Next
  BY <1>2, PushesKeep, ConnectionKeeps, AttemptsKeep, ListenersKeep, ShutdownKeeps
     DEF Next, Connection, Listener
<1>3. QED
  BY <1>1, <1>2

\* The inductive invariant holds.
THEOREM AlwaysInductive == Spec => []Inductive
BY InitInductive, NextInductive, PTL DEF Spec

-----------------------------------------------------------------------------
(* What it implies                                                         *)

\* Every variable keeps its kind of value, and one attempt at a time is under way.
THEOREM TypeCorrect == Spec => []TypeOK
<1>1. Inductive => TypeOK
  BY DEF Inductive
<1>2. QED
  BY <1>1, AlwaysInductive, PTL

\* Once nothing is on its way, the connection uses what Alfred has stored.
THEOREM CredentialsFollow == Spec => []FollowsStored
<1>1. Inductive => FollowsStored
  BY DEF Inductive, PushInv, FollowsStored
<1>2. QED
  BY <1>1, AlwaysInductive, PTL

\* A step that changes what Alfred has is a registration that lands, or the
\* farewell.
LEMMA ListedNext ==
  ASSUME Inductive, Next, listed' # listed
  PROVE  (\E by \in Askers : sent[by] # "none" /\ listed' = sent[by]) \/ Unregister
<1>1. \/ \E by \in Askers : Lands(by)
      \/ ListenerCancelled \/ RefreshCancelled \/ StopRegistrar \/ Unregister
  BY DEF Next, Connection, Listener, Save, Push, Apply, Swap, Authenticated, AttemptFails,
     Announce, GoesOn, Lose, Halt, Halted, Quietly, Attempt, Fails, RetryWakes, Published,
     ListenerDone, RegistryChange, RefreshGoesOn, Shutdown, alfred
<1>2. QED
  BY <1>1 DEF Lands, Land, ListenerCancelled, RefreshCancelled, StopRegistrar, Cancelled, alfred,
     Askers

\* No registration lands over one that is newer.
THEOREM ToolsAreKept == Spec => ToolsStay
<1>1. ASSUME Inductive, [Next]_vars PROVE [listed = "tools" => listed' # "empty"]_listed
  <2>1. CASE Next /\ listed' # listed
    BY <1>1, <2>1, ListedNext DEF Inductive, ToolsInv, Unregister
  <2>2. CASE listed' = listed
    BY <2>2
  <2>3. QED
    BY <1>1, <2>1, <2>2 DEF vars, alfred
<1>2. QED
  BY <1>1, AlwaysInductive, PTL DEF Spec, ToolsStay

\* Nothing registers the service again once it has left.
THEOREM StaysAway == Spec => NoComeback
<1>1. ASSUME Inductive, [Next]_vars PROVE [listed = "gone" => listed' = "gone"]_listed
  <2>1. CASE Next /\ listed' # listed /\ listed = "gone"
    <3>1. life = "closed" /\ phase = "off" /\ ~retry
      BY <1>1, <2>1 DEF Inductive, LeaveInv
    <3>2. \A by \in Askers : ~Asking(by)
      BY <1>1, <3>1 DEF Inductive, AskInv, ConnInv, Askers
    <3>3. QueueOK
      BY <1>1 DEF Inductive, TypeOK, QueueOK
    <3>4. \A by \in Askers : sent[by] = "none"
      BY <3>2, <3>3, TurnAsks DEF QueueOK
    <3>5. QED
      BY <1>1, <2>1, <3>1, <3>4, ListedNext DEF Unregister, LifeGoes
  <2>2. CASE listed' = listed
    BY <2>2
  <2>3. QED
    BY <1>1, <2>1, <2>2 DEF vars, alfred
<1>2. QED
  BY <1>1, AlwaysInductive, PTL DEF Spec, NoComeback
=============================================================================
