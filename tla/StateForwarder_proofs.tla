------------------------ MODULE StateForwarder_proofs ------------------------
(***************************************************************************)
(* What StateForwarder promises, for every queue size and any number of    *)
(* events and faults: order, and no loss while the loop runs.              *)
(***************************************************************************)
EXTENDS StateForwarder, TLAPS

\* A sequence is a function of its positions.
LEMMA SeqFacts ==
  ASSUME NEW S, NEW s \in Seq(S)
  PROVE  Len(s) \in Nat /\ DOMAIN s = 1..Len(s) /\ \A i \in 1..Len(s) : s[i] \in S
OBVIOUS

\* Appending keeps a sequence over the same set, one longer, and adds one element.
LEMMA AppendFacts ==
  ASSUME NEW S, NEW s \in Seq(S), NEW e \in S
  PROVE  /\ Append(s, e) \in Seq(S)
         /\ Len(s) \in Nat
         /\ DOMAIN s = 1..Len(s)
         /\ Len(Append(s, e)) = Len(s) + 1
         /\ DOMAIN Append(s, e) = 1..(Len(s) + 1)
         /\ \A i \in 1..Len(s) : Append(s, e)[i] = s[i]
         /\ Append(s, e)[Len(s) + 1] = e
OBVIOUS

\* Taking the head off a sequence shifts the rest by one.
LEMMA TailFacts ==
  ASSUME NEW S, NEW s \in Seq(S), s # <<>>
  PROVE  /\ Head(s) \in S
         /\ Head(s) = s[1]
         /\ Len(s) \in Nat /\ Len(s) > 0
         /\ DOMAIN s = 1..Len(s)
         /\ Tail(s) \in Seq(S)
         /\ Len(Tail(s)) = Len(s) - 1
         /\ DOMAIN Tail(s) = 1..(Len(s) - 1)
         /\ \A i \in 1..(Len(s) - 1) : Tail(s)[i] = s[i + 1]
OBVIOUS

\* What a sequence holds after an append.
LEMMA AppendElements ==
  ASSUME NEW S, NEW s \in Seq(S), NEW e \in S
  PROVE  Range(Append(s, e)) = Range(s) \cup {e}
<1>1. ASSUME NEW x \in Range(s) PROVE x \in Range(Append(s, e))
  <2>1. PICK i \in 1..Len(s) : x = s[i]
    BY AppendFacts DEF Range
  <2>2. i \in DOMAIN Append(s, e) /\ Append(s, e)[i] = x
    BY <2>1, AppendFacts
  <2>3. QED
    BY <2>2 DEF Range
<1>2. e \in Range(Append(s, e))
  <2>1. Len(s) + 1 \in DOMAIN Append(s, e) /\ Append(s, e)[Len(s) + 1] = e
    BY AppendFacts
  <2>2. QED
    BY <2>1 DEF Range
<1>3. ASSUME NEW x \in Range(Append(s, e)) PROVE x \in Range(s) \cup {e}
  <2>1. PICK i \in 1..(Len(s) + 1) : x = Append(s, e)[i]
    BY AppendFacts DEF Range
  <2>2. CASE i = Len(s) + 1
    BY <2>1, <2>2, AppendFacts
  <2>3. CASE i # Len(s) + 1
    <3>1. i \in DOMAIN s /\ x = s[i]
      BY <2>1, <2>3, AppendFacts
    <3>2. QED
      BY <3>1 DEF Range
  <2>4. QED
    BY <2>2, <2>3
<1>4. QED
  BY <1>1, <1>2, <1>3

\* Taking the head off loses nothing but the head.
LEMMA TailElements ==
  ASSUME NEW S, NEW s \in Seq(S), s # <<>>, NEW x \in Range(s)
  PROVE  x = Head(s) \/ x \in Range(Tail(s))
<1>1. PICK i \in 1..Len(s) : x = s[i]
  BY TailFacts DEF Range
<1>2. CASE i = 1
  BY <1>1, <1>2, TailFacts
<1>3. CASE i # 1
  <2>1. Len(s) \in Nat /\ Len(s) > 0
    BY TailFacts
  <2>2. i - 1 \in 1..(Len(s) - 1) /\ (i - 1) + 1 = i
    BY <1>1, <1>3, <2>1
  <2>3. i - 1 \in DOMAIN Tail(s) /\ Tail(s)[i - 1] = x
    BY <1>1, <2>2, TailFacts
  <2>4. QED
    BY <2>3 DEF Range
<1>4. QED
  BY <1>2, <1>3

\* A sequence of events that have happened stays one as more happen.
LEMMA SeqWidens ==
  ASSUME NEW m \in Nat, NEW s \in Seq(1..m)
  PROVE  s \in Seq(1..(m + 1))
<1>1. 1..m \subseteq 1..(m + 1)
  OBVIOUS
<1>2. QED
  BY <1>1

\* The invariant holds before the loop is started: there have been no events.
LEMMA InitInductive == Init => Inductive
<1>1. SUFFICES ASSUME Init PROVE Inductive
  OBVIOUS
<1>2. TypeOK
  BY <1>1, ForwarderAssumption DEF Init, TypeOK
<1>3. FlightInv /\ LineInv /\ InOrder
  BY <1>1 DEF Init, FlightInv, LineInv, InOrder
<1>4. NothingLost
  BY <1>1 DEF Init, NothingLost
<1>5. QED
  BY <1>2, <1>3, <1>4 DEF Inductive

\* A new event has the highest number: at the end of the queue it is in order,
\* and refused it is accounted for.
LEMMA EventKeeps == Inductive /\ OnStateChanged => Inductive'
<1>1. SUFFICES ASSUME Inductive, OnStateChanged PROVE Inductive'
  OBVIOUS
<1> USE ForwarderAssumption
<1>2. /\ made \in Nat /\ made' = made + 1 /\ made' \in 0..MaxEvents
      /\ queue \in Seq(1..made') /\ sent \in Seq(1..made')
      /\ loop' = loop /\ loop # "off" /\ inflight' = inflight /\ sent' = sent
      /\ faults' = faults
  BY <1>1, SeqWidens DEF Inductive, TypeOK, OnStateChanged
<1>3. CASE /\ Len(queue) < QueueSize
           /\ queue' = Append(queue, made')
           /\ UNCHANGED refused
  <2>1. /\ queue' \in Seq(1..made')
        /\ Len(queue) \in Nat
        /\ DOMAIN queue = 1..Len(queue)
        /\ Len(queue') = Len(queue) + 1
        /\ DOMAIN queue' = 1..(Len(queue) + 1)
        /\ \A i \in 1..Len(queue) : queue'[i] = queue[i]
        /\ queue'[Len(queue) + 1] = made'
    BY <1>2, <1>3, AppendFacts, made' \in 1..made'
  <2>2. TypeOK'
    BY <1>1, <1>2, <1>3, <2>1 DEF Inductive, TypeOK
  <2>3. FlightInv' /\ InOrder'
    BY <1>1, <1>2 DEF Inductive, FlightInv, InOrder
  <2>4. LineInv'
    <3>1. /\ Len(sent) \in Nat /\ DOMAIN sent = 1..Len(sent)
          /\ \A i \in 1..Len(sent) : sent[i] \in 1..made
          /\ \A i \in 1..Len(queue) : queue[i] \in 1..made
          /\ inflight \in 0..made
      BY <1>1, SeqFacts DEF Inductive, TypeOK
    <3>2. ASSUME NEW i \in DOMAIN queue'
          PROVE  queue'[i] = made' \/ (i \in DOMAIN queue /\ queue'[i] = queue[i])
      <4>1. i \in 1..(Len(queue) + 1)
        BY <2>1, <3>2
      <4>2. CASE i = Len(queue) + 1
        BY <2>1, <4>2
      <4>3. CASE i # Len(queue) + 1
        BY <2>1, <4>1, <4>3
      <4>4. QED
        BY <4>2, <4>3
    <3>4. LineInv
      BY <1>1 DEF Inductive
    <3>5. \A i, j \in DOMAIN queue' : i < j => queue'[i] < queue'[j]
      <4>1. SUFFICES ASSUME NEW i \in DOMAIN queue', NEW j \in DOMAIN queue', i < j
                     PROVE  queue'[i] < queue'[j]
        OBVIOUS
      <4>2. i \in DOMAIN queue /\ queue'[i] = queue[i] /\ queue[i] \in 1..made
        BY <2>1, <3>1, <4>1
      <4>3. CASE queue'[j] = made'
        BY <1>2, <4>2, <4>3
      <4>4. CASE j \in DOMAIN queue /\ queue'[j] = queue[j]
        BY <3>4, <4>1, <4>2, <4>4 DEF LineInv
      <4>5. QED
        BY <3>2, <4>3, <4>4
    <3>6. \A i \in DOMAIN queue' : inflight' < queue'[i]
      <4>1. TAKE i \in DOMAIN queue'
      <4>2. CASE queue'[i] = made'
        BY <1>2, <3>1, <4>2
      <4>3. CASE i \in DOMAIN queue /\ queue'[i] = queue[i]
        BY <1>2, <3>4, <4>3 DEF LineInv
      <4>4. QED
        BY <3>2, <4>1, <4>2, <4>3
    <3>7. \A i \in DOMAIN sent' : inflight' # 0 => sent'[i] <= inflight'
      BY <1>2, <3>4 DEF LineInv
    <3>8. \A i \in DOMAIN sent' : \A j \in DOMAIN queue' : sent'[i] < queue'[j]
      <4>1. SUFFICES ASSUME NEW i \in DOMAIN sent', NEW j \in DOMAIN queue'
                     PROVE  sent'[i] < queue'[j]
        OBVIOUS
      <4>2. i \in DOMAIN sent /\ sent'[i] = sent[i] /\ sent[i] \in 1..made
        BY <1>2, <3>1, <4>1
      <4>3. CASE queue'[j] = made'
        BY <1>2, <4>2, <4>3
      <4>4. CASE j \in DOMAIN queue /\ queue'[j] = queue[j]
        BY <3>4, <4>2, <4>4 DEF LineInv
      <4>5. QED
        BY <3>2, <4>1, <4>3, <4>4
    <3>9. QED
      BY <3>5, <3>6, <3>7, <3>8 DEF LineInv
  <2>5. NothingLost'
    <3>1. Held' = Held \cup {made'} /\ Handed' = Handed
      <4>1. made' \in 1..made'
        BY <1>2
      <4>2. Range(queue') = Range(queue) \cup {made'}
        <5>1. queue \in Seq(1..made')
          BY <1>2
        <5>2. Range(Append(queue, made')) = Range(queue) \cup {made'}
          BY <4>1, <5>1, AppendElements
        <5>3. QED
          BY <1>3, <5>2
      <4>3. Held' = Range(queue') \cup {inflight}
        BY <1>2 DEF Held
      <4>4. Handed' = Handed
        BY <1>2 DEF Handed
      <4>5. QED
        BY <4>2, <4>3, <4>4 DEF Held
    <3>2. QED
      BY <1>1, <1>2, <1>3, <3>1 DEF Inductive, NothingLost
  <2>6. QED
    BY <2>2, <2>3, <2>4, <2>5 DEF Inductive
<1>4. CASE Len(queue) = QueueSize /\ refused' = refused \cup {made'} /\ UNCHANGED queue
  <2>1. TypeOK'
    BY <1>1, <1>2, <1>4 DEF Inductive, TypeOK
  <2>2. FlightInv' /\ LineInv' /\ InOrder'
    BY <1>1, <1>2, <1>4 DEF Inductive, FlightInv, LineInv, InOrder
  <2>3. NothingLost'
    BY <1>1, <1>2, <1>4 DEF Inductive, NothingLost, Handed, Held
  <2>4. QED
    BY <2>1, <2>2, <2>3 DEF Inductive
<1>5. QED
  BY <1>1, <1>3, <1>4 DEF OnStateChanged, Offer

\* What moves from the head of the queue into flight is older than all it leaves.
LEMMA GetKeeps == Inductive /\ Get => Inductive'
<1>1. SUFFICES ASSUME Inductive, Get PROVE Inductive'
  OBVIOUS
<1> USE ForwarderAssumption
<1>2. /\ queue \in Seq(1..made) /\ made \in Nat
      /\ inflight = 0
      /\ inflight' = queue[1]
      /\ queue[1] \in 1..made
      /\ Len(queue) \in Nat /\ Len(queue) > 0
      /\ DOMAIN queue = 1..Len(queue)
      /\ queue' \in Seq(1..made)
      /\ Len(queue') = Len(queue) - 1
      /\ DOMAIN queue' = 1..(Len(queue) - 1)
      /\ \A i \in 1..(Len(queue) - 1) : queue'[i] = queue[i + 1]
  BY <1>1, TailFacts DEF Inductive, TypeOK, FlightInv, Get, LoopGoes
<1>3. TypeOK'
  BY <1>1, <1>2 DEF Inductive, TypeOK, Get, LoopGoes
<1>4. FlightInv' /\ InOrder'
  BY <1>1, <1>2 DEF Inductive, FlightInv, InOrder, Get, LoopGoes
<1>5. LineInv'
  <2>1. sent' = sent /\ Len(sent) \in Nat /\ DOMAIN sent = 1..Len(sent) /\ LineInv
    BY <1>1, SeqFacts DEF Inductive, TypeOK, Get
  <2>2. 1 \in DOMAIN queue
    BY <1>2
  <2>3. \A i \in DOMAIN queue' : i + 1 \in DOMAIN queue /\ queue'[i] = queue[i + 1] /\ 1 < i + 1
    <3>1. SUFFICES ASSUME NEW i \in DOMAIN queue'
                   PROVE  i + 1 \in DOMAIN queue /\ queue'[i] = queue[i + 1] /\ 1 < i + 1
      OBVIOUS
    <3>2. i \in 1..(Len(queue) - 1)
      BY <1>2
    <3>3. queue'[i] = queue[i + 1]
      BY <1>2, <3>2
    <3>4. Len(queue) \in Nat /\ DOMAIN queue = 1..Len(queue)
      BY <1>2
    <3>5. i + 1 \in 1..Len(queue) /\ 1 < i + 1
      BY <3>2, <3>4
    <3>6. QED
      BY <3>3, <3>4, <3>5
  <2>4. \A i, j \in DOMAIN queue' : i < j => queue'[i] < queue'[j]
    <3>1. SUFFICES ASSUME NEW i \in DOMAIN queue', NEW j \in DOMAIN queue', i < j
                   PROVE  queue[i + 1] < queue[j + 1]
      BY <2>3
    <3>2. i + 1 < j + 1
      BY <1>2, <3>1
    <3>3. QED
      BY <2>1, <2>3, <3>2 DEF LineInv
  <2>5. \A i \in DOMAIN queue' : inflight' < queue'[i]
    BY <1>2, <2>1, <2>2, <2>3 DEF LineInv
  <2>6. \A i \in DOMAIN sent' : sent[i] < queue[1]
    BY <2>1, <2>2 DEF LineInv
  <2>7. \A i \in DOMAIN sent : sent[i] \in 1..made
    BY <1>1, SeqFacts DEF Inductive, TypeOK
  <2>8. \A i \in DOMAIN sent' : inflight' # 0 => sent'[i] <= inflight'
    BY <1>2, <2>1, <2>6, <2>7
  <2>9. \A i \in DOMAIN sent' : \A j \in DOMAIN queue' : sent'[i] < queue'[j]
    BY <2>1, <2>3 DEF LineInv
  <2>10. QED
    BY <2>4, <2>5, <2>8, <2>9 DEF LineInv
<1>6. NothingLost'
  <2>1. \A n \in Range(queue) : n = inflight' \/ n \in Range(queue')
    BY <1>1, TailElements DEF Inductive, TypeOK, Get
  <2>2. \A n \in 1..made : n \in Held => n \in Held'
    BY <1>2, <2>1 DEF Held
  <2>3. QED
    BY <1>1, <2>2 DEF Inductive, NothingLost, Get, LoopGoes, Handed
<1>7. QED
  BY <1>3, <1>4, <1>5, <1>6 DEF Inductive

\* Handing over what is in flight: it is not older than anything sent.
LEMMA HandKeeps ==
  ASSUME Inductive, loop = "publish", Hand, UNCHANGED <<made, queue>>,
         inflight' \in {0, inflight}
  PROVE  /\ sent' \in Seq(1..made)
         /\ InOrder'
         /\ LineInv'
         /\ Handed' = Handed \cup {inflight}
<1> USE ForwarderAssumption
<1>1. /\ inflight \in 1..made /\ made \in Nat
      /\ sent \in Seq(1..made)
      /\ LineInv /\ InOrder
      /\ queue' = queue
  BY DEF Inductive, TypeOK, FlightInv
<1>7. \A i \in DOMAIN queue : queue[i] \in 1..made
  BY SeqFacts DEF Inductive, TypeOK
<1>8. /\ Len(sent) \in Nat /\ DOMAIN sent = 1..Len(sent)
      /\ \A i \in 1..Len(sent) : sent[i] \in 1..made
  BY <1>1, SeqFacts
<1>2. /\ sent' \in Seq(1..made)
      /\ Len(sent) \in Nat
      /\ DOMAIN sent = 1..Len(sent)
      /\ DOMAIN sent' = 1..(Len(sent) + 1)
      /\ \A i \in 1..Len(sent) : sent'[i] = sent[i]
      /\ sent'[Len(sent) + 1] = inflight
  BY <1>1, AppendFacts DEF Hand
<1>3. InOrder'
  <2>1. SUFFICES ASSUME NEW i \in 1..(Len(sent) + 1), NEW j \in 1..(Len(sent) + 1), i < j
                 PROVE  sent'[i] <= sent'[j]
    BY <1>2 DEF InOrder
  <2>2. i \in 1..Len(sent) /\ sent'[i] = sent[i]
    BY <1>2, <2>1
  <2>3. CASE j = Len(sent) + 1
    <3>1. i \in DOMAIN sent /\ inflight # 0
      BY <1>1, <1>8, <2>2
    <3>2. sent[i] <= inflight
      BY <1>1, <3>1 DEF LineInv
    <3>3. QED
      BY <1>2, <2>2, <2>3, <3>2
  <2>4. CASE j # Len(sent) + 1
    <3>1. j \in 1..Len(sent) /\ sent'[j] = sent[j]
      BY <1>2, <2>4
    <3>2. QED
      BY <1>1, <1>8, <2>1, <2>2, <3>1 DEF InOrder
  <2>5. QED
    BY <2>3, <2>4
<1>4. LineInv'
  <2>1. ASSUME NEW i \in DOMAIN sent'
        PROVE  sent'[i] <= inflight
    <3>1. CASE i = Len(sent) + 1
      BY <1>1, <1>2, <3>1
    <3>2. CASE i # Len(sent) + 1
      <4>1. i \in DOMAIN sent /\ sent'[i] = sent[i]
        BY <1>2, <1>8, <2>1, <3>2
      <4>2. QED
        BY <1>1, <1>8, <4>1 DEF LineInv
    <3>3. QED
      BY <3>1, <3>2
  <2>2. ASSUME NEW i \in DOMAIN sent', NEW j \in DOMAIN queue
        PROVE  sent'[i] < queue[j]
    <3>1. sent'[i] \in 1..made
      BY <1>2, <2>2, SeqFacts
    <3>2. sent'[i] <= inflight /\ inflight < queue[j] /\ queue[j] \in 1..made
      BY <1>1, <1>7, <2>1, <2>2 DEF LineInv
    <3>3. QED
      BY <1>1, <3>1, <3>2
  <2>3. \A j \in DOMAIN queue : inflight' < queue[j]
    BY <1>1, <1>7 DEF LineInv
  <2>4. QED
    BY <1>1, <2>1, <2>2, <2>3 DEF LineInv
<1>5. Handed' = Handed \cup {inflight}
  BY <1>1, AppendElements DEF Hand, Handed
<1>6. QED
  BY <1>2, <1>3, <1>4, <1>5

\* The loop's other steps.
LEMMA LoopKeeps ==
  Inductive /\ (Start \/ Connected \/ Published \/ Retry \/ MqttError \/ Die \/ Stop)
      => Inductive'
<1> USE ForwarderAssumption
<1>1. ASSUME Inductive, Start \/ Connected \/ Retry PROVE Inductive'
  <2>1. TypeOK' /\ FlightInv'
    BY <1>1 DEF Inductive, TypeOK, FlightInv, Start, Connected, Retry, LoopGoes
  <2>2. LineInv' /\ InOrder'
    BY <1>1 DEF Inductive, LineInv, InOrder, Start, Connected, Retry
  <2>3. NothingLost'
    BY <1>1 DEF Inductive, NothingLost, Handed, Held, Start, Connected, Retry, LoopGoes
  <2>4. QED
    BY <2>1, <2>2, <2>3 DEF Inductive
<1>2. ASSUME Inductive, Published PROVE Inductive'
  <2>1. /\ sent' \in Seq(1..made) /\ InOrder' /\ LineInv'
        /\ Handed' = Handed \cup {inflight}
    BY <1>2, HandKeeps DEF Published, LoopGoes
  <2>2. TypeOK' /\ FlightInv'
    BY <1>2, <2>1 DEF Inductive, TypeOK, FlightInv, Published, LoopGoes
  <2>3. NothingLost'
    BY <1>2, <2>1 DEF Inductive, NothingLost, Held, Published, LoopGoes
  <2>4. QED
    BY <2>1, <2>2, <2>3 DEF Inductive
<1>3. ASSUME Inductive, MqttError PROVE Inductive'
  <2>1. /\ sent' \in Seq(1..made) /\ InOrder' /\ LineInv'
        /\ Handed \subseteq Handed'
    <3>1. CASE UNCHANGED sent
      BY <1>3, <3>1 DEF Inductive, TypeOK, InOrder, LineInv, Handed, MqttError
    <3>2. CASE loop = "publish" /\ Hand
      BY <1>3, <3>2, HandKeeps DEF MqttError
    <3>3. QED
      BY <1>3, <3>1, <3>2 DEF MqttError, LoopGoes
  <2>2. TypeOK' /\ FlightInv'
    BY <1>3, <2>1 DEF Inductive, TypeOK, FlightInv, MqttError, LoopGoes
  <2>3. NothingLost'
    BY <1>3, <2>1 DEF Inductive, NothingLost, Held, MqttError, LoopGoes
  <2>4. QED
    BY <2>1, <2>2, <2>3 DEF Inductive
<1>4. ASSUME Inductive, Die \/ Stop PROVE Inductive'
  <2>1. PICK to \in {"dead", "stopped"} : Ends(to)
    BY <1>4 DEF Die, Stop
  <2>2. sent' \in Seq(1..made) /\ InOrder' /\ LineInv'
    <3>1. CASE UNCHANGED sent
      BY <1>4, <2>1, <3>1 DEF Inductive, TypeOK, InOrder, LineInv, Ends
    <3>2. CASE loop = "publish" /\ Hand
      BY <1>4, <2>1, <3>2, HandKeeps DEF Ends
    <3>3. QED
      BY <2>1, <3>1, <3>2 DEF Ends
  <2>3. TypeOK' /\ FlightInv' /\ NothingLost'
    BY <1>4, <2>1, <2>2 DEF Inductive, TypeOK, FlightInv, NothingLost, Ends
  <2>4. QED
    BY <2>2, <2>3 DEF Inductive
<1>5. QED
  BY <1>1, <1>2, <1>3, <1>4

\* Everything that can happen keeps the invariant.
LEMMA StepKeeps == Inductive /\ [Next]_vars => Inductive'
<1>1. ASSUME Inductive, UNCHANGED vars PROVE Inductive'
  BY <1>1 DEF Inductive, TypeOK, FlightInv, LineInv, InOrder, NothingLost, Handed, Held, vars
<1>2. QED
  BY <1>1, EventKeeps, GetKeeps, LoopKeeps DEF Next, Loop

\* The invariant holds throughout.
THEOREM InductiveHolds == Spec => []Inductive
<1>1. QED
  BY InitInductive, StepKeeps, PTL DEF Spec

\* Every variable keeps its kind of value, and the queue its bound.
THEOREM TypeCorrect == Spec => []TypeOK
<1>1. Inductive => TypeOK
  BY DEF Inductive
<1>2. QED
  BY <1>1, InductiveHolds, PTL

\* However often MQTT fails, however full the queue gets, no event is published
\* after a newer one.
THEOREM KeepsOrder == Spec => []InOrder
<1>1. Inductive => InOrder
  BY DEF Inductive
<1>2. QED
  BY <1>1, InductiveHolds, PTL

\* While the loop runs every event is accounted for.
THEOREM LosesNothing == Spec => []NothingLost
<1>1. Inductive => NothingLost
  BY DEF Inductive
<1>2. QED
  BY <1>1, InductiveHolds, PTL
=============================================================================
