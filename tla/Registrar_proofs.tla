-------------------------- MODULE Registrar_proofs --------------------------
(***************************************************************************)
(* What Registrar promises for any number of requests and failures: no     *)
(* failed request is forgotten, the only live retry is the one tracked,    *)
(* and shutdown leaves none.                                               *)
(***************************************************************************)
EXTENDS Registrar, TLAPS

Tickets == {"request", "retry"} \X Requests

\* One step of one request or of its retry task.
TaskActs(r) ==
    \/ Request(r) \/ RequestBegins(r) \/ RequestLands(r) \/ RequestFails(r)
    \/ RequestLetsGo(r) \/ RequestDone(r) \/ CancelRequest(r)
    \/ RetryWakes(r) \/ RetryBegins(r) \/ RetryLands(r) \/ RetryFails(r)
    \/ RetryDone(r) \/ RetryUnwinds(r)

\* A step is a step of one request, or of shutdown.
LEMMA NextCases == Next => (\E r \in Requests : TaskActs(r)) \/ Stop \/ Stopped
BY DEF Next, TaskActs, RequestStep, RetryStep

-----------------------------------------------------------------------------
(* The queue of the lock                                                   *)

\* A ticket appended leaves the head of a queue that has one.
LEMMA AppendHead ==
  ASSUME NEW S, NEW s \in Seq(S), NEW e \in S
  PROVE  /\ Append(s, e) \in Seq(S)
         /\ s # <<>> => Append(s, e) # <<>> /\ Head(Append(s, e)) = Head(s)
OBVIOUS

\* Whatever leaves from behind the head leaves the head alone.
LEMMA RemoveAtHead ==
  ASSUME NEW S, NEW s \in Seq(S), NEW i \in DOMAIN s
  PROVE  /\ RemoveAt(s, i) \in Seq(S)
         /\ Head(s) # s[i] => RemoveAt(s, i) # <<>> /\ Head(RemoveAt(s, i)) = Head(s)
<1>1. i \in 1..Len(s) /\ Len(s) \in Nat
  OBVIOUS
<1>2. /\ SubSeq(s, 1, i - 1) \in Seq(S) /\ SubSeq(s, i + 1, Len(s)) \in Seq(S)
      /\ Len(SubSeq(s, 1, i - 1)) = i - 1
  BY <1>1
<1>3. RemoveAt(s, i) \in Seq(S)
  BY <1>2 DEF RemoveAt
<1>4. ASSUME Head(s) # s[i] PROVE RemoveAt(s, i) # <<>> /\ Head(RemoveAt(s, i)) = Head(s)
  <2>1. i # 1
    BY <1>1, <1>4
  <2>2. i - 1 > 0 /\ SubSeq(s, 1, i - 1)[1] = s[1] /\ Head(s) = s[1]
    BY <1>1, <2>1
  <2>3. Len(RemoveAt(s, i)) > 0 /\ RemoveAt(s, i)[1] = s[1]
    BY <1>1, <1>2, <2>2 DEF RemoveAt
  <2>4. QED
    BY <1>3, <2>2, <2>3
<1>5. QED
  BY <1>3, <1>4

\* A task that leaves the queue leaves everyone else where they are.
LEMMA LeavesHead ==
  ASSUME NEW t, queue \in Seq(Tickets), Leaves(t)
  PROVE  /\ queue' \in Seq(Tickets)
         /\ queue # <<>> /\ Head(queue) # t => queue' # <<>> /\ Head(queue') = Head(queue)
<1>1. CASE t \in Range(queue)
  BY <1>1, RemoveAtHead DEF Leaves
<1>2. CASE t \notin Range(queue)
  BY <1>2 DEF Leaves
<1>3. QED
  BY <1>1, <1>2

-----------------------------------------------------------------------------
(* Type correctness                                                        *)

\* What TypeOK says of the initial state.
LEMMA InitType == Init => TypeOK
BY RegistrarAssumption DEF Init, TypeOK, Pending, InFlight

\* The queue only ever holds tickets.
LEMMA QueueNext ==
  ASSUME TypeOK, LockInv, Next
  PROVE  queue' \in Seq(Tickets)
<1>1. queue \in Seq(Tickets)
  BY DEF TypeOK, Tickets
<1>2. ASSUME NEW r \in Requests, TaskActs(r) PROVE queue' \in Seq(Tickets)
  <2>1. <<"request", r>> \in Tickets /\ <<"retry", r>> \in Tickets
    BY DEF Tickets
  <2>2. CASE Request(r)
    BY <1>1, <2>1, <2>2, AppendHead DEF Request
  <2>3. CASE RetryWakes(r)
    BY <1>1, <2>1, <2>3, AppendHead DEF RetryWakes
  <2>4. CASE CancelRequest(r)
    BY <1>1, <2>4, LeavesHead DEF CancelRequest
  <2>5. CASE RetryUnwinds(r)
    BY <1>1, <2>5, LeavesHead DEF RetryUnwinds
  <2>6. CASE RequestLands(r) \/ RequestFails(r) \/ RetryLands(r) \/ RetryFails(r)
    <3>1. queue # <<>> /\ queue' = Tail(queue)
      BY <2>6 DEF LockInv, RequestLands, RequestFails, RetryLands, RetryFails
    <3>2. QED
      BY <1>1, <3>1
  <2>7. CASE \/ RequestBegins(r) \/ RequestLetsGo(r) \/ RequestDone(r)
             \/ RetryBegins(r) \/ RetryDone(r)
    BY <1>1, <2>7 DEF RequestBegins, RequestLetsGo, RequestDone, RetryBegins, RetryDone
  <2>8. QED
    BY <1>2, <2>2, <2>3, <2>4, <2>5, <2>6, <2>7 DEF TaskActs
<1>3. CASE Stop \/ Stopped
  BY <1>1, <1>3 DEF Stop, Stopped
<1>4. QED
  BY <1>2, <1>3, NextCases

\* Every step keeps every variable's kind of value.
LEMMA TypeNext ==
  ASSUME TypeOK, LockInv, Next
  PROVE  TypeOK'
<1>1. ASSUME NEW r \in Requests, TaskActs(r) PROVE TypeOK'
  <2>1. CASE Request(r)
    BY <2>1, QueueNext, RegistrarAssumption DEF TypeOK, Pending, InFlight, Tickets, Request, Rebuilt
  <2>2. CASE RequestBegins(r)
    BY <2>2, QueueNext, RegistrarAssumption DEF TypeOK, Pending, InFlight, Tickets, RequestBegins, Begins
  <2>3. CASE RequestLands(r)
    BY <2>3, QueueNext, RegistrarAssumption DEF TypeOK, Pending, InFlight, Tickets, RequestLands, LetGo
  <2>4. CASE RequestFails(r)
    BY <2>4, QueueNext, RegistrarAssumption DEF TypeOK, Pending, InFlight, Tickets, RequestFails, Fails, Schedule
  <2>5. CASE RequestLetsGo(r)
    BY <2>5, QueueNext, RegistrarAssumption DEF TypeOK, Pending, InFlight, Tickets, RequestLetsGo
  <2>6. CASE RequestDone(r)
    BY <2>6, QueueNext, RegistrarAssumption DEF TypeOK, Pending, InFlight, Tickets, RequestDone
  <2>7. CASE CancelRequest(r)
    BY <2>7, QueueNext, RegistrarAssumption DEF TypeOK, Pending, InFlight, Tickets, CancelRequest, MayHaveLanded
  <2>8. CASE RetryWakes(r)
    BY <2>8, QueueNext, RegistrarAssumption DEF TypeOK, Pending, InFlight, Tickets, RetryWakes
  <2>9. CASE RetryBegins(r)
    BY <2>9, QueueNext, RegistrarAssumption DEF TypeOK, Pending, InFlight, Tickets, RetryBegins, Begins
  <2>10. CASE RetryLands(r)
    BY <2>10, QueueNext, RegistrarAssumption DEF TypeOK, Pending, InFlight, Tickets, RetryLands
  <2>11. CASE RetryFails(r)
    BY <2>11, QueueNext, RegistrarAssumption DEF TypeOK, Pending, InFlight, Tickets, RetryFails, Fails
  <2>12. CASE RetryDone(r)
    BY <2>12, QueueNext, RegistrarAssumption DEF TypeOK, Pending, InFlight, Tickets, RetryDone
  <2>13. CASE RetryUnwinds(r)
    BY <2>13, QueueNext, RegistrarAssumption DEF TypeOK, Pending, InFlight, Tickets, RetryUnwinds, MayHaveLanded
  <2>14. QED
    BY <1>1, <2>1, <2>2, <2>3, <2>4, <2>5, <2>6, <2>7, <2>8, <2>9, <2>10, <2>11, <2>12, <2>13 DEF TaskActs
<1>2. CASE Stop
  BY <1>2, QueueNext, RegistrarAssumption DEF TypeOK, Pending, InFlight, Tickets, Stop, LetGo
<1>3. CASE Stopped
  BY <1>3, QueueNext, RegistrarAssumption DEF TypeOK, Pending, InFlight, Tickets, Stopped
<1>4. QED
  BY <1>1, <1>2, <1>3, NextCases

\* A retry is created for a failed request, tracked, and let go when cancelled or landed.
LEMMA TaskNext ==
  ASSUME TypeOK, TaskInv, LockInv, Next
  PROVE  TaskInv'
<1>1. ASSUME NEW r \in Requests, TaskActs(r) PROVE TaskInv'
  <2>1. CASE Request(r)
    BY <2>1, RegistrarAssumption DEF TypeOK, TaskInv, Pending, InFlight, Request, Rebuilt
  <2>2. CASE RequestBegins(r)
    BY <2>2, RegistrarAssumption DEF TypeOK, TaskInv, Pending, InFlight, RequestBegins, Begins
  <2>3. CASE RequestLands(r)
    BY <2>3, RegistrarAssumption DEF TypeOK, TaskInv, Pending, InFlight, RequestLands, LetGo
  <2>4. CASE RequestFails(r)
    BY <2>4, RegistrarAssumption DEF TypeOK, TaskInv, Pending, InFlight, RequestFails, Fails, Schedule
  <2>5. CASE RequestLetsGo(r)
    BY <2>5, RegistrarAssumption DEF TypeOK, TaskInv, Pending, InFlight, RequestLetsGo
  <2>6. CASE RequestDone(r)
    BY <2>6, RegistrarAssumption DEF TypeOK, TaskInv, Pending, InFlight, RequestDone
  <2>7. CASE CancelRequest(r)
    BY <2>7, RegistrarAssumption DEF TypeOK, TaskInv, Pending, InFlight, CancelRequest, MayHaveLanded
  <2>8. CASE RetryWakes(r)
    BY <2>8, RegistrarAssumption DEF TypeOK, TaskInv, Pending, InFlight, RetryWakes
  <2>9. CASE RetryBegins(r)
    BY <2>9, RegistrarAssumption DEF TypeOK, TaskInv, Pending, InFlight, RetryBegins, Begins
  <2>10. CASE RetryLands(r)
    BY <2>10, RegistrarAssumption DEF TypeOK, TaskInv, Pending, InFlight, RetryLands
  <2>11. CASE RetryFails(r)
    BY <2>11, RegistrarAssumption DEF TypeOK, TaskInv, Pending, InFlight, RetryFails, Fails
  <2>12. CASE RetryDone(r)
    BY <2>12, RegistrarAssumption DEF TypeOK, TaskInv, Pending, InFlight, RetryDone
  <2>13. CASE RetryUnwinds(r)
    BY <2>13, RegistrarAssumption DEF TypeOK, TaskInv, Pending, InFlight, RetryUnwinds, MayHaveLanded
  <2>14. QED
    BY <1>1, <2>1, <2>2, <2>3, <2>4, <2>5, <2>6, <2>7, <2>8, <2>9, <2>10, <2>11, <2>12, <2>13 DEF TaskActs
<1>2. CASE Stop
  BY <1>2, RegistrarAssumption DEF TypeOK, TaskInv, Pending, InFlight, Stop, LetGo
<1>3. CASE Stopped
  BY <1>3, RegistrarAssumption DEF TypeOK, TaskInv, Pending, InFlight, Stopped
<1>4. QED
  BY <1>1, <1>2, <1>3, NextCases

\* Shutdown's stop() comes after the last request, and lets go of the retry.
LEMMA StopNext ==
  ASSUME TypeOK, TaskInv, StopInv, Next
  PROVE  StopInv'
<1>1. ASSUME NEW r \in Requests, TaskActs(r) PROVE StopInv'
  <2>1. CASE Request(r)
    BY <2>1, RegistrarAssumption DEF TypeOK, StopInv, TaskInv, Pending, InFlight, Ended, Request, Rebuilt
  <2>2. CASE RequestBegins(r)
    BY <2>2, RegistrarAssumption DEF TypeOK, StopInv, TaskInv, Pending, InFlight, Ended, RequestBegins, Begins
  <2>3. CASE RequestLands(r)
    BY <2>3, RegistrarAssumption DEF TypeOK, StopInv, TaskInv, Pending, InFlight, Ended, RequestLands, LetGo
  <2>4. CASE RequestFails(r)
    BY <2>4, RegistrarAssumption DEF TypeOK, StopInv, TaskInv, Pending, InFlight, Ended, RequestFails, Fails, Schedule
  <2>5. CASE RequestLetsGo(r)
    BY <2>5, RegistrarAssumption DEF TypeOK, StopInv, TaskInv, Pending, InFlight, Ended, RequestLetsGo
  <2>6. CASE RequestDone(r)
    BY <2>6, RegistrarAssumption DEF TypeOK, StopInv, TaskInv, Pending, InFlight, Ended, RequestDone
  <2>7. CASE CancelRequest(r)
    BY <2>7, RegistrarAssumption DEF TypeOK, StopInv, TaskInv, Pending, InFlight, Ended, CancelRequest, MayHaveLanded
  <2>8. CASE RetryWakes(r)
    BY <2>8, RegistrarAssumption DEF TypeOK, StopInv, TaskInv, Pending, InFlight, Ended, RetryWakes
  <2>9. CASE RetryBegins(r)
    BY <2>9, RegistrarAssumption DEF TypeOK, StopInv, TaskInv, Pending, InFlight, Ended, RetryBegins, Begins
  <2>10. CASE RetryLands(r)
    BY <2>10, RegistrarAssumption DEF TypeOK, StopInv, TaskInv, Pending, InFlight, Ended, RetryLands
  <2>11. CASE RetryFails(r)
    BY <2>11, RegistrarAssumption DEF TypeOK, StopInv, TaskInv, Pending, InFlight, Ended, RetryFails, Fails
  <2>12. CASE RetryDone(r)
    BY <2>12, RegistrarAssumption DEF TypeOK, StopInv, TaskInv, Pending, InFlight, Ended, RetryDone
  <2>13. CASE RetryUnwinds(r)
    BY <2>13, RegistrarAssumption DEF TypeOK, StopInv, TaskInv, Pending, InFlight, Ended, RetryUnwinds, MayHaveLanded
  <2>14. QED
    BY <1>1, <2>1, <2>2, <2>3, <2>4, <2>5, <2>6, <2>7, <2>8, <2>9, <2>10, <2>11, <2>12, <2>13 DEF TaskActs
<1>2. CASE Stop
  BY <1>2, RegistrarAssumption DEF TypeOK, StopInv, TaskInv, Pending, InFlight, Ended, Stop, LetGo
<1>3. CASE Stopped
  BY <1>3, RegistrarAssumption DEF TypeOK, StopInv, TaskInv, Pending, InFlight, Ended, Stopped
<1>4. QED
  BY <1>1, <1>2, <1>3, NextCases

\* A retry that may attempt is created tracked; being let go cancels it.
LEMMA TrackedNext ==
  ASSUME TypeOK, TaskInv, RetryIsTracked, Next
  PROVE  RetryIsTracked'
<1>1. ASSUME NEW r \in Requests, TaskActs(r) PROVE RetryIsTracked'
  <2>1. CASE Request(r)
    BY <2>1, RegistrarAssumption DEF TypeOK, TaskInv, RetryIsTracked, Pending, InFlight, Request, Rebuilt
  <2>2. CASE RequestBegins(r)
    BY <2>2, RegistrarAssumption DEF TypeOK, TaskInv, RetryIsTracked, Pending, InFlight, RequestBegins, Begins
  <2>3. CASE RequestLands(r)
    BY <2>3, RegistrarAssumption DEF TypeOK, TaskInv, RetryIsTracked, Pending, InFlight, RequestLands, LetGo
  <2>4. CASE RequestFails(r)
    BY <2>4, RegistrarAssumption DEF TypeOK, TaskInv, RetryIsTracked, Pending, InFlight, RequestFails, Fails, Schedule
  <2>5. CASE RequestLetsGo(r)
    BY <2>5, RegistrarAssumption DEF TypeOK, TaskInv, RetryIsTracked, Pending, InFlight, RequestLetsGo
  <2>6. CASE RequestDone(r)
    BY <2>6, RegistrarAssumption DEF TypeOK, TaskInv, RetryIsTracked, Pending, InFlight, RequestDone
  <2>7. CASE CancelRequest(r)
    BY <2>7, RegistrarAssumption DEF TypeOK, TaskInv, RetryIsTracked, Pending, InFlight, CancelRequest, MayHaveLanded
  <2>8. CASE RetryWakes(r)
    BY <2>8, RegistrarAssumption DEF TypeOK, TaskInv, RetryIsTracked, Pending, InFlight, RetryWakes
  <2>9. CASE RetryBegins(r)
    BY <2>9, RegistrarAssumption DEF TypeOK, TaskInv, RetryIsTracked, Pending, InFlight, RetryBegins, Begins
  <2>10. CASE RetryLands(r)
    BY <2>10, RegistrarAssumption DEF TypeOK, TaskInv, RetryIsTracked, Pending, InFlight, RetryLands
  <2>11. CASE RetryFails(r)
    BY <2>11, RegistrarAssumption DEF TypeOK, TaskInv, RetryIsTracked, Pending, InFlight, RetryFails, Fails
  <2>12. CASE RetryDone(r)
    BY <2>12, RegistrarAssumption DEF TypeOK, TaskInv, RetryIsTracked, Pending, InFlight, RetryDone
  <2>13. CASE RetryUnwinds(r)
    BY <2>13, RegistrarAssumption DEF TypeOK, TaskInv, RetryIsTracked, Pending, InFlight, RetryUnwinds, MayHaveLanded
  <2>14. QED
    BY <1>1, <2>1, <2>2, <2>3, <2>4, <2>5, <2>6, <2>7, <2>8, <2>9, <2>10, <2>11, <2>12, <2>13 DEF TaskActs
<1>2. CASE Stop
  BY <1>2, RegistrarAssumption DEF TypeOK, TaskInv, RetryIsTracked, Pending, InFlight, Stop, LetGo
<1>3. CASE Stopped
  BY <1>3, RegistrarAssumption DEF TypeOK, TaskInv, RetryIsTracked, Pending, InFlight, Stopped
<1>4. QED
  BY <1>1, <1>2, <1>3, NextCases

\* A success covers every request that failed before it; a failure leaves a retry.
LEMMA ForgottenNext ==
  ASSUME TypeOK, TaskInv, AttemptInv, NothingForgotten, Next
  PROVE  NothingForgotten'
<1>1. ASSUME NEW r \in Requests, TaskActs(r) PROVE NothingForgotten'
  <2>1. CASE Request(r)
    BY <2>1, RegistrarAssumption DEF TypeOK, TaskInv, AttemptInv, Attempting, NothingForgotten, Tracked, Pending, InFlight, Request, Rebuilt
  <2>2. CASE RequestBegins(r)
    BY <2>2, RegistrarAssumption DEF TypeOK, TaskInv, AttemptInv, Attempting, NothingForgotten, Tracked, Pending, InFlight, RequestBegins, Begins
  <2>3. CASE RequestLands(r)
    BY <2>3, RegistrarAssumption DEF TypeOK, TaskInv, AttemptInv, Attempting, NothingForgotten, Tracked, Pending, InFlight, RequestLands, LetGo
  <2>4. CASE RequestFails(r)
    BY <2>4, RegistrarAssumption DEF TypeOK, TaskInv, AttemptInv, Attempting, NothingForgotten, Tracked, Pending, InFlight, RequestFails, Fails, Schedule
  <2>5. CASE RequestLetsGo(r)
    BY <2>5, RegistrarAssumption DEF TypeOK, TaskInv, AttemptInv, Attempting, NothingForgotten, Tracked, Pending, InFlight, RequestLetsGo
  <2>6. CASE RequestDone(r)
    BY <2>6, RegistrarAssumption DEF TypeOK, TaskInv, AttemptInv, Attempting, NothingForgotten, Tracked, Pending, InFlight, RequestDone
  <2>7. CASE CancelRequest(r)
    BY <2>7, RegistrarAssumption DEF TypeOK, TaskInv, AttemptInv, Attempting, NothingForgotten, Tracked, Pending, InFlight, CancelRequest, MayHaveLanded
  <2>8. CASE RetryWakes(r)
    BY <2>8, RegistrarAssumption DEF TypeOK, TaskInv, AttemptInv, Attempting, NothingForgotten, Tracked, Pending, InFlight, RetryWakes
  <2>9. CASE RetryBegins(r)
    BY <2>9, RegistrarAssumption DEF TypeOK, TaskInv, AttemptInv, Attempting, NothingForgotten, Tracked, Pending, InFlight, RetryBegins, Begins
  <2>10. CASE RetryLands(r)
    BY <2>10, RegistrarAssumption DEF TypeOK, TaskInv, AttemptInv, Attempting, NothingForgotten, Tracked, Pending, InFlight, RetryLands
  <2>11. CASE RetryFails(r)
    BY <2>11, RegistrarAssumption DEF TypeOK, TaskInv, AttemptInv, Attempting, NothingForgotten, Tracked, Pending, InFlight, RetryFails, Fails
  <2>12. CASE RetryDone(r)
    BY <2>12, RegistrarAssumption DEF TypeOK, TaskInv, AttemptInv, Attempting, NothingForgotten, Tracked, Pending, InFlight, RetryDone
  <2>13. CASE RetryUnwinds(r)
    BY <2>13, RegistrarAssumption DEF TypeOK, TaskInv, AttemptInv, Attempting, NothingForgotten, Tracked, Pending, InFlight, RetryUnwinds, MayHaveLanded
  <2>14. QED
    BY <1>1, <2>1, <2>2, <2>3, <2>4, <2>5, <2>6, <2>7, <2>8, <2>9, <2>10, <2>11, <2>12, <2>13 DEF TaskActs
<1>2. CASE Stop
  BY <1>2, RegistrarAssumption DEF TypeOK, TaskInv, AttemptInv, Attempting, NothingForgotten, Tracked, Pending, InFlight, Stop, LetGo
<1>3. CASE Stopped
  BY <1>3, RegistrarAssumption DEF TypeOK, TaskInv, AttemptInv, Attempting, NothingForgotten, Tracked, Pending, InFlight, Stopped
<1>4. QED
  BY <1>1, <1>2, <1>3, NextCases

\* Only the head of the queue begins an attempt, and it is the head until it ends.
LEMMA LockNext ==
  ASSUME TypeOK, LockInv, Next
  PROVE  LockInv'
<1>1. ASSUME NEW r \in Requests, TaskActs(r) PROVE LockInv'
  <2>1. CASE Request(r)
    BY <2>1, AppendHead, LeavesHead DEF TypeOK, LockInv, Tickets, Request, Rebuilt
  <2>2. CASE RequestBegins(r)
    BY <2>2, AppendHead, LeavesHead DEF TypeOK, LockInv, Tickets, RequestBegins, Begins
  <2>3. CASE RequestLands(r)
    BY <2>3, AppendHead, LeavesHead DEF TypeOK, LockInv, Tickets, RequestLands, LetGo
  <2>4. CASE RequestFails(r)
    BY <2>4, AppendHead, LeavesHead DEF TypeOK, LockInv, Tickets, RequestFails, Fails, Schedule
  <2>5. CASE RequestLetsGo(r)
    BY <2>5, AppendHead, LeavesHead DEF TypeOK, LockInv, Tickets, RequestLetsGo
  <2>6. CASE RequestDone(r)
    BY <2>6, AppendHead, LeavesHead DEF TypeOK, LockInv, Tickets, RequestDone
  <2>7. CASE CancelRequest(r)
    BY <2>7, AppendHead, LeavesHead DEF TypeOK, LockInv, Tickets, CancelRequest, MayHaveLanded
  <2>8. CASE RetryWakes(r)
    BY <2>8, AppendHead, LeavesHead DEF TypeOK, LockInv, Tickets, RetryWakes
  <2>9. CASE RetryBegins(r)
    BY <2>9, AppendHead, LeavesHead DEF TypeOK, LockInv, Tickets, RetryBegins, Begins
  <2>10. CASE RetryLands(r)
    BY <2>10, AppendHead, LeavesHead DEF TypeOK, LockInv, Tickets, RetryLands
  <2>11. CASE RetryFails(r)
    BY <2>11, AppendHead, LeavesHead DEF TypeOK, LockInv, Tickets, RetryFails, Fails
  <2>12. CASE RetryDone(r)
    BY <2>12, AppendHead, LeavesHead DEF TypeOK, LockInv, Tickets, RetryDone
  <2>13. CASE RetryUnwinds(r)
    <3>1. /\ queue \in Seq(Tickets)
          /\ Leaves(<<"retry", r>>)
          /\ req' = req
          /\ ret' = [ret EXCEPT ![r] = "ended"]
      BY <2>13 DEF TypeOK, Tickets, RetryUnwinds
    <3>2. queue # <<>> /\ Head(queue) # <<"retry", r>>
             => queue' # <<>> /\ Head(queue') = Head(queue)
      BY <3>1, LeavesHead
    <3>3. QED
      BY <3>1, <3>2 DEF TypeOK, LockInv
  <2>14. QED
    BY <1>1, <2>1, <2>2, <2>3, <2>4, <2>5, <2>6, <2>7, <2>8, <2>9, <2>10, <2>11, <2>12, <2>13 DEF TaskActs
<1>2. CASE Stop
  BY <1>2, AppendHead, LeavesHead DEF TypeOK, LockInv, Tickets, Stop, LetGo
<1>3. CASE Stopped
  BY <1>3, AppendHead, LeavesHead DEF TypeOK, LockInv, Tickets, Stopped
<1>4. QED
  BY <1>1, <1>2, <1>3, NextCases

\* An attempt sends what there is when it begins; nobody fails while it runs.
LEMMA AttemptNext ==
  ASSUME TypeOK, LockInv, AttemptInv, Next
  PROVE  AttemptInv'
<1>1. ASSUME NEW r \in Requests, TaskActs(r) PROVE AttemptInv'
  <2>1. CASE Request(r)
    BY <2>1, RegistrarAssumption DEF TypeOK, LockInv, AttemptInv, Attempting, Request, Rebuilt
  <2>2. CASE RequestBegins(r)
    BY <2>2, RegistrarAssumption DEF TypeOK, LockInv, AttemptInv, Attempting, RequestBegins, Begins
  <2>3. CASE RequestLands(r)
    BY <2>3, RegistrarAssumption DEF TypeOK, LockInv, AttemptInv, Attempting, RequestLands, LetGo
  <2>4. CASE RequestFails(r)
    BY <2>4, RegistrarAssumption DEF TypeOK, LockInv, AttemptInv, Attempting, RequestFails, Fails, Schedule
  <2>5. CASE RequestLetsGo(r)
    BY <2>5, RegistrarAssumption DEF TypeOK, LockInv, AttemptInv, Attempting, RequestLetsGo
  <2>6. CASE RequestDone(r)
    BY <2>6, RegistrarAssumption DEF TypeOK, LockInv, AttemptInv, Attempting, RequestDone
  <2>7. CASE CancelRequest(r)
    BY <2>7, RegistrarAssumption DEF TypeOK, LockInv, AttemptInv, Attempting, CancelRequest, MayHaveLanded
  <2>8. CASE RetryWakes(r)
    BY <2>8, RegistrarAssumption DEF TypeOK, LockInv, AttemptInv, Attempting, RetryWakes
  <2>9. CASE RetryBegins(r)
    BY <2>9, RegistrarAssumption DEF TypeOK, LockInv, AttemptInv, Attempting, RetryBegins, Begins
  <2>10. CASE RetryLands(r)
    BY <2>10, RegistrarAssumption DEF TypeOK, LockInv, AttemptInv, Attempting, RetryLands
  <2>11. CASE RetryFails(r)
    BY <2>11, RegistrarAssumption DEF TypeOK, LockInv, AttemptInv, Attempting, RetryFails, Fails
  <2>12. CASE RetryDone(r)
    BY <2>12, RegistrarAssumption DEF TypeOK, LockInv, AttemptInv, Attempting, RetryDone
  <2>13. CASE RetryUnwinds(r)
    BY <2>13, RegistrarAssumption DEF TypeOK, LockInv, AttemptInv, Attempting, RetryUnwinds, MayHaveLanded
  <2>14. QED
    BY <1>1, <2>1, <2>2, <2>3, <2>4, <2>5, <2>6, <2>7, <2>8, <2>9, <2>10, <2>11, <2>12, <2>13 DEF TaskActs
<1>2. CASE Stop
  BY <1>2, RegistrarAssumption DEF TypeOK, LockInv, AttemptInv, Attempting, Stop, LetGo
<1>3. CASE Stopped
  BY <1>3, RegistrarAssumption DEF TypeOK, LockInv, AttemptInv, Attempting, Stopped
<1>4. QED
  BY <1>1, <1>2, <1>3, NextCases

\* The invariant holds before the first request, and every step keeps it.
LEMMA InitInductive == Init => Inductive
BY InitType DEF Init, Inductive, TaskInv, LockInv, AttemptInv, Attempting, StopInv,
   NothingForgotten, RetryIsTracked, StopsClean, Pending, InFlight

\* Everything that can happen keeps the invariant.
LEMMA StepKeeps == Inductive /\ [Next]_vars => Inductive'
<1>1. ASSUME Inductive, Next PROVE Inductive'
  <2>1. TypeOK' /\ TaskInv' /\ LockInv'
    BY <1>1, TypeNext, TaskNext, LockNext DEF Inductive
  <2>2. AttemptInv' /\ StopInv'
    BY <1>1, AttemptNext, StopNext DEF Inductive
  <2>3. NothingForgotten' /\ RetryIsTracked'
    BY <1>1, ForgottenNext, TrackedNext DEF Inductive
  <2>4. StopsClean'
    BY <2>2, <2>3, RegistrarAssumption DEF StopInv, RetryIsTracked, StopsClean, Pending
  <2>5. QED
    BY <2>1, <2>2, <2>3, <2>4 DEF Inductive
<1>2. ASSUME Inductive, UNCHANGED vars PROVE Inductive'
  BY <1>2 DEF Inductive, TypeOK, TaskInv, LockInv, AttemptInv, Attempting, StopInv,
     NothingForgotten, Tracked, RetryIsTracked, StopsClean, vars
<1>3. QED
  BY <1>1, <1>2

\* The invariant holds throughout.
THEOREM InductiveHolds == Spec => []Inductive
<1>1. QED
  BY InitInductive, StepKeeps, PTL DEF Spec

\* Every variable keeps its kind of value in every reachable state.
THEOREM TypeCorrect == Spec => []TypeOK
<1>1. Inductive => TypeOK
  BY DEF Inductive
<1>2. QED
  BY <1>1, InductiveHolds, PTL

\* However requests, failures, retries and cancellations overlap, what a failed
\* request wanted is registered or a live, tracked retry will attempt it.
THEOREM NothingIsForgotten == Spec => []NothingForgotten
<1>1. Inductive => NothingForgotten
  BY DEF Inductive
<1>2. QED
  BY <1>1, InductiveHolds, PTL

\* No retry that may still attempt escapes the next stop().
THEOREM RetriesAreTracked == Spec => []RetryIsTracked
<1>1. Inductive => RetryIsTracked
  BY DEF Inductive
<1>2. QED
  BY <1>1, InductiveHolds, PTL

\* Once shutdown's stop() has returned, no retry attempts a registration.
THEOREM StopLeavesNone == Spec => []StopsClean
<1>1. Inductive => StopsClean
  BY DEF Inductive
<1>2. QED
  BY <1>1, InductiveHolds, PTL
=============================================================================
