------------------------ MODULE HAConnection_proofs ------------------------
(***************************************************************************)
(* Proofs about HAConnection, for any number of callers, credentials,      *)
(* faults and registry changes.                                            *)
(***************************************************************************)
EXTENDS HAConnection, TLAPS

USE ConnectionAssumption DEF ConnectionAssumption

\* The steps of the run task k and of its setup.
Connection(k) == RunStep(k) \/ RunFault(k) \/ SetupStep(k) \/ SetupFails(k)

\* The steps of Home Assistant's registries and of the refresh task.
Registry == RegistryChange \/ RefreshStep \/ RefreshFails

\* A step is a step of a caller, of a connection, or of the registries.
LEMMA NextCases ==
  ASSUME Next
  PROVE  \/ \E c \in Callers : Arrive(c) \/ Caller(c) \/ Cancel(c)
         \/ \E k \in Callers : Connection(k)
         \/ Registry
BY DEF Next, Connection, Registry

\* Connection and registry steps leave the callers and the lock alone.
LEMMA CallersFrame ==
  ASSUME NEW k \in Callers, Connection(k) \/ Registry
  PROVE  UNCHANGED callerVars
BY DEF Connection, Registry, RunStep, RunFault, SetupStep, SetupFails, RefreshStep,
       ConnectOk, Greeted, AuthOk, AuthInvalid, ReaderEnds, Unwound, Notified, RejectNotified,
       Retry, CancelledReader, CancelledRun, ConnectFails, HandshakeFails, Drop, Goes, Unwinds,
       SetupSubscribed, SetupConnected, SetupListened, SetupUnwinds, SetupGoes,
       RegistryChange, RefreshEnds, RefreshAsks, RefreshDone, RefreshUnwinds, RefreshFails,
       refreshFrame

\* Registry steps leave the run and setup tasks alone.
LEMMA RegistryFrame ==
  ASSUME Registry
  PROVE  UNCHANGED <<runVars, conn_state, fired, ws, setup, faults>>
BY DEF Registry, RegistryChange, RefreshStep, RefreshEnds, RefreshAsks, RefreshDone,
       RefreshUnwinds, RefreshFails, refreshFrame

\* Steps that only queue, return or cancel a caller leave the rest alone.
LEMMA CancelFrame ==
  ASSUME NEW c \in Callers, Arrive(c) \/ Cancel(c) \/ AlreadyConnected(c) \/ CallerReturns(c)
  PROVE  /\ UNCHANGED <<runVars, refreshVars, conn_state, fired, ws, setup, faults, holder, victim>>
         /\ c \in Callers => pc[c] # "stopping" \/ pc' = pc
BY DEF Arrive, Cancel, AlreadyConnected, AcquireLock, CallerReturns, Woken,
       CancelQueued, CancelWaiting, CancelStopping

-----------------------------------------------------------------------------
(* Type correctness                                                        *)

\* Dropping one element of a sequence leaves a sequence over the same set.
LEMMA RemoveAtType ==
  ASSUME NEW S, NEW s \in Seq(S), NEW i \in DOMAIN s
  PROVE  RemoveAt(s, i) \in Seq(S)
<1>1. i \in 1..Len(s)
  OBVIOUS
<1>2. SubSeq(s, 1, i - 1) \in Seq(S) /\ SubSeq(s, i + 1, Len(s)) \in Seq(S)
  BY <1>1
<1>3. QED
  BY <1>2 DEF RemoveAt

\* Taking the lock leaves callers in the queue.
LEMMA TailType ==
  ASSUME NEW c \in Callers, queue \in Seq(Callers), AcquireLock(c)
  PROVE  queue' \in Seq(Callers)
BY DEF AcquireLock

\* What TypeOK says of the initial state.
LEMMA InitType == Init => TypeOK
<1> SUFFICES ASSUME Init PROVE TypeOK
  OBVIOUS
<1>1. CallerType
  BY DEF Init, CallerType, CallerPC
<1>2. RunType
  BY DEF Init, RunType, RunPC, SetupPC, ConnState
<1>3. RefreshType
  BY DEF Init, RefreshType, RefreshPC
<1>4. registry_dirty \in BOOLEAN
  BY Zenon DEF Init
<1>5. QED
  BY <1>1, <1>2, <1>3, <1>4 DEF TypeOK

\* Every step keeps the callers' variables and the lock in their types.
LEMMA CallerTypeNext ==
  ASSUME TypeOK, Next
  PROVE  CallerType'
<1> USE DEF CallerType, CallerPC
<1>1. CallerType /\ task \in Callers \cup {None}
  BY DEF TypeOK, RunType
<1>2. ASSUME NEW c \in Callers, Arrive(c)
      PROVE  CallerType'
  BY <1>1, <1>2 DEF Arrive
<1>3. ASSUME NEW c \in Callers, Caller(c)
      PROVE  CallerType'
  <2>1. CASE AlreadyConnected(c)
    <3>1. queue' \in Seq(Callers)
      BY <1>1, <2>1, TailType DEF AlreadyConnected
    <3>2. QED
      BY <1>1, <2>1, <3>1 DEF AlreadyConnected
  <2>2. CASE BeginStop(c)
    <3>1. queue' \in Seq(Callers)
      BY <1>1, <2>2, TailType DEF BeginStop
    <3>2. QED
      BY <1>1, <2>2, <3>1 DEF BeginStop
  <2>3. CASE StopRaises(c) \/ StopReturns(c) \/ StartAttempt(c)
    BY <1>1, <2>3 DEF StopRaises, StopReturns, StartAttempt, Stopped
  <2>4. CASE CallerReturns(c)
    BY <1>1, <2>4 DEF CallerReturns
  <2>5. QED
    BY <1>3, <2>1, <2>2, <2>3, <2>4 DEF Caller
<1>4. ASSUME NEW c \in Callers, Cancel(c)
      PROVE  CallerType'
  <2>1. CASE CancelQueued(c)
    <3>1. queue' \in Seq(Callers)
      BY <1>1, <2>1, RemoveAtType DEF CancelQueued
    <3>2. QED
      BY <1>1, <2>1, <3>1 DEF CancelQueued
  <2>2. CASE CancelWaiting(c) \/ CancelStopping(c)
    BY <1>1, <2>2 DEF CancelWaiting, CancelStopping
  <2>3. QED
    BY <1>4, <2>1, <2>2 DEF Cancel
<1>5. ASSUME NEW k \in Callers, Connection(k) \/ Registry
      PROVE  CallerType'
  BY <1>1, <1>5, CallersFrame DEF callerVars
<1>6. CASE Registry
  BY <1>1, <1>6 DEF Registry, RegistryChange, RefreshStep, RefreshEnds, RefreshAsks,
       RefreshDone, RefreshUnwinds, RefreshFails, refreshFrame, callerVars
<1>7. QED
  BY <1>2, <1>3, <1>4, <1>5, <1>6, NextCases

\* Every step keeps the run and setup tasks' variables in their types.
LEMMA RunTypeNext ==
  ASSUME TypeOK, Next
  PROVE  RunType'
<1> USE DEF RunType, RunPC, SetupPC, ConnState, runVars
<1>1. RunType /\ request \in [Callers -> Creds \cup {None}]
  BY DEF TypeOK, CallerType
<1>2. ASSUME NEW c \in Callers, Arrive(c) \/ Cancel(c) \/ AlreadyConnected(c) \/ CallerReturns(c)
      PROVE  RunType'
  BY <1>1, <1>2, CancelFrame
<1>3. ASSUME NEW c \in Callers, BeginStop(c)
      PROVE  RunType'
  BY <1>1, <1>3 DEF BeginStop
<1>4. ASSUME NEW c \in Callers, StopRaises(c) \/ StopReturns(c) \/ StartAttempt(c)
      PROVE  RunType'
  BY <1>1, <1>4 DEF StopRaises, StopReturns, StartAttempt, Stopped, Reset
<1>5. ASSUME NEW k \in Callers, RunStep(k)
      PROVE  RunType'
  <2>1. CASE ConnectOk(k) \/ Greeted(k) \/ AuthOk(k) \/ AuthInvalid(k)
    BY <1>1, <2>1 DEF ConnectOk, Greeted, AuthOk, AuthInvalid, Goes
  <2>2. CASE ReaderEnds(k) \/ CancelledReader(k) \/ CancelledRun(k)
    BY <1>1, <2>2 DEF ReaderEnds, CancelledReader, CancelledRun, Goes, Unwinds, LeaveReader
  <2>3. CASE Unwound(k) \/ Notified(k) \/ RejectNotified(k) \/ Retry(k)
    BY <1>1, <2>3 DEF Unwound, Notified, RejectNotified, Retry, Goes
  <2>4. QED
    BY <1>5, <2>1, <2>2, <2>3 DEF RunStep
<1>6. ASSUME NEW k \in Callers, RunFault(k)
      PROVE  RunType'
  BY <1>1, <1>6 DEF RunFault, ConnectFails, HandshakeFails, Drop, Goes, LeaveReader, Fault
<1>7. ASSUME NEW k \in Callers, SetupStep(k) \/ SetupFails(k)
      PROVE  RunType'
  BY <1>1, <1>7 DEF SetupStep, SetupFails, SetupSubscribed, SetupConnected, SetupListened,
       SetupUnwinds, SetupGoes, Fault
<1>8. CASE Registry
  BY <1>1, <1>8, RegistryFrame
<1>9. QED
  BY <1>2, <1>3, <1>4, <1>5, <1>6, <1>7, <1>8, NextCases DEF Caller, Connection

\* Every step keeps the refresh task's and the registries' variables in their types.
LEMMA RefreshTypeNext ==
  ASSUME TypeOK, Next
  PROVE  RefreshType'
<1> USE DEF RefreshType, RefreshPC, refreshVars
<1>1. RefreshType /\ ws \in Callers \cup {None}
  BY DEF TypeOK, RunType
<1>2. ASSUME NEW c \in Callers, Arrive(c) \/ Cancel(c) \/ AlreadyConnected(c) \/ CallerReturns(c)
      PROVE  RefreshType'
  BY <1>1, <1>2, CancelFrame
<1>3. ASSUME NEW c \in Callers,
             BeginStop(c) \/ StopRaises(c) \/ StopReturns(c) \/ StartAttempt(c)
      PROVE  RefreshType'
  BY <1>1, <1>3 DEF BeginStop, StopRaises, StopReturns, StartAttempt, Stopped, Reset
<1>4. ASSUME NEW k \in Callers, RunStep(k)
      PROVE  RefreshType'
  <2>1. CASE ConnectOk(k) \/ Greeted(k) \/ AuthOk(k) \/ AuthInvalid(k)
    BY <1>1, <2>1 DEF ConnectOk, Greeted, AuthOk, AuthInvalid, AbandonRefresh
  <2>2. CASE ReaderEnds(k) \/ CancelledReader(k) \/ CancelledRun(k)
    BY <1>1, <2>2 DEF ReaderEnds, CancelledReader, CancelledRun, LeaveReader
  <2>3. CASE Unwound(k) \/ Notified(k) \/ RejectNotified(k) \/ Retry(k)
    BY <1>1, <2>3 DEF Unwound, Notified, RejectNotified, Retry
  <2>4. QED
    BY <1>4, <2>1, <2>2, <2>3 DEF RunStep
<1>5. ASSUME NEW k \in Callers, RunFault(k)
      PROVE  RefreshType'
  BY <1>1, <1>5 DEF RunFault, ConnectFails, HandshakeFails, Drop, LeaveReader, AbandonRefresh
<1>6. ASSUME NEW k \in Callers, SetupStep(k) \/ SetupFails(k)
      PROVE  RefreshType'
  <2>1. CASE SetupSubscribed(k)
    BY <1>1, <2>1 DEF SetupSubscribed
  <2>2. CASE SetupConnected(k)
    BY <1>1, <2>2 DEF SetupConnected, Newest
  <2>3. CASE SetupListened(k) \/ SetupUnwinds(k) \/ SetupFails(k)
    BY <1>1, <2>3 DEF SetupListened, SetupUnwinds, SetupFails
  <2>4. QED
    BY <1>6, <2>1, <2>2, <2>3 DEF SetupStep
<1>7. CASE Registry
  <2>1. CASE RegistryChange
    BY <1>1, <2>1 DEF RegistryChange
  <2>2. CASE RefreshEnds \/ RefreshAsks \/ RefreshUnwinds \/ RefreshFails
    BY <1>1, <2>2 DEF RefreshEnds, RefreshAsks, Open, RefreshUnwinds, RefreshFails
  <2>3. CASE RefreshDone
    BY <1>1, <2>3 DEF RefreshDone, Newest
  <2>4. QED
    BY <1>7, <2>1, <2>2, <2>3 DEF Registry, RefreshStep
<1>8. QED
  BY <1>2, <1>3, <1>4, <1>5, <1>6, <1>7, NextCases DEF Caller, Connection

\* registry_dirty stays a Boolean.
LEMMA DirtyTypeNext ==
  ASSUME TypeOK, Next
  PROVE  registry_dirty' \in BOOLEAN
<1>1. CASE UNCHANGED registry_dirty
  BY Zenon, <1>1 DEF TypeOK
<1>2. CASE registry_dirty' = TRUE \/ registry_dirty' = FALSE
  BY Zenon, <1>2
<1>3. ASSUME NEW c \in Callers, Arrive(c) \/ Caller(c) \/ Cancel(c)
      PROVE  UNCHANGED registry_dirty
  BY <1>3 DEF Arrive, Caller, Cancel, AlreadyConnected, BeginStop, StopRaises, StopReturns,
       StartAttempt, Stopped, CallerReturns, CancelQueued, CancelWaiting, CancelStopping, refreshVars
<1>4. ASSUME NEW k \in Callers, Connection(k)
      PROVE  UNCHANGED registry_dirty
  BY <1>4 DEF Connection, RunStep, RunFault, SetupStep, SetupFails, ConnectOk, Greeted, AuthOk,
       AuthInvalid, ReaderEnds, Unwound, Notified, RejectNotified, Retry, CancelledReader,
       CancelledRun, ConnectFails, HandshakeFails, Drop, LeaveReader, SetupSubscribed,
       SetupConnected, SetupListened, SetupUnwinds, refreshVars
<1>5. CASE Registry
  BY <1>1, <1>2, <1>5 DEF Registry, RegistryChange, RefreshStep, RefreshEnds, RefreshAsks,
       RefreshDone, RefreshUnwinds, RefreshFails
<1>6. QED
  BY <1>1, <1>3, <1>4, <1>5, NextCases

\* Every step keeps every variable's kind of value.
LEMMA TypeNext ==
  ASSUME TypeOK, [Next]_vars
  PROVE  TypeOK'
<1>1. CASE Next
  BY <1>1, CallerTypeNext, RunTypeNext, RefreshTypeNext, DirtyTypeNext DEF TypeOK
<1>2. CASE UNCHANGED vars
  BY <1>2 DEF vars, callerVars, runVars, refreshVars, TypeOK, CallerType, RunType, RefreshType
<1>3. QED
  BY <1>1, <1>2

\* Every variable keeps its kind of value in every reachable state.
THEOREM TypeCorrect == Spec => []TypeOK
<1>1. Init => TypeOK
  BY InitType
<1>2. TypeOK /\ [Next]_vars => TypeOK'
  BY TypeNext
<1>3. QED
  BY <1>1, <1>2, PTL DEF Spec

-----------------------------------------------------------------------------
(* The safety properties                                                   *)

\* Everything that is inductive besides the types.
Safe == LockInv /\ AttemptInv /\ SupersededInv /\ OneConnection /\ AttemptsNest
          /\ NobodyStranded /\ StateTellsTruth

\* Before any call there is no task, no waiter and no connection.
LEMMA InitSafe == Init => Safe
BY DEF Init, Safe, LockInv, AttemptInv, SupersededInv, OneConnection, Alive, AttemptsNest,
       SetupAlive, NobodyStranded, StateTellsTruth

\* Registry steps touch nothing that Safe reads.
LEMMA RegistrySafe ==
  ASSUME Safe, Registry
  PROVE  Safe'
<1>1. UNCHANGED <<callerVars, runVars, conn_state, fired, ws, setup, faults>>
  BY RegistryFrame DEF Registry, RegistryChange, RefreshStep, RefreshEnds, RefreshAsks,
       RefreshDone, RefreshUnwinds, RefreshFails, refreshFrame
<1>2. QED
  BY <1>1 DEF callerVars, runVars, Safe, LockInv, AttemptInv, SupersededInv, OneConnection,
       Alive, AttemptsNest, SetupAlive, NobodyStranded, StateTellsTruth

\* Callers that queue, return or give up: none of them is stopping, and none
\* of them waits afterwards.
LEMMA CallerSafe ==
  ASSUME CallerType, RunType, Safe, NEW c \in Callers,
         Arrive(c) \/ AlreadyConnected(c) \/ CallerReturns(c) \/ Cancel(c)
  PROVE  Safe'
<1> USE DEF Safe, CallerType, RunType, runVars
<1>1. UNCHANGED <<runVars, conn_state, fired, setup, holder, victim>>
  BY CancelFrame
<1>2. \/ pc' = pc
      \/ pc[c] # "stopping" /\ \E x \in {"lock", "returned", "cancelled"} :
            (x = "lock" => pc[c] = "idle") /\ pc' = [pc EXCEPT ![c] = x]
  BY DEF Arrive, AlreadyConnected, AcquireLock, CallerReturns, Woken, Cancel, CancelQueued,
         CancelWaiting, CancelStopping
<1>3. LockInv'
  BY <1>1, <1>2 DEF LockInv
<1>4. AttemptInv'
  BY <1>1, <1>2 DEF AttemptInv
<1>5. SupersededInv' /\ NobodyStranded'
  BY <1>1, <1>2 DEF SupersededInv, NobodyStranded
<1>6. OneConnection' /\ AttemptsNest' /\ StateTellsTruth'
  BY <1>1 DEF OneConnection, Alive, AttemptsNest, SetupAlive, StateTellsTruth
<1>7. QED
  BY <1>3, <1>4, <1>5, <1>6

\* BeginStop takes the lock and cancels the current run task.
LEMMA BeginStopSafe ==
  ASSUME CallerType, RunType, Safe, NEW c \in Callers, BeginStop(c)
  PROVE  Safe'
<1> USE DEF Safe, CallerType, RunType, BeginStop, AcquireLock
<1>1. LockInv'
  BY DEF LockInv
<1>2. AttemptInv'
  BY DEF AttemptInv
<1>3. SupersededInv' /\ NobodyStranded'
  BY DEF SupersededInv, NobodyStranded
<1>4. OneConnection' /\ AttemptsNest' /\ StateTellsTruth'
  BY DEF OneConnection, Alive, AttemptsNest, SetupAlive, StateTellsTruth
<1>5. QED
  BY <1>1, <1>2, <1>3, <1>4

\* Once the awaits of _stop_locked are over no run task is alive, so the one
\* that apply_credentials then starts is the only one.
LEMMA StoppedSafe ==
  ASSUME CallerType, RunType, Safe, NEW c \in Callers,
         StopRaises(c) \/ StopReturns(c) \/ StartAttempt(c)
  PROVE  Safe'
<1> USE DEF Safe, CallerType, RunType, StopRaises, StopReturns, StartAttempt, Stopped, Reset
<1>1. holder = c /\ victim[c] = task
  BY DEF LockInv
<1>2. \A k \in Callers : ~Alive(k)
  BY <1>1 DEF OneConnection
<1>3. \A k \in Callers : ~SetupAlive(k)
  BY <1>2 DEF AttemptsNest, Alive
<1>4. run[c] = "none" /\ c \notin cancelled
  BY DEF AttemptInv
<1>5. LockInv'
  BY <1>1, <1>4 DEF LockInv
<1>6. AttemptInv'
  BY <1>1, <1>4 DEF AttemptInv
<1>7. NobodyStranded' /\ SupersededInv'
  BY <1>1, <1>2, <1>4 DEF NobodyStranded, SupersededInv, Alive
<1>8. OneConnection' /\ AttemptsNest' /\ StateTellsTruth'
  BY <1>2, <1>3, <1>4 DEF OneConnection, Alive, AttemptsNest, SetupAlive, StateTellsTruth
<1>9. QED
  BY <1>5, <1>6, <1>7, <1>8

\* The run task of an attempt goes through its loop: the only steps that leave
\* or enter a state Safe mentions are the verdicts, which set conn_state or the
\* event in the same step.
LEMMA ConnectionSafe ==
  ASSUME CallerType, RunType, Safe, NEW k \in Callers, Connection(k)
  PROVE  Safe'
<1> USE DEF Safe, CallerType, RunType, callerVars, runVars
<1>1. UNCHANGED <<callerVars, cancelled, task, attempt>>
  <2>1. UNCHANGED callerVars
    BY CallersFrame
  <2>2. UNCHANGED <<cancelled, task, attempt>>
    BY DEF Connection, RunStep, RunFault, SetupStep, SetupFails, ConnectOk, Greeted, AuthOk,
       AuthInvalid, ReaderEnds, Unwound, Notified, RejectNotified, Retry, CancelledReader,
       CancelledRun, ConnectFails, HandshakeFails, Drop, Goes, Unwinds, SetupSubscribed,
       SetupConnected, SetupListened, SetupUnwinds, SetupGoes
  <2>3. QED
    BY <2>1, <2>2
<1>2. Alive(k) /\ task = k /\ attempt = k
  <2>1. Alive(k)
    BY DEF Connection, RunStep, RunFault, SetupStep, SetupFails, ConnectOk, Greeted, AuthOk,
       AuthInvalid, ReaderEnds, Unwound, Notified, RejectNotified, Retry, CancelledReader,
       CancelledRun, ConnectFails, HandshakeFails, Drop, Goes, Unwinds, SetupSubscribed,
       SetupConnected, SetupListened, SetupUnwinds, SetupGoes, Alive
  <2>2. task = k
    BY <2>1 DEF OneConnection
  <2>3. QED
    BY <2>1, <2>2 DEF AttemptInv
<1>3. \A c \in Callers : c # k => run'[c] = run[c] /\ setup'[c] = setup[c]
  BY DEF Connection, RunStep, RunFault, SetupStep, SetupFails, ConnectOk, Greeted, AuthOk,
       AuthInvalid, ReaderEnds, Unwound, Notified, RejectNotified, Retry, CancelledReader,
       CancelledRun, ConnectFails, HandshakeFails, Drop, Goes, Unwinds, LeaveReader,
       SetupSubscribed, SetupConnected, SetupListened, SetupUnwinds, SetupGoes
<1>4. run'[k] # "none" /\ run[k] # "none"
  BY <1>2 DEF Alive, Connection, RunStep, RunFault, SetupStep, SetupFails, ConnectOk, Greeted, AuthOk,
       AuthInvalid, ReaderEnds, Unwound, Notified, RejectNotified, Retry, CancelledReader,
       CancelledRun, ConnectFails, HandshakeFails, Drop, Goes, Unwinds,
       SetupSubscribed, SetupConnected, SetupListened, SetupUnwinds, SetupGoes
<1>5. LockInv' /\ AttemptInv'
  BY <1>1, <1>2, <1>3, <1>4 DEF LockInv, AttemptInv
<1>6. OneConnection'
  BY <1>1, <1>2, <1>3 DEF OneConnection, Alive
<1>7. AttemptsNest'
  <2>1. \A c \in Callers : c # k /\ SetupAlive(c)' => run'[c] \in {"read", "unwind"}
    BY <1>3 DEF AttemptsNest, SetupAlive
  <2>2. CASE RunStep(k) \/ RunFault(k)
    BY <2>1, <2>2 DEF AttemptsNest, SetupAlive, SetupEnded, RunStep, RunFault, ConnectOk, Greeted, AuthOk,
       AuthInvalid, ReaderEnds, Unwound, Notified, RejectNotified, Retry, CancelledReader,
       CancelledRun, ConnectFails, HandshakeFails, Drop, Goes, Unwinds, LeaveReader
  <2>3. CASE SetupStep(k) \/ SetupFails(k)
    BY <2>1, <2>3 DEF AttemptsNest, SetupAlive, SetupStep, SetupFails,
       SetupSubscribed, SetupConnected, SetupListened, SetupUnwinds, SetupGoes
  <2>4. QED
    BY <2>2, <2>3 DEF Connection
<1>8. NobodyStranded'
  <2>1. fired \subseteq fired'
    BY DEF Connection, RunStep, RunFault, SetupStep, SetupFails, ConnectOk, Greeted, AuthOk,
       AuthInvalid, ReaderEnds, Unwound, Notified, RejectNotified, Retry, CancelledReader,
       CancelledRun, ConnectFails, HandshakeFails, Drop, LeaveReader,
       SetupSubscribed, SetupConnected, SetupListened, SetupUnwinds
  <2>2. SUFFICES ASSUME pc[k] = "waiting", k \notin fired'
                 PROVE  /\ run'[k] \notin {"none", "sleep", "ended"} \/ k \in cancelled
                        /\ setup'[k] = "done" => run'[k] # "read"
    BY <1>1, <1>2, <2>1 DEF NobodyStranded
  <2>3. /\ run[k] \notin {"none", "sleep", "ended"} \/ k \in cancelled
        /\ setup[k] = "done" => run[k] # "read"
    BY <2>1, <2>2 DEF NobodyStranded
  <2>4. CASE RunStep(k) \/ RunFault(k)
    BY <1>2, <2>2, <2>3, <2>4 DEF RunStep, RunFault, ConnectOk, Greeted, AuthOk,
       AuthInvalid, ReaderEnds, Unwound, Notified, RejectNotified, Retry, CancelledReader,
       CancelledRun, ConnectFails, HandshakeFails, Drop, Goes, Unwinds, LeaveReader
  <2>5. CASE SetupStep(k) \/ SetupFails(k)
    BY <1>2, <2>2, <2>3, <2>5 DEF SetupStep, SetupFails,
       SetupSubscribed, SetupConnected, SetupListened, SetupUnwinds, SetupGoes
  <2>6. QED
    BY <2>4, <2>5 DEF Connection
<1>9. SupersededInv'
  <2>1. SUFFICES ASSUME NEW c \in Callers, pc[c] = "waiting", c # k
                 PROVE  c \in fired' /\ conn_state' = "disconnected" /\ run'[k] \in {"dial", "ended"}
    BY <1>1, <1>2 DEF SupersededInv
  <2>2. c \in fired /\ conn_state = "disconnected" /\ run[k] = "dial"
    BY <1>2, <2>1 DEF SupersededInv, Alive
  <2>3. Woken # {}
    BY <2>1, <2>2 DEF Woken
  <2>4. CancelledRun(k)
    BY <2>2, <2>3 DEF NothingReady, Connection, RunStep, RunFault, SetupStep, SetupFails, ConnectOk,
       Greeted, AuthOk, AuthInvalid, ReaderEnds, Unwound, Notified, RejectNotified, Retry,
       CancelledReader, ConnectFails, HandshakeFails, Drop, Goes, Unwinds,
       SetupSubscribed, SetupConnected, SetupListened, SetupUnwinds, SetupGoes
  <2>5. QED
    BY <2>2, <2>4 DEF CancelledRun, Unwinds
<1>10. StateTellsTruth'
  <2>1. SUFFICES ASSUME holder = None
                 PROVE  /\ conn_state' = "connected" => run'[k] \in {"read", "unwind"}
                        /\ run'[k] = "read" /\ setup'[k] \in {"listen", "done"} => conn_state' = "connected"
                        /\ (conn_state' = "auth_failed") = (run'[k] \in {"reject", "ended"})
                        /\ run'[k] \in {"notify", "sleep"} => conn_state' = "unreachable"
    BY <1>1, <1>2 DEF StateTellsTruth
  <2>2. k \notin cancelled
    BY <1>2, <2>1 DEF LockInv
  <2>3. /\ conn_state = "connected" => run[k] \in {"read", "unwind"}
        /\ run[k] = "read" /\ setup[k] \in {"listen", "done"} => conn_state = "connected"
        /\ (conn_state = "auth_failed") = (run[k] \in {"reject", "ended"})
        /\ run[k] \in {"notify", "sleep"} => conn_state = "unreachable"
    BY <1>2, <2>1 DEF StateTellsTruth
  <2>4. CASE RunStep(k) \/ RunFault(k)
    BY <2>2, <2>3, <2>4 DEF RunStep, RunFault, ConnectOk, Greeted, AuthOk,
       AuthInvalid, ReaderEnds, Unwound, Notified, RejectNotified, Retry, CancelledReader,
       CancelledRun, ConnectFails, HandshakeFails, Drop, Goes, Unwinds, LeaveReader
  <2>5. CASE SetupStep(k) \/ SetupFails(k)
    BY <2>2, <2>3, <2>5 DEF SetupStep, SetupFails,
       SetupSubscribed, SetupConnected, SetupListened, SetupUnwinds, SetupGoes
  <2>6. QED
    BY <2>4, <2>5 DEF Connection
<1>11. QED
  BY <1>5, <1>6, <1>7, <1>8, <1>9, <1>10

\* Every step keeps the safety part of the invariant.
LEMMA SafeNext ==
  ASSUME TypeOK, Safe, [Next]_vars
  PROVE  Safe'
<1>1. CallerType /\ RunType
  BY DEF TypeOK
<1>2. CASE Next
  <2>1. ASSUME NEW c \in Callers, Arrive(c) \/ Caller(c) \/ Cancel(c)
        PROVE  Safe'
    BY <1>1, <2>1, CallerSafe, BeginStopSafe, StoppedSafe DEF Caller
  <2>2. ASSUME NEW k \in Callers, Connection(k)
        PROVE  Safe'
    BY <1>1, <2>2, ConnectionSafe
  <2>3. CASE Registry
    BY <2>3, RegistrySafe
  <2>4. QED
    BY <1>2, <2>1, <2>2, <2>3, NextCases
<1>3. CASE UNCHANGED vars
  BY <1>3 DEF vars, callerVars, runVars, Safe, LockInv, AttemptInv, SupersededInv, OneConnection,
       Alive, AttemptsNest, SetupAlive, NobodyStranded, StateTellsTruth
<1>4. QED
  BY <1>2, <1>3

\* The whole invariant holds in every reachable state.
THEOREM InductiveHolds == Spec => []Inductive
<1>1. Init => TypeOK /\ Safe
  BY InitType, InitSafe
<1>2. TypeOK /\ Safe /\ [Next]_vars => (TypeOK /\ Safe)'
  BY TypeNext, SafeNext
<1>3. TypeOK /\ Safe => Inductive
  BY DEF Safe, Inductive
<1>4. QED
  BY <1>1, <1>2, <1>3, PTL DEF Spec

\* However many apply_credentials and stop calls overlap, at most one
\* connection loop is alive, and it is the one the next stop cancels.
THEOREM AtMostOneConnection == Spec => []OneConnection
<1>1. Inductive => OneConnection
  BY DEF Inductive
<1>2. QED
  BY <1>1, InductiveHolds, PTL

\* No connect listener outlives its connection's reader: the disconnect
\* listeners always run after it.
THEOREM ListenersNest == Spec => []AttemptsNest
<1>1. Inductive => AttemptsNest
  BY DEF Inductive
<1>2. QED
  BY <1>1, InductiveHolds, PTL

\* A waiting caller's event always has a live task that will set it.
THEOREM NoCallerStranded == Spec => []NobodyStranded
<1>1. Inductive => NobodyStranded
  BY DEF Inductive
<1>2. QED
  BY <1>1, InductiveHolds, PTL

\* conn_state agrees with where the connection is whenever no stop is under way.
THEOREM StateIsTruthful == Spec => []StateTellsTruth
<1>1. Inductive => StateTellsTruth
  BY DEF Inductive
<1>2. QED
  BY <1>1, InductiveHolds, PTL

\* apply_credentials returns its own attempt's state, or "disconnected".
THEOREM ReportsOwn == Spec => ReportsOwnAttempt
<1>1. Inductive /\ [Next]_vars =>
        [\A c \in Callers : pc[c] = "waiting" /\ pc'[c] = "returned"
            => task = c \/ conn_state = "disconnected"]_vars
  BY DEF Inductive, SupersededInv
<1>2. QED
  BY <1>1, InductiveHolds, PTL DEF Spec, ReportsOwnAttempt

-----------------------------------------------------------------------------
(* The registries                                                          *)

\* Before any connection nothing has changed and nothing is known.
LEMMA InitCurrent == Init => RefreshInv /\ CurrentInv
BY DEF Init, RefreshInv, CurrentInv, Hears

\* A connection that hears of the changes is the current one, outside any stop.
LEMMA HearsAlone ==
  ASSUME Safe, NEW k \in Callers, Hears(k)
  PROVE  task = k /\ holder = None
BY DEF Safe, OneConnection, LockInv, Hears, Alive

\* What is known, and what was asked for, is no newer than what there is.
LEMMA VersionFacts ==
  ASSUME RefreshType, RefreshInv
  PROVE  /\ version \in Nat /\ known \in 0..version
         /\ asked["setup"] \in 0..version /\ asked["refresh"] \in 0..version
BY DEF RefreshType, RefreshInv

\* The callers: a stop silences the connection, and a new one has to be set up.
LEMMA CallerCurrent ==
  ASSUME TypeOK, Safe, RefreshInv, CurrentInv, NEW c \in Callers,
         Arrive(c) \/ Caller(c) \/ Cancel(c)
  PROVE  RefreshInv' /\ CurrentInv'
<1> USE DEF RefreshInv, CurrentInv, Hears
<1>1. CASE Arrive(c) \/ Cancel(c) \/ AlreadyConnected(c) \/ CallerReturns(c)
  BY <1>1, CancelFrame DEF runVars, refreshVars
<1>2. CASE BeginStop(c)
  <2>1. /\ UNCHANGED <<run, ws, setup, version, known, asked>>
        /\ cancelled' = cancelled \cup ({task} \ {None}) /\ holder' = c
    BY <1>2 DEF BeginStop
  <2>2. \A k \in Callers : ~Hears(k)'
    <3>1. \A k \in Callers : run[k] = "read" => task = k
      BY DEF Safe, OneConnection, Alive
    <3>2. QED
      BY <2>1, <3>1
  <2>3. QED
    BY <2>1, <2>2
<1>3. CASE StopRaises(c) \/ StopReturns(c) \/ StartAttempt(c)
  <2>1. holder = c /\ victim[c] = task /\ run[c] = "none"
    BY <1>3 DEF StopRaises, StopReturns, StartAttempt, Stopped, Safe, LockInv, AttemptInv
  <2>2. \A k \in Callers : ~Alive(k)
    BY <1>3, <2>1 DEF StopRaises, StopReturns, StartAttempt, Stopped, Safe, OneConnection
  <2>3. run' = run \/ run' = [run EXCEPT ![c] = "dial"]
    BY <1>3 DEF StopRaises, StopReturns, StartAttempt
  <2>4. \A k \in Callers : run'[k] \notin {"greet", "auth", "read"}
    BY <2>2, <2>3 DEF TypeOK, RunType, Alive
  <2>5. refresh' = "off" /\ UNCHANGED <<version, known, asked>>
    BY <1>3 DEF StopRaises, StopReturns, StartAttempt, Stopped, Reset
  <2>6. QED
    BY <2>4, <2>5
<1>4. QED
  BY <1>1, <1>2, <1>3 DEF Caller

\* The run task: no reader is left by or found at its steps, but its own.
LEMMA RunCurrent ==
  ASSUME TypeOK, Safe, RefreshInv, CurrentInv, NEW k \in Callers,
         RunStep(k) \/ RunFault(k)
  PROVE  RefreshInv' /\ CurrentInv'
<1> USE DEF RefreshInv, CurrentInv, Hears
<1>1. /\ task = k /\ \A j \in Callers \ {k} : run[j] \in {"none", "ended"}
      /\ \A j \in Callers \ {k} : run'[j] = run[j]
  <2>1. Alive(k)
    BY DEF RunStep, RunFault, ConnectOk, Greeted, AuthOk, AuthInvalid, ReaderEnds, Unwound,
       Notified, RejectNotified, Retry, CancelledReader, CancelledRun, ConnectFails,
       HandshakeFails, Drop, Goes, Unwinds, Alive
  <2>2. \A j \in Callers \ {k} : run'[j] = run[j]
    BY DEF TypeOK, RunType, RunStep, RunFault, ConnectOk, Greeted, AuthOk, AuthInvalid, ReaderEnds,
       Unwound, Notified, RejectNotified, Retry, CancelledReader, CancelledRun, ConnectFails,
       HandshakeFails, Drop, Goes, Unwinds
  <2>3. QED
    BY <2>1, <2>2 DEF Safe, OneConnection, Alive
<1>2. UNCHANGED <<version, asked, known, holder>>
  BY CallersFrame DEF callerVars, refreshVars, RunStep, RunFault, ConnectOk, Greeted, AuthOk,
     AuthInvalid, ReaderEnds, Unwound, Notified, RejectNotified, Retry, CancelledReader,
     CancelledRun, ConnectFails, HandshakeFails, Drop, Goes, Unwinds, LeaveReader
<1>3. ~Hears(k)'
  <2>1. CASE AuthOk(k)
    BY <2>1 DEF AuthOk, TypeOK, RunType
  <2>2. CASE ~AuthOk(k)
    BY <2>2 DEF TypeOK, RunType, RunStep, RunFault, ConnectOk, Greeted, AuthInvalid, ReaderEnds,
       Unwound, Notified, RejectNotified, Retry, CancelledReader, CancelledRun, ConnectFails,
       HandshakeFails, Drop, Goes, Unwinds
  <2>3. QED
    BY <2>1, <2>2
<1>4. CurrentInv'
  BY <1>1, <1>3
<1>5. refresh' = "cancelled" => holder' # None
  BY <1>2 DEF refreshVars, RunStep, RunFault, ConnectOk, Greeted, AuthOk,
     AuthInvalid, ReaderEnds, Unwound, Notified, RejectNotified, Retry, CancelledReader,
     CancelledRun, ConnectFails, HandshakeFails, Drop, LeaveReader, AbandonRefresh
<1>6. run'[k] \in {"greet", "auth", "read"} => ws' = k
  BY DEF TypeOK, RunType, RunStep, RunFault, ConnectOk, Greeted, AuthOk,
     AuthInvalid, ReaderEnds, Unwound, Notified, RejectNotified, Retry, CancelledReader,
     CancelledRun, ConnectFails, HandshakeFails, Drop, Goes, Unwinds
<1>7. QED
  BY <1>1, <1>2, <1>4, <1>5, <1>6

\* The setup: what it fetches was asked for once it heard of every change.
LEMMA SetupCurrent ==
  ASSUME TypeOK, Safe, RefreshInv, CurrentInv, NEW k \in Callers,
         SetupStep(k) \/ SetupFails(k)
  PROVE  RefreshInv' /\ CurrentInv'
<1> USE DEF RefreshInv, CurrentInv, Hears
<1>0. RefreshType /\ RunType
  BY DEF TypeOK
<1>1. UNCHANGED <<run, cancelled, refresh, registry_dirty, version, ws, holder>>
  BY CallersFrame DEF Connection, callerVars, runVars, refreshVars, SetupStep, SetupSubscribed,
     SetupConnected, SetupListened, SetupUnwinds, SetupFails, SetupGoes
<1>2. \A j \in Callers \ {k} : ~Hears(j)' \/ ~(run[k] = "read")
  BY <1>1 DEF Safe, OneConnection, Alive
<1>3. CASE SetupSubscribed(k)
  <2>1. /\ asked' = [asked EXCEPT !["setup"] = version] /\ known' = known
        /\ setup'[k] = "fetch" /\ run[k] = "read"
    BY <1>0, <1>3 DEF SetupSubscribed, SetupGoes, RunType
  <2>2. asked'["setup"] = version /\ asked'["refresh"] = asked["refresh"]
    BY <1>0, <2>1 DEF RefreshType
  <2>3. RefreshInv'
    BY <1>0, <1>1, <2>1, <2>2, VersionFacts
  <2>4. CurrentInv'
    BY <1>1, <1>2, <2>1, <2>2
  <2>5. QED
    BY <2>3, <2>4
<1>4. CASE SetupConnected(k)
  <2>1. /\ known' = Newest(known, asked["setup"]) /\ asked' = asked
        /\ setup[k] = "fetch" /\ setup'[k] = "listen" /\ run[k] = "read"
    BY <1>0, <1>4 DEF SetupConnected, SetupGoes, RunType
  <2> DEFINE was == known  got == asked["setup"]
  <2>2. /\ Newest(was, got) \in 0..version
        /\ was = version \/ got = version => Newest(was, got) = version
    <3>1. version \in Nat /\ was \in 0..version /\ got \in 0..version
      BY <1>0, VersionFacts
    <3> HIDE DEF was, got
    <3>2. QED
      BY <3>1 DEF Newest
  <2>3. known' \in 0..version /\ (known = version \/ asked["setup"] = version => known' = version)
    BY <2>1, <2>2
  <2>4. RefreshInv'
    BY <1>1, <2>1, <2>3
  <2>5. CurrentInv'
    BY <1>1, <1>2, <2>1, <2>3
  <2>6. QED
    BY <2>4, <2>5
<1>5. CASE SetupListened(k) \/ SetupUnwinds(k) \/ SetupFails(k)
  <2>1. /\ UNCHANGED <<known, asked>>
        /\ \A j \in Callers \ {k} : setup'[j] = setup[j]
        /\ \/ run[k] = "unwind"
           \/ setup[k] = "listen" /\ setup'[k] = "done"
           \/ setup'[k] = "failing"
    BY <1>0, <1>5 DEF SetupListened, SetupUnwinds, SetupFails, SetupGoes, RunType, refreshVars
  <2>2. QED
    BY <1>1, <2>1
<1>6. QED
  BY <1>3, <1>4, <1>5 DEF SetupStep

\* The refresh: a change leaves the dirty flag set until a round asks, and a round
\* that ends at the loop's head found nothing to ask for.
LEMMA RegistryCurrent ==
  ASSUME ~RefreshMayFail, TypeOK, Safe, RefreshInv, CurrentInv, Registry
  PROVE  RefreshInv' /\ CurrentInv'
<1> USE DEF RefreshInv, CurrentInv
<1>0. RefreshType /\ RunType
  BY DEF TypeOK
<1>1. UNCHANGED <<run, cancelled, ws, setup, holder>> /\ \A k \in Callers : Hears(k)' = Hears(k)
  <2>1. UNCHANGED <<run, cancelled, ws, setup>>
    BY RegistryFrame DEF runVars
  <2>2. holder' = holder
    BY DEF Registry, RegistryChange, RefreshStep, RefreshEnds, RefreshAsks, RefreshDone,
       RefreshUnwinds, RefreshFails, refreshFrame, callerVars
  <2>3. QED
    BY <2>1, <2>2 DEF Hears
<1>2. \A k \in Callers : Hears(k) => holder = None /\ Open
  BY HearsAlone DEF Hears, Open
<1>3. CASE RegistryChange
  <2>1. version' = version + 1 /\ UNCHANGED <<asked, known>>
    BY <1>3 DEF RegistryChange
  <2>2. {known, asked["setup"], asked["refresh"]} \subseteq 0..version'
    BY <1>0, <2>1, VersionFacts
  <2>3. CASE \A k \in Callers : ~Hears(k)
    <3>1. refresh' = refresh
      BY <1>3, <2>3 DEF RegistryChange
    <3>2. QED
      BY <1>1, <2>1, <2>2, <2>3, <3>1
  <2>4. CASE \E k \in Callers : Hears(k)
    <3>1. registry_dirty' = TRUE /\ refresh' = IF refresh = "off" THEN "loop" ELSE refresh
      BY <1>3, <2>4 DEF RegistryChange
    <3>2. refresh # "cancelled"
      BY <1>2, <2>4
    <3>3. refresh' \in {"loop", "fetch", "notify", "hung"}
      BY <1>0, <3>1, <3>2 DEF RefreshType, RefreshPC
    <3>4. QED
      BY <1>1, <2>1, <2>2, <3>1, <3>3
  <2>5. QED
    BY <2>3, <2>4
<1>4. CASE RefreshEnds
  <2>1. UNCHANGED <<version, asked, known>> /\ refresh' = "off" /\ refresh \in {"loop", "notify"}
        /\ ~(registry_dirty /\ Open)
    BY <1>4 DEF RefreshEnds, AtLoopHead
  <2>2. QED
    BY <1>1, <1>2, <2>1
<1>5. CASE RefreshAsks
  <2>1. /\ UNCHANGED <<version, known>> /\ refresh' = "fetch"
        /\ asked' = [asked EXCEPT !["refresh"] = version]
    BY <1>5 DEF RefreshAsks
  <2>2. asked'["refresh"] = version /\ asked'["setup"] = asked["setup"]
    BY <1>0, <2>1 DEF RefreshType
  <2>3. QED
    BY <1>0, <1>1, <2>1, <2>2, VersionFacts
<1>6. CASE RefreshDone
  <2>1. /\ UNCHANGED <<version, asked, registry_dirty>> /\ refresh = "fetch" /\ refresh' = "notify"
        /\ known' = Newest(known, asked["refresh"])
    BY <1>6 DEF RefreshDone
  <2> DEFINE was == known  got == asked["refresh"]
  <2>2. /\ Newest(was, got) \in 0..version
        /\ was = version \/ got = version => Newest(was, got) = version
    <3>1. version \in Nat /\ was \in 0..version /\ got \in 0..version
      BY <1>0, VersionFacts
    <3> HIDE DEF was, got
    <3>2. QED
      BY <3>1 DEF Newest
  <2>3. known' \in 0..version /\ (known = version \/ asked["refresh"] = version => known' = version)
    BY <2>1, <2>2
  <2>4. QED
    BY <1>1, <2>1, <2>3
<1>7. CASE RefreshUnwinds
  <2>1. UNCHANGED <<version, asked, known>> /\ refresh = "cancelled" /\ refresh' = "off"
    BY <1>7 DEF RefreshUnwinds
  <2>2. QED
    BY <1>1, <1>2, <2>1
<1>8. QED
  BY <1>3, <1>4, <1>5, <1>6, <1>7 DEF Registry, RefreshStep, RefreshFails

\* Every step keeps what is known current, or to be fetched.
LEMMA CurrentNext ==
  ASSUME ~RefreshMayFail, TypeOK, Safe, RefreshInv, CurrentInv, [Next]_vars
  PROVE  RefreshInv' /\ CurrentInv'
<1>1. CASE UNCHANGED vars
  BY <1>1 DEF vars, callerVars, runVars, refreshVars, RefreshInv, CurrentInv, Hears
<1>2. CASE Next
  BY <1>2, NextCases, CallerCurrent, RunCurrent, SetupCurrent, RegistryCurrent DEF Connection
<1>3. QED
  BY <1>1, <1>2

\* Where Home Assistant answers the refresh's commands, no registry change is
\* lost: not to the coalescing, a drop, a reconnect or a stop.
THEOREM RegistriesStayCurrent ==
  ASSUME ~RefreshMayFail
  PROVE  Spec => []RegistriesCurrent
<1>1. RefreshInv /\ CurrentInv => RegistriesCurrent
  BY DEF CurrentInv, RegistriesCurrent
<1>2. Inductive /\ RefreshInv /\ CurrentInv /\ [Next]_vars => RefreshInv' /\ CurrentInv'
  BY CurrentNext DEF Inductive, Safe
<1>3. QED
  BY <1>1, <1>2, InitCurrent, InductiveHolds, PTL DEF Spec

-----------------------------------------------------------------------------
(* The connection keeps its contract                                       *)

CState == <<conn_state, Phase, Listeners>>

\* The initial state maps to the contract's: off and idle.
LEMMA ContractInit == Init => Contract!Init
BY DEF Init, Contract!Init, Phase, Listeners

\* The callers: asking to stop halts the contract, its end is Halted or Start.
LEMMA CallerKeeps ==
  ASSUME CallerType, RunType, Safe, NEW c \in Callers, Arrive(c) \/ Caller(c) \/ Cancel(c)
  PROVE  Contract!Next \/ UNCHANGED CState
<1> USE DEF Safe, CallerType, RunType, CState
<1>1. CASE Arrive(c) \/ Cancel(c) \/ AlreadyConnected(c) \/ CallerReturns(c)
  BY <1>1, CancelFrame DEF Phase, Listeners, runVars
<1>2. CASE BeginStop(c)
  <2>1. holder = None /\ holder' = c /\ UNCHANGED <<task, run, setup, conn_state>>
    BY <1>2 DEF BeginStop, AcquireLock
  <2>2. CASE task = None
    BY <2>1, <2>2 DEF Phase, Listeners
  <2>3. CASE task # None
    <3>1. /\ Phase \notin {"off", "cutting", "halting"}
          /\ Phase' = IF Phase = "setup" THEN "cutting" ELSE "halting"
          /\ Listeners' = Listeners
      BY <2>1, <2>3 DEF Phase, Listeners
    <3>2. QED
      BY <2>1, <3>1 DEF Contract!Next, Contract!Halt
  <2>4. QED
    BY <2>2, <2>3
<1>3. CASE StopRaises(c) \/ StopReturns(c) \/ StartAttempt(c)
  <2>1. holder = c /\ victim[c] = task /\ run[c] = "none"
    BY <1>3 DEF StopRaises, StopReturns, StartAttempt, Stopped, LockInv, AttemptInv
  <2>2. \A k \in Callers : ~Alive(k)
    BY <1>3, <2>1 DEF StopRaises, StopReturns, StartAttempt, Stopped, OneConnection
  <2>3. \A k \in Callers : setup[k] # "listen"
    BY <2>2 DEF AttemptsNest, Alive, SetupAlive
  <2>4. Listeners = "idle" /\ Phase = IF task = None THEN "off" ELSE "halting"
    BY <2>1, <2>2, <2>3 DEF Listeners, Phase, Alive
  <2>5. conn_state' = "disconnected" /\ holder' = None /\ setup' = setup
    BY <1>3 DEF StopRaises, StopReturns, StartAttempt, Stopped, Reset
  <2>6. CASE StartAttempt(c)
    <3>1. task' = c /\ run'[c] = "dial"
      BY <2>6 DEF StartAttempt
    <3>2. Phase' = "dial" /\ Listeners' = "idle"
      BY <2>3, <2>5, <3>1 DEF Phase, Listeners
    <3>3. QED
      BY <2>4, <2>5, <3>2 DEF Contract!Next, Contract!Start
  <2>7. CASE StopRaises(c) \/ StopReturns(c)
    <3>1. task' = None
      BY <2>7 DEF StopRaises, StopReturns
    <3>2. Phase' = "off" /\ Listeners' = "idle"
      BY <2>5, <3>1 DEF Phase, Listeners
    <3>3. CASE task = None
      BY <2>4, <2>5, <3>2, <3>3 DEF AttemptInv
    <3>4. CASE task # None
      BY <2>4, <2>5, <3>2, <3>4 DEF Contract!Next, Contract!Halted
    <3>5. QED
      BY <3>3, <3>4
  <2>8. QED
    BY <1>3, <2>6, <2>7
<1>4. QED
  BY <1>1, <1>2, <1>3 DEF Caller

\* A setup that is not alive is not listening, and a run task outside the
\* reader has no setup alive.
LEMMA QuietOutsideReader ==
  ASSUME RunType, Safe, NEW k \in Callers, run[k] \notin {"read", "unwind"}
  PROVE  setup[k] # "listen"
BY DEF Safe, AttemptsNest, SetupAlive

\* The run task while no stop is under way: each verdict is a contract step.
LEMMA RunKeeps ==
  ASSUME CallerType, RunType, Safe, NEW k \in Callers, RunStep(k) \/ RunFault(k),
         holder = None, task = k, k \notin cancelled, UNCHANGED callerVars, task' = k
  PROVE  Contract!Next \/ UNCHANGED CState
<1> USE DEF RunType, CState, callerVars
<1>0. /\ Phase = CASE run[k] \in {"dial", "greet", "auth"} -> "dial"
                   [] run[k] = "read" -> IF setup[k] \in {"listen", "done"} THEN "up" ELSE "setup"
                   [] run[k] = "unwind" -> "lost"
                   [] run[k] \in {"notify", "reject"} -> "report"
                   [] run[k] = "sleep" -> "backoff"
                   [] OTHER -> "rejected"
      /\ Phase' = CASE run'[k] \in {"dial", "greet", "auth"} -> "dial"
                   [] run'[k] = "read" -> IF setup'[k] \in {"listen", "done"} THEN "up" ELSE "setup"
                   [] run'[k] = "unwind" -> "lost"
                   [] run'[k] \in {"notify", "reject"} -> "report"
                   [] run'[k] = "sleep" -> "backoff"
                   [] OTHER -> "rejected"
      /\ Listeners = IF setup[k] = "listen" THEN "running" ELSE "idle"
      /\ Listeners' = IF setup'[k] = "listen" THEN "running" ELSE "idle"
  BY DEF Phase, Listeners
<1>1. CASE ConnectOk(k) \/ Greeted(k)
  BY <1>0, <1>1 DEF ConnectOk, Greeted, Goes
<1>2. CASE ConnectFails(k) \/ HandshakeFails(k) \/ AuthInvalid(k)
  <2>1. Phase = "dial" /\ Phase' = "report" /\ Listeners' = Listeners
    BY <1>0, <1>2 DEF ConnectFails, HandshakeFails, AuthInvalid, Goes
  <2>2. conn_state' \in {"unreachable", "auth_failed"}
    BY <1>2 DEF ConnectFails, HandshakeFails, AuthInvalid
  <2>3. QED
    BY <2>1, <2>2 DEF Contract!Next, Contract!AttemptFails
<1>3. CASE AuthOk(k)
  <2>1. run[k] = "auth" /\ run'[k] = "read" /\ setup'[k] = "subscribe" /\ conn_state' = conn_state
    BY <1>3 DEF AuthOk, Goes
  <2>2. Phase = "dial" /\ Phase' = "setup" /\ Listeners' = Listeners
    BY <1>0, <2>1, QuietOutsideReader
  <2>3. QED
    BY <2>1, <2>2 DEF Contract!Next, Contract!Authenticated
<1>4. CASE ReaderEnds(k) \/ Drop(k)
  <2>1. Phase \in {"setup", "up"} /\ Phase' = "lost" /\ Listeners' = Listeners /\ conn_state' = conn_state
    BY <1>0, <1>4 DEF ReaderEnds, Drop, Goes, LeaveReader
  <2>2. QED
    BY <2>1 DEF Contract!Next, Contract!Lose
<1>5. CASE Unwound(k)
  <2>1. Phase = "lost" /\ Phase' = "report" /\ Listeners = "idle" /\ Listeners' = "idle"
        /\ conn_state' = "unreachable"
    BY <1>0, <1>5 DEF Unwound, Goes, SetupEnded, SetupAlive
  <2>2. QED
    BY <2>1 DEF Contract!Next, Contract!Report
<1>6. CASE Notified(k) \/ RejectNotified(k)
  <2>1. (conn_state = "auth_failed") = (run[k] = "reject")
    BY <1>6 DEF Notified, RejectNotified, Goes, Safe, StateTellsTruth
  <2>2. /\ Phase = "report" /\ Listeners' = Listeners /\ conn_state' = conn_state
        /\ Phase' = IF run[k] = "reject" THEN "rejected" ELSE "backoff"
    BY <1>0, <1>6 DEF Notified, RejectNotified, Goes
  <2>3. QED
    BY <2>1, <2>2 DEF Contract!Next, Contract!Reported
<1>7. CASE Retry(k)
  <2>1. Phase = "backoff" /\ Phase' = "dial" /\ Listeners' = Listeners /\ conn_state' = conn_state
    BY <1>0, <1>7 DEF Retry, Goes
  <2>2. QED
    BY <2>1 DEF Contract!Next, Contract!Retry
<1>8. CASE CancelledReader(k) \/ CancelledRun(k)
  BY <1>8 DEF CancelledReader, CancelledRun, Unwinds
<1>9. QED
  BY <1>1, <1>2, <1>3, <1>4, <1>5, <1>6, <1>7, <1>8 DEF RunStep, RunFault

\* The connection: while a stop is under way the contract is halting, and only
\* the listeners may still start or end.
LEMMA ConnectionKeeps ==
  ASSUME CallerType, RunType, Safe, NEW k \in Callers, Connection(k)
  PROVE  Contract!Next \/ UNCHANGED CState
<1> USE DEF RunType, CState
<1>1. task = k /\ task' = k /\ UNCHANGED callerVars
  <2>1. Alive(k)
    BY DEF Connection, RunStep, RunFault, SetupStep, SetupFails, ConnectOk, Greeted, AuthOk,
       AuthInvalid, ReaderEnds, Unwound, Notified, RejectNotified, Retry, CancelledReader,
       CancelledRun, ConnectFails, HandshakeFails, Drop, Goes, Unwinds, SetupSubscribed,
       SetupConnected, SetupListened, SetupUnwinds, SetupGoes, Alive
  <2>2. task' = task
    BY DEF runVars, Connection, RunStep, RunFault, SetupStep, SetupFails, ConnectOk, Greeted, AuthOk,
       AuthInvalid, ReaderEnds, Unwound, Notified, RejectNotified, Retry, CancelledReader,
       CancelledRun, ConnectFails, HandshakeFails, Drop, Goes, Unwinds, SetupSubscribed,
       SetupConnected, SetupListened, SetupUnwinds, SetupGoes
  <2>3. QED
    BY <2>1, <2>2, CallersFrame DEF Safe, OneConnection
<1>2. k \in cancelled <=> holder # None
  BY <1>1 DEF Safe, LockInv
<1>3. CASE RunStep(k) \/ RunFault(k)
  <2>1. CASE holder = None
    BY <1>1, <1>2, <1>3, <2>1, RunKeeps
  <2>2. CASE holder # None
    <3>1. CancelledReader(k) \/ CancelledRun(k)
      BY <1>2, <1>3, <2>2 DEF RunStep, RunFault, ConnectOk, Greeted, AuthOk,
         AuthInvalid, ReaderEnds, Unwound, Notified, RejectNotified, Retry,
         ConnectFails, HandshakeFails, Drop, Goes
    <3>2. UNCHANGED <<conn_state, setup>>
      BY <3>1 DEF CancelledReader, CancelledRun, LeaveReader
    <3>3. CASE Phase = "cutting" /\ CancelledReader(k)
      <4>1. Phase' = "halting" /\ Listeners' = Listeners
        BY <1>1, <2>2, <3>2, <3>3 DEF CancelledReader, Unwinds, Phase, Listeners, callerVars
      <4>2. QED
        BY <3>2, <3>3, <4>1 DEF Contract!Next, Contract!Cut
    <3>4. CASE ~(Phase = "cutting" /\ CancelledReader(k))
      BY <1>1, <2>2, <3>1, <3>2, <3>4 DEF CancelledReader, CancelledRun, Unwinds, Phase,
         Listeners, callerVars
    <3>5. QED
      BY <3>3, <3>4
  <2>3. QED
    BY <2>1, <2>2
<1>4. CASE SetupStep(k) \/ SetupFails(k)
  <2>0. run' = run /\ holder' = holder
    BY <1>1, <1>4 DEF callerVars, runVars, SetupStep, SetupSubscribed, SetupConnected, SetupListened,
       SetupUnwinds, SetupFails, SetupGoes
  <2>1. CASE SetupConnected(k)
    <3>1. Phase \in {"setup", "cutting"} /\ Listeners = "idle" /\ Listeners' = "running"
          /\ Phase' = (IF Phase = "setup" THEN "up" ELSE "halting") /\ conn_state' = "connected"
      BY <1>1, <2>0, <2>1 DEF SetupConnected, SetupGoes, Phase, Listeners
    <3>2. QED
      BY <3>1 DEF Contract!Next, Contract!Announce
  <2>2. CASE SetupListened(k) \/ (SetupUnwinds(k) /\ setup[k] = "listen")
    <3>1. /\ Phase \in {"up", "lost", "halting"} /\ Phase' = Phase
          /\ Listeners = "running" /\ Listeners' = "idle" /\ conn_state' = conn_state
      BY <1>1, <2>0, <2>2 DEF SetupListened, SetupGoes, SetupUnwinds, Phase, Listeners
    <3>2. QED
      BY <3>1 DEF Contract!Next, Contract!ListenersEnd
  <2>3. CASE SetupSubscribed(k) \/ SetupFails(k) \/ (SetupUnwinds(k) /\ setup[k] # "listen")
    BY <1>1, <2>0, <2>3 DEF SetupSubscribed, SetupFails, SetupGoes, SetupUnwinds, Phase, Listeners
  <2>4. QED
    BY <1>4, <2>1, <2>2, <2>3 DEF SetupStep
<1>5. QED
  BY <1>3, <1>4 DEF Connection

\* The connection implements its contract: the listeners of the rest of the
\* service may rely on ConnectionContract whatever calls overlap.
THEOREM Implements == Spec => KeepsContract
<1>1. Init => Contract!Init
  BY ContractInit
<1>2. Inductive /\ [Next]_vars => [Contract!Next]_CState
  <2>1. SUFFICES ASSUME Inductive, [Next]_vars
                 PROVE  Contract!Next \/ UNCHANGED CState
    OBVIOUS
  <2>2. CallerType /\ RunType /\ Safe
    BY <2>1 DEF Inductive, TypeOK, Safe
  <2>3. CASE Registry \/ UNCHANGED vars
    <3>1. UNCHANGED <<holder, task, run, setup, conn_state>>
      BY <2>3, RegistryFrame, CallersFrame DEF vars, callerVars, runVars, Registry,
         RegistryChange, RefreshStep, RefreshEnds, RefreshAsks, RefreshDone, RefreshUnwinds,
         RefreshFails, refreshFrame
    <3>2. QED
      BY <3>1 DEF CState, Phase, Listeners
  <2>4. CASE Next
    BY <2>2, <2>3, <2>4, CallerKeeps, ConnectionKeeps, NextCases
  <2>5. QED
    BY <2>1, <2>3, <2>4
<1>3. QED
  BY <1>1, <1>2, InductiveHolds, PTL DEF Spec, KeepsContract, Contract!Spec, CState,
     Contract!contractVars
=============================================================================
