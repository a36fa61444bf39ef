------------------------------ MODULE Registrar ------------------------------
(***************************************************************************)
(* Registration with Alfred (class Registrar, src/app/server.py): requests *)
(* come from startup, each Home Assistant connect and each registry        *)
(* change; a request that fails leaves a retry behind until one lands.     *)
(* The retry task is named after the request that created it.              *)
(***************************************************************************)
EXTENDS Naturals, Sequences, SequencesExt

CONSTANTS Requests,   \* the coroutines that call register(), once each
          None,       \* no retry
          MaxFails    \* bound: attempts that fail

ASSUME RegistrarAssumption == None \notin Requests /\ MaxFails \in Nat

VARIABLES
    manifest,    \* the version of what there is to register
    want,        \* the version each request was made for
    registered,  \* the version Alfred has
    sent,        \* the version the attempt under way sends
    queue,       \* _attempt_lock: who holds it (first) and who waits, in order
    req,         \* where each request is
    ret,         \* where each request's retry task is
    retry,       \* _retry
    victim,      \* the retry a request's stop() cancelled and awaits
    cancelled,   \* the retries asked to cancel
    stopper,     \* shutdown's stop(): "none", "waiting", "stopped"
    fails        \* how many of MaxFails have happened

vars == <<manifest, want, registered, sent, queue, req, ret, retry, victim,
          cancelled, stopper, fails>>

Pending == {"sleep", "lock", "attempt"}           \* a retry that has not landed
InFlight == {"lock", "attempt", "letting", "hook"} \* a request that has not ended

Init ==
    /\ manifest = 0
    /\ want = [r \in Requests |-> 0]
    /\ registered = 0
    /\ sent = 0
    /\ queue = <<>>
    /\ req = [r \in Requests |-> "idle"]
    /\ ret = [r \in Requests |-> "none"]
    /\ retry = None
    /\ victim = [r \in Requests |-> None]
    /\ cancelled = {}
    /\ stopper = "none"
    /\ fails = 0

-----------------------------------------------------------------------------
(* Attempts, one at a time in the order asked for                          *)

\* A cancelled task gives up its place in the queue, if it has one.
Leaves(t) ==
    IF t \in Range(queue)
    THEN \E i \in DOMAIN queue : queue[i] = t /\ queue' = RemoveAt(queue, i)
    ELSE UNCHANGED queue

\* An attempt cancelled while it runs may have reached Alfred.
MayHaveLanded(running) ==
    registered' \in IF running THEN {registered, sent} ELSE {registered}

\* The lock is acquired and client.register() sends the current manifest.
Begins(t) == queue # <<>> /\ Head(queue) = t /\ sent' = manifest

Fails == fails < MaxFails /\ fails' = fails + 1

-----------------------------------------------------------------------------
(* register()                                                              *)

\* There is something new to register: the tool index was rebuilt first.
Rebuilt == manifest' = manifest + 1

Request(r) ==
    /\ stopper = "none"
    /\ req[r] = "idle"
    /\ Rebuilt
    /\ want' = [want EXCEPT ![r] = manifest + 1]
    /\ req' = [req EXCEPT ![r] = "lock"]
    /\ queue' = Append(queue, <<"request", r>>)
    /\ UNCHANGED <<registered, sent, ret, retry, victim, cancelled, stopper, fails>>

RequestBegins(r) ==
    /\ req[r] = "lock"
    /\ Begins(<<"request", r>>)
    /\ req' = [req EXCEPT ![r] = "attempt"]
    /\ UNCHANGED <<manifest, want, registered, queue, ret, retry, victim,
                   cancelled, stopper, fails>>

\* Slip: the retry is forgotten and never asked to cancel.
LetGo_NotCancelled == retry' = None /\ UNCHANGED cancelled

\* stop() up to its await: the retry is forgotten and asked to cancel.
LetGo == cancelled' = cancelled \cup ({retry} \ {None}) /\ retry' = None

\* It lands: a pending retry has nothing left to do.
RequestLands(r) ==
    /\ req[r] = "attempt"
    /\ registered' = sent
    /\ queue' = Tail(queue)
    /\ victim' = [victim EXCEPT ![r] = retry]
    /\ LetGo
    /\ req' = [req EXCEPT ![r] = "letting"]
    /\ UNCHANGED <<manifest, want, sent, ret, stopper, fails>>

\* A retry is created unless one is tracked and still runs.
Schedule(r) ==
    IF retry = None \/ ret[retry] = "ended"
    THEN retry' = r /\ ret' = [ret EXCEPT ![r] = "sleep"]
    ELSE UNCHANGED <<retry, ret>>

RequestFails(r) ==
    /\ req[r] = "attempt"
    /\ Fails
    /\ queue' = Tail(queue)
    /\ Schedule(r)
    /\ req' = [req EXCEPT ![r] = "failed"]
    /\ UNCHANGED <<manifest, want, registered, sent, victim, cancelled, stopper>>

\* Slip: stop() does not wait for the retry it cancelled.
Ended_NotAwaited(v) == TRUE

Ended(v) == v # None => ret[v] = "ended"

\* The cancelled retry has ended: on_registered is awaited.
RequestLetsGo(r) ==
    /\ req[r] = "letting"
    /\ Ended(victim[r])
    /\ req' = [req EXCEPT ![r] = "hook"]
    /\ UNCHANGED <<manifest, want, registered, sent, queue, ret, retry, victim,
                   cancelled, stopper, fails>>

RequestDone(r) ==
    /\ req[r] = "hook"
    /\ req' = [req EXCEPT ![r] = "done"]
    /\ UNCHANGED <<manifest, want, registered, sent, queue, ret, retry, victim,
                   cancelled, stopper, fails>>

\* The connect or registry listener that asked is cancelled.  One that awaits
\* its victim raises once that has ended.
CancelRequest(r) ==
    /\ req[r] \in InFlight
    /\ req[r] = "letting" => Ended(victim[r])
    /\ MayHaveLanded(req[r] = "attempt")
    /\ Leaves(<<"request", r>>)
    /\ req' = [req EXCEPT ![r] = "cancelled"]
    /\ UNCHANGED <<manifest, want, sent, ret, retry, victim, cancelled, stopper, fails>>

-----------------------------------------------------------------------------
(* _retry_until_registered                                                 *)

RetryWakes(r) ==
    /\ ret[r] = "sleep"
    /\ r \notin cancelled
    /\ ret' = [ret EXCEPT ![r] = "lock"]
    /\ queue' = Append(queue, <<"retry", r>>)
    /\ UNCHANGED <<manifest, want, registered, sent, req, retry, victim,
                   cancelled, stopper, fails>>

RetryBegins(r) ==
    /\ ret[r] = "lock"
    /\ r \notin cancelled
    /\ Begins(<<"retry", r>>)
    /\ ret' = [ret EXCEPT ![r] = "attempt"]
    /\ UNCHANGED <<manifest, want, registered, queue, req, retry, victim,
                   cancelled, stopper, fails>>

\* Slip: the retry stays tracked while its hook runs.
RetryLands_Tracked(r) ==
    /\ ret[r] = "attempt"
    /\ r \notin cancelled
    /\ registered' = sent
    /\ queue' = Tail(queue)
    /\ ret' = [ret EXCEPT ![r] = "hook"]
    /\ UNCHANGED <<manifest, want, sent, req, retry, victim, cancelled, stopper, fails>>

\* It lands, and lets go of itself before the hook.
RetryLands(r) ==
    /\ ret[r] = "attempt"
    /\ r \notin cancelled
    /\ registered' = sent
    /\ queue' = Tail(queue)
    /\ retry' = IF retry = r THEN None ELSE retry
    /\ ret' = [ret EXCEPT ![r] = "hook"]
    /\ UNCHANGED <<manifest, want, sent, req, victim, cancelled, stopper, fails>>

RetryFails(r) ==
    /\ ret[r] = "attempt"
    /\ r \notin cancelled
    /\ Fails
    /\ queue' = Tail(queue)
    /\ ret' = [ret EXCEPT ![r] = "sleep"]
    /\ UNCHANGED <<manifest, want, registered, sent, req, retry, victim, cancelled, stopper>>

RetryDone(r) ==
    /\ ret[r] = "hook"
    /\ r \notin cancelled
    /\ ret' = [ret EXCEPT ![r] = "ended"]
    /\ UNCHANGED <<manifest, want, registered, sent, queue, req, retry, victim,
                   cancelled, stopper, fails>>

\* The cancellation stop() asked for reaches the retry.
RetryUnwinds(r) ==
    /\ r \in cancelled
    /\ ret[r] \in Pending \cup {"hook"}
    /\ MayHaveLanded(ret[r] = "attempt")
    /\ Leaves(<<"retry", r>>)
    /\ ret' = [ret EXCEPT ![r] = "ended"]
    /\ UNCHANGED <<manifest, want, sent, req, retry, victim, cancelled, stopper, fails>>

-----------------------------------------------------------------------------
(* Shutdown                                                                *)

\* Nothing asks to register any more: Home Assistant was stopped first.
Stop ==
    /\ stopper = "none"
    /\ \A r \in Requests : req[r] \notin InFlight
    /\ stopper' = "waiting"
    /\ LetGo
    /\ UNCHANGED <<manifest, want, registered, sent, queue, req, ret, victim, fails>>

Stopped ==
    /\ stopper = "waiting"
    /\ \A r \in cancelled : Ended(r)
    /\ stopper' = "stopped"
    /\ UNCHANGED <<manifest, want, registered, sent, queue, req, ret, retry, victim,
                   cancelled, fails>>

-----------------------------------------------------------------------------

RequestStep(r) == RequestBegins(r) \/ RequestLands(r) \/ RequestLetsGo(r) \/ RequestDone(r)

RetryStep(r) == \/ RetryWakes(r) \/ RetryBegins(r) \/ RetryLands(r) \/ RetryDone(r)
                \/ RetryUnwinds(r)

Next ==
    \/ \E r \in Requests :
        \/ Request(r) \/ RequestStep(r) \/ RequestFails(r) \/ CancelRequest(r)
        \/ RetryStep(r) \/ RetryFails(r)
    \/ Stop \/ Stopped

Spec == Init /\ [][Next]_vars

\* The event loop runs what is ready, and Redis answers.
Fairness ==
    /\ \A r \in Requests : WF_vars(RequestStep(r)) /\ WF_vars(RetryStep(r))
    /\ WF_vars(Stopped)

FairSpec == Spec /\ Fairness

-----------------------------------------------------------------------------
(* Properties                                                              *)

\* Every variable holds a value of its kind; Alfred never has a version that
\* was not there to register.
TypeOK ==
    /\ manifest \in Nat
    /\ want \in [Requests -> 0..manifest]
    /\ registered \in 0..manifest
    /\ sent \in 0..manifest
    /\ queue \in Seq({"request", "retry"} \X Requests)
    /\ req \in [Requests -> InFlight \cup {"idle", "failed", "done", "cancelled"}]
    /\ ret \in [Requests -> Pending \cup {"none", "hook", "ended"}]
    /\ retry \in Requests \cup {None}
    /\ victim \in [Requests -> Requests \cup {None}]
    /\ cancelled \subseteq Requests
    /\ stopper \in {"none", "waiting", "stopped"}
    /\ fails \in 0..MaxFails

Tracked == retry # None /\ retry \notin cancelled /\ ret[retry] \in Pending

\* A request that failed is not forgotten: what it asked for is registered, or
\* a retry that nobody has cancelled is still to attempt it.  Neither an older
\* request's success, which cancels the retry, nor a retry that landed and is
\* still in its hook takes the newer request's retry away.
NothingForgotten ==
    stopper = "none" =>
        \A r \in Requests : req[r] = "failed" => registered >= want[r] \/ Tracked

\* A retry that may still attempt is the one _retry names: the next success or
\* shutdown reaches it.
RetryIsTracked ==
    \A r \in Requests : ret[r] \in Pending /\ r \notin cancelled => retry = r

\* After shutdown's stop() no retry attempts a registration any more.
StopsClean == stopper = "stopped" => \A r \in Requests : ret[r] \notin Pending

\* What a failed request asked for is registered in the end, once attempts stop
\* failing, unless the service shuts down.
Registers ==
    \A r \in Requests : req[r] = "failed" ~> registered >= want[r] \/ stopper # "none"

-----------------------------------------------------------------------------
(* The inductive invariant behind the safety properties                    *)

\* Only a failed request has a retry task, only retry tasks are cancelled, and
\* the one _retry names has not been cancelled and has not landed.
TaskInv ==
    /\ \A r \in Requests : req[r] # "failed" => ret[r] = "none"
    /\ \A r \in cancelled : ret[r] # "none"
    /\ retry # None => retry \notin cancelled /\ ret[retry] \in Pending

\* Whoever attempts holds the lock.
LockInv ==
    \A r \in Requests :
        /\ req[r] = "attempt" => queue # <<>> /\ Head(queue) = <<"request", r>>
        /\ ret[r] = "attempt" => queue # <<>> /\ Head(queue) = <<"retry", r>>

Attempting == \E r \in Requests : req[r] = "attempt" \/ ret[r] = "attempt"

\* An attempt sends at least what every request that failed before it wanted,
\* and nothing older than what Alfred has.
AttemptInv ==
    Attempting =>
        /\ registered <= sent
        /\ \A r \in Requests : req[r] = "failed" => want[r] <= sent

\* From shutdown's stop() on nothing is scheduled, and its return waits for
\* every retry that was cancelled.
StopInv ==
    /\ stopper # "none" => retry = None /\ \A r \in Requests : req[r] \notin InFlight
    /\ stopper = "stopped" => \A r \in cancelled : ret[r] = "ended"

Inductive ==
    /\ TypeOK /\ TaskInv /\ LockInv /\ AttemptInv /\ StopInv
    /\ NothingForgotten /\ RetryIsTracked /\ StopsClean
=============================================================================
