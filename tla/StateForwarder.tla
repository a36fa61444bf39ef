--------------------------- MODULE StateForwarder ---------------------------
(***************************************************************************)
(* Forwarding every state change to MQTT (src/app/state_forwarder.py): a   *)
(* bounded queue between the WebSocket reader and the publish loop, and    *)
(* the message in flight, which survives a reconnect.  Events are numbered *)
(* as Home Assistant reports them; one that removes its entity is skipped  *)
(* by build_event and has no number.                                       *)
(***************************************************************************)
EXTENDS Naturals, Sequences, Functions

CONSTANTS QueueSize,   \* queue_size
          MaxEvents,   \* bound: state events
          MaxFaults    \* bound: MqttErrors

ASSUME ForwarderAssumption ==
    /\ QueueSize \in Nat \ {0}
    /\ MaxEvents \in Nat
    /\ MaxFaults \in Nat

VARIABLES
    made,      \* how many events there have been
    queue,     \* _queue
    inflight,  \* inflight, 0 for None
    loop,      \* _publish_loop: "off", "connect", "get", "publish", "backoff",
               \* "dead", "stopped"
    sent,      \* what MQTT has been handed, in order
    refused,   \* the events dropped because the queue was full
    faults     \* how many of MaxFaults have happened

vars == <<made, queue, inflight, loop, sent, refused, faults>>

Init ==
    /\ made = 0
    /\ queue = <<>>
    /\ inflight = 0
    /\ loop = "off"
    /\ sent = <<>>
    /\ refused = {}
    /\ faults = 0

-----------------------------------------------------------------------------
(* The state listener                                                      *)

\* put_nowait: a full queue drops the new event.
Offer(n) ==
    \/ /\ Len(queue) < QueueSize
       /\ queue' = Append(queue, n)
       /\ UNCHANGED refused
    \/ /\ Len(queue) = QueueSize
       /\ refused' = refused \cup {n}
       /\ UNCHANGED queue

\* The lifespan starts the loop before anything can connect.
OnStateChanged ==
    /\ loop # "off"
    /\ made < MaxEvents
    /\ made' = made + 1
    /\ Offer(made')
    /\ UNCHANGED <<inflight, loop, sent, faults>>

-----------------------------------------------------------------------------
(* _publish_loop                                                           *)

LoopGoes(from, to) == loop = from /\ loop' = to

Start ==
    /\ LoopGoes("off", "connect")
    /\ UNCHANGED <<made, queue, inflight, sent, refused, faults>>

\* Slip: after a reconnect the loop asks the queue first.
Connected_Gets ==
    /\ LoopGoes("connect", "get")
    /\ UNCHANGED <<made, queue, inflight, sent, refused, faults>>

\* What was in flight when the last connection failed goes first.
Connected ==
    /\ LoopGoes("connect", IF inflight = 0 THEN "get" ELSE "publish")
    /\ UNCHANGED <<made, queue, inflight, sent, refused, faults>>

Get ==
    /\ LoopGoes("get", "publish")
    /\ queue # <<>>
    /\ inflight' = Head(queue)
    /\ queue' = Tail(queue)
    /\ UNCHANGED <<made, sent, refused, faults>>

Hand == sent' = Append(sent, inflight)

Published ==
    /\ LoopGoes("publish", "get")
    /\ Hand
    /\ inflight' = 0
    /\ UNCHANGED <<made, queue, refused, faults>>

\* Slip: what was in flight goes back to the queue after a failed publish.
MqttError_Requeues ==
    /\ faults < MaxFaults
    /\ faults' = faults + 1
    /\ \/ LoopGoes("connect", "backoff") /\ UNCHANGED <<sent, queue, inflight>>
       \/ /\ LoopGoes("publish", "backoff")
          /\ queue' = Append(queue, inflight)
          /\ inflight' = 0
          /\ Hand \/ UNCHANGED sent
    /\ UNCHANGED <<made, refused>>

\* An MqttError: from the connect, or from a publish, which may have got through.
MqttError ==
    /\ faults < MaxFaults
    /\ faults' = faults + 1
    /\ \/ LoopGoes("connect", "backoff") /\ UNCHANGED sent
       \/ LoopGoes("publish", "backoff") /\ (Hand \/ UNCHANGED sent)
    /\ UNCHANGED <<made, queue, inflight, refused>>

\* Slip: every connection starts with nothing in flight.
Retry_StartsAfresh ==
    /\ LoopGoes("backoff", "connect")
    /\ inflight' = 0
    /\ UNCHANGED <<made, queue, sent, refused, faults>>

Retry ==
    /\ LoopGoes("backoff", "connect")
    /\ UNCHANGED <<made, queue, inflight, sent, refused, faults>>

\* The task ends: what was in flight goes with it, published or not.
Ends(to) ==
    /\ loop' = to
    /\ (loop = "publish" /\ Hand) \/ UNCHANGED sent
    /\ inflight' = 0
    /\ UNCHANGED <<made, queue, refused, faults>>

\* Any other exception ends the task, and nothing starts another.
Die == loop \in {"connect", "publish"} /\ Ends("dead")

\* Shutdown.  Home Assistant is stopped next: it may still report events.
Stop == loop \notin {"off", "stopped"} /\ Ends("stopped")

-----------------------------------------------------------------------------

Loop == Connected \/ Get \/ Published \/ Retry

Next == OnStateChanged \/ Start \/ Loop \/ MqttError \/ Die \/ Stop

Spec == Init /\ [][Next]_vars

\* The event loop runs what is ready, and a connect or a publish ends.
FairSpec == Spec /\ WF_vars(Loop)

-----------------------------------------------------------------------------
(* Properties                                                              *)

\* Every variable holds a value of its kind, and no event number is made up.
TypeOK ==
    /\ made \in 0..MaxEvents
    /\ queue \in Seq(1..made)
    /\ Len(queue) <= QueueSize
    /\ inflight \in 0..made
    /\ loop \in {"off", "connect", "get", "publish", "backoff", "dead", "stopped"}
    /\ sent \in Seq(1..made)
    /\ refused \subseteq 1..made
    /\ faults \in 0..MaxFaults

\* Nobody downstream sees a newer state before an older one, whatever was
\* retried or dropped in between: an event may be repeated, never overtaken.
InOrder ==
    \A i, j \in DOMAIN sent : i < j => sent[i] <= sent[j]

Held == Range(queue) \cup {inflight}
Handed == Range(sent)

\* While the loop runs nothing is lost on the way: every event was published,
\* is waiting, is in flight, or was refused by a full queue, whatever fails.
NothingLost ==
    loop \notin {"dead", "stopped"} => 1..made \subseteq Handed \cup Held \cup refused

\* Everything the queue took is published in the end, once MQTT stops failing,
\* unless the loop has ended.
Forwards ==
    \A n \in 1..MaxEvents :
        n <= made /\ n \notin refused ~> (n \in Handed \/ loop \in {"dead", "stopped"})

-----------------------------------------------------------------------------
(* The inductive invariant behind the safety properties                    *)

\* A message is in flight exactly when the loop has one to publish.
FlightInv ==
    /\ loop \in {"off", "get"} => inflight = 0
    /\ loop = "publish" => inflight # 0

\* The events on their way are in order: published, in flight, waiting.
LineInv ==
    /\ \A i, j \in DOMAIN queue : i < j => queue[i] < queue[j]
    /\ \A i \in DOMAIN queue : inflight < queue[i]
    /\ \A i \in DOMAIN sent : inflight # 0 => sent[i] <= inflight
    /\ \A i \in DOMAIN sent : \A j \in DOMAIN queue : sent[i] < queue[j]

Inductive == TypeOK /\ FlightInv /\ LineInv /\ InOrder /\ NothingLost
=============================================================================
