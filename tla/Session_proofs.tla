--------------------------- MODULE Session_proofs ---------------------------
(***************************************************************************)
(* What Session promises for any number of callers, WebSockets and         *)
(* commands: a service call goes out only on an authenticated WebSocket,   *)
(* and whoever waits for an answer waits on the WebSocket that is there.   *)
(***************************************************************************)
EXTENDS Session, TLAPS

\* A command has its four fields.
CommandInv == \A t \in DOMAIN cmd : DOMAIN cmd[t] = {"id", "what", "on", "answer"}

\* What needs no more than where the WebSocket is.
Linked == SocketInv /\ CommandInv /\ CallsAuthenticated /\ FailsFast

-----------------------------------------------------------------------------
(* What the operators on commands do                                       *)

\* A new command is open, on the current WebSocket; the others are as before.
LEMMA SendFacts ==
  ASSUME NEW t, NEW what, Send(t, what)
  PROVE  /\ DOMAIN cmd' = DOMAIN cmd \cup {t}
         /\ cmd'[t].on = ws
         /\ DOMAIN cmd'[t] = {"id", "what", "on", "answer"}
         /\ \A u \in DOMAIN cmd \ {t} : cmd'[u] = cmd[u]
         /\ \A r \in out' : r \in out \/ r.by = t
<1>1. /\ DOMAIN cmd' = DOMAIN cmd \cup {t}
      /\ cmd'[t] = [id |-> FreshId, what |-> what, on |-> ws, answer |-> Nothing]
      /\ \A u \in DOMAIN cmd \ {t} : cmd'[u] = cmd[u]
  BY DEF Send, With
<1>2. out' = out \cup {[id |-> FreshId, by |-> t, what |-> what]}
  BY DEF Send
<1>3. cmd'[t].on = ws /\ DOMAIN cmd'[t] = {"id", "what", "on", "answer"}
  BY <1>1
<1>4. \A r \in out' : r \in out \/ r.by = t
  BY <1>2
<1>5. QED
  BY <1>1, <1>3, <1>4

\* A command that is over is gone; the others are as before.
LEMMA ForgetFacts ==
  ASSUME NEW t, Forget(t)
  PROVE  /\ DOMAIN cmd' = DOMAIN cmd \ {t}
         /\ \A u \in DOMAIN cmd \ {t} : cmd'[u] = cmd[u]
BY DEF Forget, Without, Restrict

\* A connection that ends leaves no command open.
LEMMA FailPendingFacts ==
  ASSUME CommandInv, NEW ended, FailPending(ended)
  PROVE  /\ DOMAIN cmd' = DOMAIN cmd \ ended
         /\ \A u \in DOMAIN cmd' : cmd'[u].answer # Nothing
         /\ CommandInv'
BY DEF CommandInv, FailPending, Answered, Lost, Nothing

-----------------------------------------------------------------------------
(* The WebSocket                                                           *)

\* Nothing is open, and nothing is on its way.
LEMMA LinkedInit == Init => Linked
BY DEF Init, Linked, SocketInv, CommandInv, CallsAuthenticated, FailsFast, Waits

\* The steps of the run task, and new credentials.
LEMMA RunKeeps ==
  ASSUME Linked, RunStep \/ Swap
  PROVE  Linked'
<1>1. SocketInv /\ CommandInv /\ CallsAuthenticated /\ FailsFast
  BY DEF Linked
<1>2. CASE Connect \/ HandshakeFails \/ Break \/ Unreachable
  BY <1>1, <1>2 DEF Connect, HandshakeFails, Break, Unreachable, WireGone, cmdVars, wireVars,
     Linked, SocketInv, CommandInv, CallsAuthenticated, FailsFast, Waits, Answered
<1>3. CASE AuthOk
  <2>1. /\ DOMAIN cmd' = DOMAIN cmd \cup {"setup"}
        /\ cmd'["setup"].on = ws
        /\ DOMAIN cmd'["setup"] = {"id", "what", "on", "answer"}
        /\ \A u \in DOMAIN cmd \ {"setup"} : cmd'[u] = cmd[u]
    BY <1>3, SendFacts DEF AuthOk
  <2>2. link = "greet" /\ link' = "open" /\ ws' = ws /\ connected' = connected
    BY <1>3 DEF AuthOk
  <2>3. QED
    BY <1>1, <2>1, <2>2 DEF Linked, SocketInv, CommandInv, CallsAuthenticated, FailsFast,
       Waits, Answered
<1>4. CASE ReaderLeaves
  <2>1. /\ DOMAIN cmd' = DOMAIN cmd \ {"setup"}
        /\ \A u \in DOMAIN cmd' : cmd'[u].answer # Nothing
        /\ CommandInv'
    BY <1>1, <1>4, FailPendingFacts DEF ReaderLeaves
  <2>2. link = "broken" /\ link' = "left" /\ out' = out /\ connected' = connected
    BY <1>4 DEF ReaderLeaves, wireVars
  <2>3. QED
    BY <1>1, <2>1, <2>2 DEF Linked, SocketInv, CallsAuthenticated, FailsFast, Waits, Answered
<1>5. CASE Swap
  <2>1. link' = "down" /\ out' = {} /\ connected' = FALSE
    BY <1>5 DEF Swap, WireGone
  <2>2. CASE link \in {"open", "broken"}
    <3>1. FailPending({"setup", "refresh"})
      BY <1>5, <2>2 DEF Swap
    <3>2. /\ DOMAIN cmd' = DOMAIN cmd \ {"setup", "refresh"}
          /\ \A u \in DOMAIN cmd' : cmd'[u].answer # Nothing
          /\ CommandInv'
      BY <1>1, <3>1, FailPendingFacts
    <3>3. QED
      BY <2>1, <3>2 DEF Linked, SocketInv, CallsAuthenticated, FailsFast, Waits, Answered
  <2>3. CASE link \notin {"open", "broken"}
    <3>1. /\ DOMAIN cmd' = DOMAIN cmd \ {"refresh"}
          /\ \A u \in DOMAIN cmd \ {"refresh"} : cmd'[u] = cmd[u]
      BY <1>5, <2>3, ForgetFacts DEF Swap
    <3>2. QED
      BY <1>1, <2>1, <2>3, <3>1 DEF Linked, SocketInv, CommandInv, CallsAuthenticated,
         FailsFast, Waits, Answered
  <2>4. QED
    BY <2>2, <2>3
<1>6. QED
  BY <1>2, <1>3, <1>4, <1>5 DEF RunStep

\* Home Assistant answers, and the reader reads.
LEMMA ReaderKeeps ==
  ASSUME Linked,
         \/ \E r \in out : Answers(r)
         \/ \E who \in Users \cup {None} : Changes(who)
         \/ HandleResult \/ HandleStateChanged
  PROVE  Linked'
<1>1. SocketInv /\ CommandInv /\ CallsAuthenticated /\ FailsFast
  BY DEF Linked
<1>2. CASE \E r \in out : Answers(r)
  BY <1>1, <1>2 DEF Answers, connVars, cmdVars, Linked, SocketInv, CommandInv,
     CallsAuthenticated, FailsFast, Waits, Answered
<1>3. CASE (\E who \in Users \cup {None} : Changes(who)) \/ HandleStateChanged
  <2>1. UNCHANGED <<link, ws, connected, out, cmd>>
    BY <1>3 DEF Changes, HandleStateChanged, Reads, connVars, cmdVars
  <2>2. QED
    BY <1>1, <2>1 DEF Linked, SocketInv, CommandInv, CallsAuthenticated, FailsFast, Waits,
       Answered
<1>4. CASE HandleResult
  <2>1. UNCHANGED <<link, ws, connected, out>>
    BY <1>4 DEF HandleResult, Reads, connVars
  <2>2. DOMAIN cmd' = DOMAIN cmd
    BY <1>4 DEF HandleResult
  <2>3. ASSUME NEW t \in DOMAIN cmd
        PROVE  /\ DOMAIN cmd'[t] = DOMAIN cmd[t]
               /\ cmd'[t].on = cmd[t].on
               /\ cmd'[t].answer = Nothing => cmd[t].answer = Nothing
    <3>1. DOMAIN cmd[t] = {"id", "what", "on", "answer"}
      BY <1>1 DEF CommandInv
    <3>2. cmd'[t] = IF t \in AnswersTo(Head(inbox))
                    THEN [cmd[t] EXCEPT !.answer = Head(inbox)] ELSE cmd[t]
      BY <1>4 DEF HandleResult
    <3>3. t \in AnswersTo(Head(inbox)) => cmd[t].answer = Nothing
      BY DEF AnswersTo, Answered
    <3>4. QED
      BY <3>1, <3>2, <3>3
  <2>4. QED
    BY <1>1, <2>1, <2>2, <2>3 DEF Linked, SocketInv, CommandInv, CallsAuthenticated,
       FailsFast, Waits, Answered
<1>5. QED
  BY <1>2, <1>3, <1>4

\* The tasks that send commands.
LEMMA TasksKeep ==
  ASSUME Linked,
         \/ SetupStep \/ RefreshAsks
         \/ \E c \in Callers : CallService(c) \/ CallRefused(c)
         \/ \E t \in Waiting : CommandEnds(t)
  PROVE  Linked'
<1>1. SocketInv /\ CommandInv /\ CallsAuthenticated /\ FailsFast
  BY DEF Linked
<1>2. CASE SetupGoesOn
  <2>1. PICK what : Send("setup", what)
    BY <1>2 DEF SetupGoesOn
  <2>2. link = "open" /\ UNCHANGED <<link, ws, connected>>
    BY <1>2 DEF SetupGoesOn, connVars
  <2>3. /\ DOMAIN cmd' = DOMAIN cmd \cup {"setup"}
        /\ cmd'["setup"].on = ws
        /\ DOMAIN cmd'["setup"] = {"id", "what", "on", "answer"}
        /\ \A u \in DOMAIN cmd \ {"setup"} : cmd'[u] = cmd[u]
        /\ \A r \in out' : r \in out \/ r.by = "setup"
    BY <2>1, SendFacts
  <2>4. QED
    BY <1>1, <2>1, <2>2, <2>3 DEF Linked, SocketInv, CommandInv, CallsAuthenticated,
       FailsFast, Waits, Answered
<1>3. CASE SetupConnected
  <2>1. Waits("setup") /\ connected' = TRUE /\ UNCHANGED <<link, ws, out>> /\ Forget("setup")
    BY <1>3 DEF SetupConnected, wireVars
  <2>2. QED
    BY <1>1, <2>1, ForgetFacts DEF Linked, SocketInv, CommandInv, CallsAuthenticated,
       FailsFast, Waits, Answered
<1>4. CASE SetupFails
  <2>1. link' = "broken" /\ out' = {} /\ UNCHANGED <<ws, connected>> /\ Forget("setup")
    BY <1>4 DEF SetupFails, WireGone
  <2>2. Waits("setup")
    BY <1>4 DEF SetupFails
  <2>3. QED
    BY <1>1, <2>1, <2>2, ForgetFacts DEF Linked, SocketInv, CommandInv, CallsAuthenticated,
       FailsFast, Waits, Answered
<1>5. CASE RefreshAsks
  <2>1. Send("refresh", "registries") /\ link \in {"greet", "open"}
    BY <1>5 DEF RefreshAsks, CanSend
  <2>2. UNCHANGED <<link, ws, connected>>
    BY <1>5 DEF RefreshAsks, connVars
  <2>3. "refresh" \notin Callers
    BY SessionAssumption
  <2>4. /\ DOMAIN cmd' = DOMAIN cmd \cup {"refresh"}
        /\ cmd'["refresh"].on = ws
        /\ DOMAIN cmd'["refresh"] = {"id", "what", "on", "answer"}
        /\ \A u \in DOMAIN cmd \ {"refresh"} : cmd'[u] = cmd[u]
        /\ \A r \in out' : r \in out \/ r.by = "refresh"
    BY <2>1, SendFacts
  <2>5. QED
    BY <1>1, <2>1, <2>2, <2>3, <2>4 DEF Linked, SocketInv, CommandInv,
       CallsAuthenticated, FailsFast, Waits, Answered
<1>6. ASSUME NEW c \in Callers, CallService(c) PROVE Linked'
  <2>1. Send(c, "call") /\ connected /\ link \in {"greet", "open"}
    BY <1>6 DEF CallService, MayCall, CanSend
  <2>2. UNCHANGED <<link, ws, connected>>
    BY <1>6 DEF CallService, callFrame, connVars
  <2>3. c # "refresh" /\ c # "setup"
    BY SessionAssumption
  <2>4. link = "open"
    BY <1>1, <2>1 DEF SocketInv
  <2>5. /\ DOMAIN cmd' = DOMAIN cmd \cup {c}
        /\ cmd'[c].on = ws
        /\ DOMAIN cmd'[c] = {"id", "what", "on", "answer"}
        /\ \A u \in DOMAIN cmd \ {c} : cmd'[u] = cmd[u]
        /\ \A r \in out' : r \in out \/ r.by = c
    BY <2>1, SendFacts
  <2>6. QED
    BY <1>1, <2>1, <2>2, <2>3, <2>4, <2>5 DEF Linked, SocketInv, CommandInv,
       CallsAuthenticated, FailsFast, Waits, Answered
<1>7. ASSUME NEW c \in Callers, CallRefused(c) PROVE Linked'
  BY <1>1, <1>7 DEF CallRefused, callFrame, connVars, cmdVars, Linked, SocketInv, CommandInv,
     CallsAuthenticated, FailsFast, Waits, Answered
<1>8. ASSUME NEW t \in Waiting, CommandEnds(t) PROVE Linked'
  <2>1. Forget(t) /\ UNCHANGED <<link, ws, connected, out>>
    BY <1>8 DEF CommandEnds, callFrame, connVars
  <2>2. QED
    BY <1>1, <2>1, ForgetFacts DEF Linked, SocketInv, CommandInv, CallsAuthenticated,
       FailsFast, Waits, Answered
<1>9. QED
  BY <1>2, <1>3, <1>4, <1>5, <1>6, <1>7, <1>8 DEF SetupStep

\* Every step keeps it.
LEMMA LinkedNext == Linked /\ [Next]_vars => Linked'
<1> SUFFICES ASSUME Linked, [Next]_vars PROVE Linked'
  OBVIOUS
<1>1. CASE UNCHANGED vars
  BY <1>1 DEF vars, connVars, cmdVars, wireVars, Linked, SocketInv, CommandInv,
     CallsAuthenticated, FailsFast, Waits, Answered
<1>2. CASE Next
  BY <1>2, RunKeeps, ReaderKeeps, TasksKeep DEF Next
<1>3. QED
  BY <1>1, <1>2

-----------------------------------------------------------------------------
(* What the steps do                                                       *)

\* The reader's queue, as a sequence.
LEMMA InboxFacts ==
  ASSUME TypeOK
  PROVE  /\ Len(inbox) \in Nat /\ DOMAIN inbox = 1..Len(inbox)
         /\ \A i \in DOMAIN inbox : inbox[i] \in Results \cup Events
  BY DEF TypeOK

\* What is left to read once a frame is read.
LEMMA TailFacts ==
  ASSUME TypeOK, inbox # <<>>
  PROVE  /\ Tail(inbox) \in Seq(Results \cup Events)
         /\ Head(inbox) = inbox[1] /\ 1 \in DOMAIN inbox
         /\ DOMAIN Tail(inbox) = 1..(Len(inbox) - 1)
         /\ \A i \in DOMAIN Tail(inbox) : i + 1 \in DOMAIN inbox /\ Tail(inbox)[i] = inbox[i + 1]
<1>1. inbox \in Seq(Results \cup Events)
  BY DEF TypeOK
<1>2. QED
  BY <1>1

\* A frame that comes in stands behind the others.
LEMMA AppendFacts ==
  ASSUME TypeOK, NEW f \in Results \cup Events
  PROVE  /\ Append(inbox, f) \in Seq(Results \cup Events)
         /\ DOMAIN Append(inbox, f) = 1..(Len(inbox) + 1)
         /\ Append(inbox, f)[Len(inbox) + 1] = f
         /\ \A i \in DOMAIN inbox : Append(inbox, f)[i] = inbox[i]
<1>1. inbox \in Seq(Results \cup Events)
  BY DEF TypeOK
<1>2. QED
  BY <1>1

\* A result and an event are told apart by their kind; an answer is none of the
\* two that are not results.
LEMMA Kinds ==
  /\ \A f \in Results : f.kind = "result" /\ f # Nothing /\ f # Lost
  /\ \A f \in Events : f.kind = "event"
  /\ Nothing # Lost
<1>1. ASSUME NEW f \in Results PROVE f.kind = "result" /\ f # Nothing /\ f # Lost
  <2>1. f.kind = "result"
    BY DEF Results
  <2>2. Nothing.kind = "nothing" /\ Lost.kind = "lost"
    BY DEF Nothing, Lost
  <2>3. QED
    BY <2>1, <2>2
<1>2. Nothing # Lost
  BY DEF Nothing, Lost
<1>3. QED
  BY <1>1, <1>2 DEF Events

\* A command goes out with an id that nothing has.
Sends(t, what, id) ==
    /\ DOMAIN cmd' = DOMAIN cmd \cup {t}
    /\ cmd'[t] = [id |-> id, what |-> what, on |-> ws, answer |-> Nothing]
    /\ \A u \in DOMAIN cmd \ {t} : cmd'[u] = cmd[u]
    /\ out' = out \cup {[id |-> id, by |-> t, what |-> what]}
    /\ DOMAIN pending' = (DOMAIN pending \ Own(t)) \cup {id}
    /\ pending'[id] = t
    /\ \A i \in DOMAIN pending \ Own(t) : i # id => pending'[i] = pending[i]
    /\ \A u \in DOMAIN cmd : cmd[u].id # id
    /\ \A r \in out : r.id # id
    /\ \A i \in DOMAIN inbox : inbox[i].kind = "result" => inbox[i].to.id # id

\* A command that is sent has an id nothing under way uses.
LEMMA SendEffect ==
  ASSUME NEW t, NEW what, Send(t, what)
  PROVE  \E id \in Nat : Sends(t, what, id)
<1>1. FreshId \in 1..MaxIds /\ FreshId \notin Used
  BY DEF Send, FreshId
<1>2. FreshId \in Nat
  BY <1>1
<1>3. \A u \in DOMAIN cmd : cmd[u].id # FreshId
  BY <1>1 DEF Used
<1>4. \A r \in out : r.id # FreshId
  BY <1>1 DEF Used, OnTheWire
<1>5. ASSUME NEW i \in DOMAIN inbox, inbox[i].kind = "result" PROVE inbox[i].to.id # FreshId
  <2>1. inbox[i] \in {g \in ToSet(inbox) : g.kind = "result"}
    BY <1>5 DEF ToSet
  <2>2. inbox[i].to.id \in OnTheWire
    BY <2>1 DEF OnTheWire
  <2>3. QED
    BY <1>1, <2>2 DEF Used
<1> DEFINE id == FreshId
<1>6. /\ DOMAIN cmd' = DOMAIN cmd \cup {t}
      /\ cmd'[t] = [id |-> id, what |-> what, on |-> ws, answer |-> Nothing]
      /\ \A u \in DOMAIN cmd \ {t} : cmd'[u] = cmd[u]
      /\ out' = out \cup {[id |-> id, by |-> t, what |-> what]}
  BY DEF Send, With
<1>7. /\ DOMAIN pending' = (DOMAIN pending \ Own(t)) \cup {id}
      /\ pending'[id] = t
      /\ \A i \in DOMAIN pending \ Own(t) : i # id => pending'[i] = pending[i]
  BY DEF Send, With, Without, Restrict
<1> HIDE DEF id
<1>8. QED
  BY <1>2, <1>3, <1>4, <1>5, <1>6, <1>7 DEF id, Sends

\* A command that is over takes its id along.
LEMMA ForgetEffect ==
  ASSUME NEW t, Forget(t)
  PROVE  /\ DOMAIN cmd' = DOMAIN cmd \ {t}
         /\ \A u \in DOMAIN cmd \ {t} : cmd'[u] = cmd[u]
         /\ DOMAIN pending' = DOMAIN pending \ Own(t)
         /\ \A i \in DOMAIN pending' : pending'[i] = pending[i]
  BY DEF Forget, Without, Restrict

\* A lost WebSocket answers every open command with the loss.
LEMMA FailPendingEffect ==
  ASSUME TypeOK, NEW ended, FailPending(ended)
  PROVE  /\ pending' = <<>> /\ DOMAIN pending' = {}
         /\ DOMAIN cmd' = DOMAIN cmd \ ended
         /\ \A u \in DOMAIN cmd' :
               /\ cmd'[u].id = cmd[u].id /\ cmd'[u].what = cmd[u].what /\ cmd'[u].on = cmd[u].on
               /\ cmd'[u] \in Commands
               /\ cmd'[u].answer # Nothing
               /\ cmd'[u].answer = Lost \/ cmd'[u].answer = cmd[u].answer
<1>1. pending' = <<>> /\ DOMAIN pending' = {} /\ DOMAIN cmd' = DOMAIN cmd \ ended
  BY DEF FailPending
<1>2. ASSUME NEW u \in DOMAIN cmd'
      PROVE  /\ cmd'[u].id = cmd[u].id /\ cmd'[u].what = cmd[u].what /\ cmd'[u].on = cmd[u].on
             /\ cmd'[u] \in Commands
             /\ cmd'[u].answer # Nothing
             /\ cmd'[u].answer = Lost \/ cmd'[u].answer = cmd[u].answer
  <2>1. cmd'[u] = IF cmd[u].answer # Nothing THEN cmd[u] ELSE [cmd[u] EXCEPT !.answer = Lost]
    BY <1>1 DEF FailPending, Answered
  <2>2. cmd[u] \in Commands
    BY <1>1 DEF TypeOK
  <2>3. Lost # Nothing
    BY Kinds
  <2>4. QED
    BY <2>1, <2>2, <2>3 DEF Commands
<1>3. QED
  BY <1>1, <1>2

\* The command that is answered was open, and had the id of the answer.
LEMMA ResultEffect ==
  ASSUME TypeOK, HandleResult
  PROVE  /\ inbox # <<>> /\ inbox' = Tail(inbox)
         /\ inbox[1] \in Results /\ Head(inbox) = inbox[1]
         /\ DOMAIN cmd' = DOMAIN cmd
         /\ \A u \in DOMAIN cmd :
               \/ cmd'[u] = cmd[u] /\ u \notin AnswersTo(inbox[1])
               \/ /\ u \in AnswersTo(inbox[1])
                  /\ cmd[u].answer = Nothing
                  /\ inbox[1].to.id \in DOMAIN pending
                  /\ pending[inbox[1].to.id] = u
                  /\ cmd'[u] = [cmd[u] EXCEPT !.answer = inbox[1]]
                  /\ cmd'[u] \in Commands
                  /\ cmd'[u].answer = inbox[1]
                  /\ cmd'[u].id = cmd[u].id /\ cmd'[u].what = cmd[u].what
                  /\ cmd'[u].on = cmd[u].on
         /\ UNCHANGED <<connVars, pending, out, subscribed, user_id, haVars, outcome, refreshes>>
<1>1. /\ inbox # <<>> /\ inbox' = Tail(inbox) /\ Head(inbox).kind = "result"
      /\ UNCHANGED <<connVars, pending, out, subscribed, user_id, haVars, outcome, refreshes>>
  BY DEF HandleResult, Reads
<1>2. Head(inbox) = inbox[1] /\ inbox[1] \in Results
  <2>1. inbox[1] \in Results \cup Events /\ Head(inbox) = inbox[1]
    BY <1>1, TailFacts, InboxFacts
  <2>2. QED
    BY <1>1, <2>1, Kinds
<1>3. DOMAIN cmd' = DOMAIN cmd
  BY DEF HandleResult
<1>4. ASSUME NEW u \in DOMAIN cmd, u \notin AnswersTo(inbox[1]) PROVE cmd'[u] = cmd[u]
  BY <1>2, <1>4 DEF HandleResult
<1>5. ASSUME NEW u \in DOMAIN cmd, u \in AnswersTo(inbox[1])
      PROVE  /\ cmd[u].answer = Nothing
             /\ inbox[1].to.id \in DOMAIN pending
             /\ pending[inbox[1].to.id] = u
             /\ cmd'[u] = [cmd[u] EXCEPT !.answer = inbox[1]]
             /\ cmd'[u] \in Commands
             /\ cmd'[u].answer = inbox[1]
             /\ cmd'[u].id = cmd[u].id /\ cmd'[u].what = cmd[u].what
             /\ cmd'[u].on = cmd[u].on
  <2>1. cmd'[u] = [cmd[u] EXCEPT !.answer = inbox[1]]
    BY <1>2, <1>5 DEF HandleResult
  <2>2. cmd[u] \in Commands
    BY DEF TypeOK
  <2>3. /\ cmd[u].answer = Nothing
        /\ inbox[1].to.id \in DOMAIN pending
        /\ pending[inbox[1].to.id] = u
    BY <1>5 DEF AnswersTo, Answered
  <2>4. QED
    BY <1>2, <2>1, <2>2, <2>3 DEF Commands
<1>6. QED
  BY <1>1, <1>2, <1>3, <1>4, <1>5

-----------------------------------------------------------------------------
(* Types                                                                   *)

\* The commands and the requests keep their types.
CmdType ==
    /\ DOMAIN pending \subseteq Nat /\ \A i \in DOMAIN pending : pending[i] \in Tasks
    /\ DOMAIN cmd \subseteq Tasks /\ \A t \in DOMAIN cmd : cmd[t] \in Commands /\ cmd[t].what \in Asks(t)
    /\ \A r \in out : r \in Requests

\* So do the others.
RestType ==
    /\ link \in {"down", "greet", "open", "broken", "left"}
    /\ sockets \in 0..MaxSockets
    /\ ws \in 0..MaxSockets
    /\ connected \in BOOLEAN
    /\ token \in Users
    /\ user_id \in Users \cup {None}
    /\ outcome \in [Callers -> {"none", "ok", "error", "lost", "timeout", "closed",
                                "not_connected"}]
    /\ states \in 0..MaxChanges
    /\ refreshes \in 0..MaxRefreshes
    /\ inbox \in Seq(Results \cup Events)
    /\ subscribed \in BOOLEAN
    /\ version \in 0..MaxChanges
    /\ executed \subseteq Callers

\* The types of the commands, and of the rest.
LEMMA TypeParts ==
  /\ TypeOK <=> CmdType /\ RestType
  /\ TypeOK' <=> CmdType' /\ RestType'
  BY DEF TypeOK, CmdType, RestType

\* A new command is of its task's kind.
LEMMA SendType ==
  ASSUME TypeOK, NEW t \in Tasks, NEW what \in Asks(t), ws # 0, Send(t, what)
  PROVE  CmdType'
<1>1. PICK id \in Nat :
         /\ DOMAIN cmd' = DOMAIN cmd \cup {t}
         /\ cmd'[t] = [id |-> id, what |-> what, on |-> ws, answer |-> Nothing]
         /\ \A u \in DOMAIN cmd \ {t} : cmd'[u] = cmd[u]
         /\ out' = out \cup {[id |-> id, by |-> t, what |-> what]}
         /\ DOMAIN pending' = (DOMAIN pending \ Own(t)) \cup {id}
         /\ pending'[id] = t
         /\ \A i \in DOMAIN pending \ Own(t) : i # id => pending'[i] = pending[i]
  <2>1. PICK id \in Nat : Sends(t, what, id)
    BY SendEffect
  <2>2. QED
    BY <2>1 DEF Sends
<1>2. what \in Asked
  BY DEF Asked
<1>3. ws \in 1..MaxSockets
  BY SessionAssumption DEF TypeOK
<1>4. cmd'[t] \in Commands /\ cmd'[t].what \in Asks(t)
  BY <1>1, <1>2, <1>3 DEF Commands
<1>5. [id |-> id, by |-> t, what |-> what] \in Requests
  BY <1>2 DEF Requests
<1>6. DOMAIN pending' \subseteq Nat /\ \A i \in DOMAIN pending' : pending'[i] \in Tasks
  BY <1>1 DEF TypeOK
<1>7. DOMAIN cmd' \subseteq Tasks
      /\ \A u \in DOMAIN cmd' : cmd'[u] \in Commands /\ cmd'[u].what \in Asks(u)
  BY <1>1, <1>4 DEF TypeOK
<1>8. \A r \in out' : r \in Requests
  BY <1>1, <1>5 DEF TypeOK
<1>9. QED
  BY <1>6, <1>7, <1>8 DEF CmdType

\* Forgetting one leaves the others.
LEMMA ForgetType ==
  ASSUME TypeOK, NEW t, Forget(t), out' = out \/ out' = {}
  PROVE  CmdType'
  BY ForgetEffect DEF TypeOK, CmdType

\* A lost answer is an answer.
LEMMA FailPendingType ==
  ASSUME TypeOK, NEW ended, FailPending(ended), out' = out \/ out' = {}
  PROVE  CmdType'
  BY FailPendingEffect DEF TypeOK, CmdType

\* What the tasks ask.
LEMMA AsksFacts ==
  /\ Asks("setup") = {"user", "subscribe", "states", "services"}
  /\ Asks("refresh") = {"registries"}
  /\ \A c \in Callers : Asks(c) = {"call"}
  BY SessionAssumption DEF Asks

\* The bounds are numbers.
LEMMA Bounds ==
  MaxSockets \in Nat /\ MaxChanges \in Nat /\ MaxRefreshes \in Nat /\ MaxIds \in Nat
  BY SessionAssumption

\* Nothing to read.
LEMMA EmptyInbox == <<>> \in Seq(Results \cup Events)
  OBVIOUS

\* Nothing is connected at first.
LEMMA TypeInit == Init => TypeOK /\ LinkInv
<1>1. SUFFICES ASSUME Init PROVE TypeOK /\ LinkInv
  OBVIOUS
<1>2. pending = <<>> /\ cmd = <<>> /\ DOMAIN pending = {} /\ DOMAIN cmd = {} /\ out = {}
  BY <1>1 DEF Init
<1>3. CmdType
  BY <1>2 DEF CmdType
<1>4. RestType
  <2>1. inbox \in Seq(Results \cup Events) /\ outcome \in [Callers -> {"none"}]
    BY <1>1, EmptyInbox DEF Init
  <2>2. 0 \in 0..MaxSockets /\ 0 \in 0..MaxChanges /\ 0 \in 0..MaxRefreshes
    BY Bounds
  <2>3. /\ link = "down" /\ sockets = 0 /\ ws = 0 /\ connected = FALSE /\ token \in Users
        /\ user_id = None /\ states = 0 /\ refreshes = 0 /\ subscribed = FALSE
        /\ version = 0 /\ executed = {}
    BY <1>1 DEF Init
  <2>4. QED
    BY <2>1, <2>2, <2>3 DEF RestType
<1>5. LinkInv
  BY <1>1 DEF Init, LinkInv
<1>6. QED
  BY <1>3, <1>4, <1>5, TypeParts

\* The run task, and new credentials.
LEMMA RunType ==
  ASSUME TypeOK, LinkInv, RunStep \/ Swap
  PROVE  TypeOK' /\ LinkInv'
<1> USE Bounds
<1>1. CASE Connect
  <2>1. sockets' \in 1..MaxSockets
    BY <1>1 DEF Connect, TypeOK
  <2>2. QED
    BY <1>1, <2>1, TypeParts
       DEF Connect, CmdType, RestType, LinkInv, cmdVars, wireVars, stateVars, haVars
<1>2. CASE HandshakeFails \/ Break \/ Unreachable
  BY <1>2, TypeParts, EmptyInbox
     DEF HandshakeFails, Break, Unreachable, WireGone, CmdType, RestType, LinkInv, cmdVars,
         wireVars, stateVars, haVars
<1>3. CASE AuthOk
  <2>1. ws # 0 /\ Send("setup", "user") /\ link' = "open" /\ ws' = ws
    BY <1>3 DEF AuthOk, LinkInv
  <2>2. CmdType'
    BY <2>1, SendType, AsksFacts DEF Tasks
  <2>3. RestType'
    BY <1>3, TypeParts DEF AuthOk, ForgetUser, RestType, haVars
  <2>4. QED
    BY <2>1, <2>2, <2>3, TypeParts DEF LinkInv
<1>4. CASE ReaderLeaves
  <2>1. CmdType'
    BY <1>4, FailPendingType DEF ReaderLeaves, wireVars
  <2>2. RestType' /\ LinkInv'
    BY <1>4, TypeParts DEF ReaderLeaves, RestType, LinkInv, wireVars, stateVars, haVars
  <2>3. QED
    BY <2>1, <2>2, TypeParts
<1>5. CASE Swap
  <2>1. CmdType'
    BY <1>5, FailPendingType, ForgetType DEF Swap, WireGone
  <2>2. /\ token' \in Users /\ link' = "down" /\ ws' = 0 /\ connected' = FALSE
        /\ inbox' = <<>> /\ subscribed' = FALSE
        /\ UNCHANGED <<sockets, stateVars, haVars, outcome, refreshes>>
    BY <1>5 DEF Swap, WireGone
  <2>3. inbox' \in Seq(Results \cup Events) /\ 0 \in 0..MaxSockets
    BY <2>2, EmptyInbox
  <2>4. RestType' /\ LinkInv'
    BY <2>2, <2>3, TypeParts DEF RestType, LinkInv, stateVars, haVars
  <2>5. QED
    BY <2>1, <2>4, TypeParts
<1>6. QED
  BY <1>1, <1>2, <1>3, <1>4, <1>5 DEF RunStep

\* Home Assistant's answer is a result, and its news an event.
LEMMA AnswersEffect ==
  ASSUME TypeOK, NEW r \in out, Answers(r)
  PROVE  \E f \in Results :
         /\ inbox' = Append(inbox, f)
         /\ f.to = r /\ f.kind = "result" /\ f.user \in {token, "unusable", None}
         /\ r.what = "states" => f.version = version
         /\ subscribed' = (subscribed \/ (f.ok /\ r.what = "subscribe"))
         /\ executed' = IF f.ok /\ r.by \in Callers THEN executed \cup {r.by} ELSE executed
         /\ out' = out \ {r}
         /\ link = "open"
         /\ UNCHANGED <<connVars, cmdVars, stateVars, version, outcome, refreshes>>
<1>1. /\ out' = out \ {r} /\ link = "open"
      /\ UNCHANGED <<connVars, cmdVars, stateVars, version, outcome, refreshes>>
  BY DEF Answers
<1>2. PICK ok \in BOOLEAN, user \in {token, "unusable", None} :
        /\ inbox' = Append(inbox, [kind |-> "result", to |-> r, ok |-> ok, user |-> user,
                                   version |-> IF r.what = "states" THEN version ELSE 0])
        /\ subscribed' = (subscribed \/ (ok /\ r.what = "subscribe"))
        /\ executed' = IF ok /\ r.by \in Callers THEN executed \cup {r.by} ELSE executed
  BY DEF Answers
<1> DEFINE f == [kind |-> "result", to |-> r, ok |-> ok, user |-> user,
                 version |-> IF r.what = "states" THEN version ELSE 0]
<1>3. f \in Results
  <2>1. (IF r.what = "states" THEN version ELSE 0) \in 0..MaxChanges
    BY SessionAssumption DEF TypeOK
  <2>2. r \in Requests /\ user \in Users \cup {None, "unusable"}
    BY <1>2 DEF TypeOK
  <2>3. QED
    BY <2>1, <2>2 DEF Results
<1>4. /\ f.to = r /\ f.kind = "result" /\ f.user = user /\ f.ok = ok
      /\ r.what = "states" => f.version = version
      /\ inbox' = Append(inbox, f)
  BY <1>2
<1> HIDE DEF f
<1>5. QED
  BY <1>1, <1>2, <1>3, <1>4

\* Home Assistant's news is an event.
LEMMA ChangesEffect ==
  ASSUME TypeOK, NEW who \in Users \cup {None}, Changes(who)
  PROVE  \E f \in Events :
         /\ f.version = version' /\ f.kind = "event" /\ f.who = who
         /\ inbox' = IF subscribed THEN Append(inbox, f) ELSE inbox
         /\ version' \in 0..MaxChanges
         /\ UNCHANGED <<connVars, cmdVars, out, subscribed, stateVars, executed, outcome,
                        refreshes>>
<1> DEFINE f == [kind |-> "event", who |-> who, version |-> version']
<1>1. version' \in 0..MaxChanges
  BY SessionAssumption DEF Changes, TypeOK
<1>2. f \in Events
  BY <1>1 DEF Events
<1>3. f.version = version' /\ f.kind = "event" /\ f.who = who
  OBVIOUS
<1>4. /\ inbox' = IF subscribed THEN Append(inbox, f) ELSE inbox
      /\ UNCHANGED <<connVars, cmdVars, out, subscribed, stateVars, executed, outcome,
                     refreshes>>
  BY DEF Changes
<1> HIDE DEF f
<1>5. QED
  BY <1>1, <1>2, <1>3, <1>4

\* Home Assistant answers, and the reader reads.
LEMMA ReaderType ==
  ASSUME TypeOK, LinkInv,
         \/ \E r \in out : Answers(r)
         \/ \E who \in Users \cup {None} : Changes(who)
         \/ HandleResult \/ HandleStateChanged
  PROVE  TypeOK' /\ LinkInv'
<1>1. ASSUME NEW r \in out, Answers(r) PROVE TypeOK' /\ LinkInv'
  <2>1. PICK f \in Results :
         /\ inbox' = Append(inbox, f)
         /\ subscribed' = (subscribed \/ (f.ok /\ r.what = "subscribe"))
         /\ executed' = IF f.ok /\ r.by \in Callers THEN executed \cup {r.by} ELSE executed
         /\ out' = out \ {r}
         /\ link = "open"
         /\ UNCHANGED <<connVars, cmdVars, stateVars, version, outcome, refreshes>>
    BY <1>1, AnswersEffect
  <2>2. inbox' \in Seq(Results \cup Events)
    BY <2>1, AppendFacts
  <2>3. f.ok \in BOOLEAN
    BY DEF Results
  <2>4. subscribed' \in BOOLEAN
    BY <2>1, <2>3, TypeParts DEF RestType
  <2>5. QED
    BY <2>1, <2>2, <2>4, TypeParts DEF CmdType, RestType, LinkInv, connVars, cmdVars, stateVars
<1>2. ASSUME NEW who \in Users \cup {None}, Changes(who) PROVE TypeOK' /\ LinkInv'
  <2>1. PICK f \in Events :
         /\ inbox' = IF subscribed THEN Append(inbox, f) ELSE inbox
         /\ version' \in 0..MaxChanges
         /\ UNCHANGED <<connVars, cmdVars, out, subscribed, stateVars, executed, outcome,
                        refreshes>>
    BY <1>2, ChangesEffect
  <2>2. inbox' \in Seq(Results \cup Events)
    BY <2>1, AppendFacts DEF TypeOK
  <2>3. QED
    BY <2>1, <2>2, TypeParts DEF CmdType, RestType, LinkInv, connVars, cmdVars, stateVars
<1>3. CASE HandleResult
  <2>1. inbox' \in Seq(Results \cup Events) /\ inbox # <<>>
    BY <1>3, ResultEffect, TailFacts
  <2>2. states' \in 0..MaxChanges
    <3>1. states' = inbox[1].version \/ states' = states
      BY <1>3, ResultEffect DEF HandleResult
    <3>2. inbox[1].version \in 0..MaxChanges
      BY <1>3, ResultEffect DEF Results
    <3>3. QED
      BY <3>1, <3>2 DEF TypeOK
  <2>3. DOMAIN cmd' = DOMAIN cmd
        /\ \A u \in DOMAIN cmd : cmd'[u] \in Commands /\ cmd'[u].what \in Asks(u)
    BY <1>3, ResultEffect DEF TypeOK
  <2>4. UNCHANGED <<connVars, pending, out, subscribed, user_id, haVars, outcome, refreshes>>
    BY <1>3, ResultEffect
  <2>5. CmdType'
    BY <2>3, <2>4, TypeParts DEF CmdType
  <2>6. RestType' /\ LinkInv'
    BY <2>1, <2>2, <2>4, TypeParts DEF RestType, LinkInv, connVars, haVars
  <2>7. QED
    BY <2>5, <2>6, TypeParts
<1>4. CASE HandleStateChanged
  <2>1. inbox # <<>> /\ inbox' = Tail(inbox) /\ Head(inbox).kind = "event" /\ cmd' = cmd
        /\ states' = Head(inbox).version
        /\ UNCHANGED <<connVars, pending, out, subscribed, user_id, haVars, outcome, refreshes>>
    BY <1>4 DEF HandleStateChanged, Reads
  <2>2. inbox' \in Seq(Results \cup Events) /\ inbox[1] = Head(inbox)
        /\ inbox[1] \in Results \cup Events
    BY <2>1, TailFacts, InboxFacts
  <2>3. inbox[1] \in Events
    BY <2>1, <2>2, Kinds
  <2>4. states' \in 0..MaxChanges
    BY <2>1, <2>2, <2>3 DEF Events
  <2>5. QED
    BY <2>1, <2>2, <2>4, TypeParts DEF CmdType, RestType, LinkInv, connVars, haVars
<1>5. QED
  BY <1>1, <1>2, <1>3, <1>4

\* The tasks that send commands.
LEMMA TasksType ==
  ASSUME TypeOK, LinkInv, SocketInv,
         \/ SetupStep \/ RefreshAsks
         \/ \E c \in Callers : CallService(c) \/ CallRefused(c)
         \/ \E t \in Waiting : CommandEnds(t)
  PROVE  TypeOK' /\ LinkInv'
<1> USE SessionAssumption
<1>1. CASE SetupGoesOn
  <2>1. /\ Send("setup", NextCommand[cmd["setup"].what]) /\ Learn /\ link = "open"
        /\ "setup" \in DOMAIN cmd /\ cmd["setup"].what # "services"
        /\ UNCHANGED <<connVars, inbox, subscribed, haVars, outcome, refreshes>>
    BY <1>1 DEF SetupGoesOn, Waits
  <2>2. cmd["setup"].what \in {"user", "subscribe", "states"}
    BY <2>1, AsksFacts DEF TypeOK
  <2>3. NextCommand[cmd["setup"].what] \in Asks("setup")
    BY <2>2, AsksFacts DEF NextCommand
  <2>4. CmdType'
    BY <2>1, <2>3, SendType DEF Tasks, LinkInv
  <2>5. user_id' \in Users \cup {None} /\ states' = states
    BY <2>1 DEF Learn, TypeOK
  <2>6. QED
    BY <2>1, <2>4, <2>5, TypeParts DEF RestType, LinkInv, connVars, haVars
<1>2. CASE SetupConnected
  <2>1. CmdType'
    BY <1>2, ForgetType DEF SetupConnected, wireVars
  <2>2. QED
    BY <1>2, <2>1, TypeParts DEF SetupConnected, RestType, LinkInv, wireVars, stateVars, haVars
<1>3. CASE SetupFails
  <2>1. CmdType'
    BY <1>3, ForgetType DEF SetupFails, WireGone
  <2>2. link \in {"open", "broken"} /\ ws # 0
    BY <1>3 DEF SetupFails, SocketInv, LinkInv
  <2>3. RestType'
    BY <1>3, TypeParts, EmptyInbox DEF SetupFails, WireGone, RestType, stateVars, haVars
  <2>4. QED
    BY <1>3, <2>1, <2>2, <2>3, TypeParts DEF SetupFails, WireGone, LinkInv
<1>4. CASE RefreshAsks
  <2>1. CmdType'
    BY <1>4, SendType, AsksFacts DEF RefreshAsks, Tasks
  <2>2. RestType' /\ LinkInv'
    BY <1>4, TypeParts DEF RefreshAsks, RestType, LinkInv, connVars, stateVars, haVars
  <2>3. QED
    BY <2>1, <2>2, TypeParts
<1>5. ASSUME NEW c \in Callers, CallService(c) PROVE TypeOK' /\ LinkInv'
  <2>1. CmdType'
    BY <1>5, SendType, AsksFacts DEF CallService, MayCall, Tasks
  <2>2. RestType' /\ LinkInv'
    BY <1>5, TypeParts DEF CallService, callFrame, RestType, LinkInv, connVars, stateVars, haVars
  <2>3. QED
    BY <2>1, <2>2, TypeParts
<1>6. ASSUME NEW c \in Callers, CallRefused(c) PROVE TypeOK' /\ LinkInv'
  <2>1. RestType' /\ LinkInv'
    BY <1>6, TypeParts DEF CallRefused, callFrame, RestType, LinkInv, connVars, stateVars, haVars
  <2>2. CmdType'
    BY <1>6, TypeParts DEF CallRefused, CmdType, cmdVars
  <2>3. QED
    BY <2>1, <2>2, TypeParts
<1>7. ASSUME NEW t \in Waiting, CommandEnds(t) PROVE TypeOK' /\ LinkInv'
  <2>1. CmdType'
    BY <1>7, ForgetType DEF CommandEnds
  <2>2. RestType' /\ LinkInv'
    BY <1>7, TypeParts DEF CommandEnds, callFrame, RestType, LinkInv, connVars, stateVars, haVars
  <2>3. QED
    BY <2>1, <2>2, TypeParts
<1>8. QED
  BY <1>1, <1>2, <1>3, <1>4, <1>5, <1>6, <1>7 DEF SetupStep

\* Every step keeps the types.
LEMMA TypeNext == TypeOK /\ LinkInv /\ SocketInv /\ [Next]_vars => TypeOK' /\ LinkInv'
<1>1. SUFFICES ASSUME TypeOK, LinkInv, SocketInv, [Next]_vars PROVE TypeOK' /\ LinkInv'
  OBVIOUS
<1>2. CASE UNCHANGED vars
  BY <1>1, <1>2, TypeParts DEF vars, connVars, cmdVars, wireVars, stateVars, haVars, CmdType,
     RestType, LinkInv
<1>3. CASE Next
  BY <1>1, <1>3, RunType, ReaderType, TasksType DEF Next
<1>4. QED
  BY <1>1, <1>2, <1>3

-----------------------------------------------------------------------------
(* Which answer is whose                                                   *)

\* The frame f, a request or the result to one, is of the command it names.
Belongs(r) == \A t \in DOMAIN cmd : r.id = cmd[t].id => r.by = t /\ r.what = cmd[t].what

\* The commands and what is pending.
BookInv ==
    /\ \A t, u \in DOMAIN cmd : cmd[t].id = cmd[u].id => t = u
    /\ \A i \in DOMAIN pending : pending[i] \in DOMAIN cmd /\ cmd[pending[i]].id = i
    /\ \A t \in DOMAIN cmd :
        /\ ~Answered(t) => cmd[t].id \in DOMAIN pending
        /\ Answered(t) /\ cmd[t].answer # Lost =>
               cmd[t].answer.to = [id |-> cmd[t].id, by |-> t, what |-> cmd[t].what]

\* What is on its way.
WireInv ==
    /\ \A r \in out : Belongs(r)
    /\ \A i \in DOMAIN inbox : inbox[i].kind = "result" => Belongs(inbox[i].to)

\* IdInv is about the books and about the wire.
LEMMA IdParts ==
  /\ IdInv <=> BookInv /\ WireInv
  /\ IdInv' <=> BookInv' /\ WireInv'
<1>1. IdInv => BookInv
  BY DEF IdInv, BookInv
<1>2. IdInv => WireInv
  BY DEF IdInv, WireInv, Belongs
<1>3. BookInv /\ WireInv => IdInv
  BY DEF IdInv, BookInv, WireInv, Belongs
<1>4. IdInv' => BookInv'
  BY DEF IdInv, BookInv
<1>5. IdInv' => WireInv'
  BY DEF IdInv, WireInv, Belongs
<1>6. BookInv' /\ WireInv' => IdInv'
  BY DEF IdInv, BookInv, WireInv, Belongs
<1>7. QED
  BY <1>1, <1>2, <1>3, <1>4, <1>5, <1>6

\* As they read after a step.
LEMMA BookPrimed ==
  BookInv' <=>
    /\ \A t, u \in DOMAIN cmd' : cmd'[t].id = cmd'[u].id => t = u
    /\ \A i \in DOMAIN pending' : pending'[i] \in DOMAIN cmd' /\ cmd'[pending'[i]].id = i
    /\ \A t \in DOMAIN cmd' :
        /\ cmd'[t].answer = Nothing => cmd'[t].id \in DOMAIN pending'
        /\ cmd'[t].answer # Nothing /\ cmd'[t].answer # Lost =>
               cmd'[t].answer.to = [id |-> cmd'[t].id, by |-> t, what |-> cmd'[t].what]
  BY DEF BookInv, Answered, Nothing, Lost

\* WireInv as it reads after a step.
LEMMA WirePrimed ==
  WireInv' <=>
    /\ \A r \in out' : \A t \in DOMAIN cmd' :
           r.id = cmd'[t].id => r.by = t /\ r.what = cmd'[t].what
    /\ \A i \in DOMAIN inbox' : inbox'[i].kind = "result" => \A t \in DOMAIN cmd' :
           inbox'[i].to.id = cmd'[t].id =>
               inbox'[i].to.by = t /\ inbox'[i].to.what = cmd'[t].what
  BY DEF WireInv, Belongs

\* Nothing comes in that was not on its way.
Fewer ==
    /\ out' \subseteq out
    /\ \A i \in DOMAIN inbox' : \E j \in DOMAIN inbox : inbox'[i] = inbox[j]

\* The steps after which less is on its way.
LEMMA FewerFacts ==
  ASSUME TypeOK, out' = out \/ out' = {},
         inbox' = inbox \/ inbox' = <<>> \/ (inbox # <<>> /\ inbox' = Tail(inbox))
  PROVE  Fewer
<1>1. CASE inbox' = inbox
  BY <1>1 DEF Fewer
<1>2. CASE inbox' = <<>>
  BY <1>2 DEF Fewer
<1>3. CASE inbox # <<>> /\ inbox' = Tail(inbox)
  BY <1>3, TailFacts DEF Fewer
<1>4. QED
  BY <1>1, <1>2, <1>3

\* A fresh id confuses nothing.
LEMMA SendIds ==
  ASSUME TypeOK, IdInv, NEW t, NEW what, Send(t, what), inbox' = inbox
  PROVE  IdInv'
<1>1. PICK id \in Nat : Sends(t, what, id)
  BY SendEffect
<1>2. /\ DOMAIN cmd' = DOMAIN cmd \cup {t}
      /\ cmd'[t].id = id /\ cmd'[t].what = what /\ cmd'[t].answer = Nothing
      /\ \A u \in DOMAIN cmd \ {t} : cmd'[u] = cmd[u]
      /\ DOMAIN pending' = (DOMAIN pending \ Own(t)) \cup {id}
      /\ pending'[id] = t
      /\ \A i \in DOMAIN pending \ Own(t) : i # id => pending'[i] = pending[i]
      /\ \A u \in DOMAIN cmd : cmd[u].id # id
  BY <1>1 DEF Sends
<1>3. t \in DOMAIN cmd => Own(t) = {cmd[t].id}
  BY DEF Own, Waits
<1>4. t \notin DOMAIN cmd => Own(t) = {}
  BY DEF Own, Waits
<1>5. BookInv
  BY IdParts
<1>6. \A u, v \in DOMAIN cmd' : cmd'[u].id = cmd'[v].id => u = v
  BY <1>2, <1>5 DEF BookInv
<1>7. ASSUME NEW i \in DOMAIN pending' PROVE pending'[i] \in DOMAIN cmd' /\ cmd'[pending'[i]].id = i
  <2>1. CASE i = id
    BY <1>2, <2>1
  <2>2. CASE i # id
    <3>1. i \in DOMAIN pending /\ i \notin Own(t) /\ pending'[i] = pending[i]
      BY <1>2, <2>2
    <3>2. pending[i] \in DOMAIN cmd /\ cmd[pending[i]].id = i
      BY <1>5, <3>1 DEF BookInv
    <3>3. pending[i] # t
      BY <1>3, <3>1, <3>2
    <3>4. QED
      BY <1>2, <3>1, <3>2, <3>3
  <2>3. QED
    BY <2>1, <2>2
<1>8. ASSUME NEW u \in DOMAIN cmd'
      PROVE  /\ cmd'[u].answer = Nothing => cmd'[u].id \in DOMAIN pending'
             /\ cmd'[u].answer # Nothing /\ cmd'[u].answer # Lost =>
                    cmd'[u].answer.to = [id |-> cmd'[u].id, by |-> u, what |-> cmd'[u].what]
  <2>1. CASE u = t
    BY <1>2, <2>1
  <2>2. CASE u # t
    <3>1. u \in DOMAIN cmd /\ cmd'[u] = cmd[u]
      BY <1>2, <2>2
    <3>2. cmd[u].id \notin Own(t)
      BY <1>3, <1>4, <1>5, <2>2, <3>1 DEF BookInv
    <3>3. QED
      BY <1>2, <1>5, <3>1, <3>2 DEF BookInv, Answered
  <2>3. QED
    BY <2>1, <2>2
<1>9. BookInv'
  BY <1>6, <1>7, <1>8, BookPrimed
<1>10. WireInv'
  <2>1. /\ out' = out \cup {[id |-> id, by |-> t, what |-> what]}
        /\ \A r \in out : r.id # id
        /\ \A i \in DOMAIN inbox : inbox[i].kind = "result" => inbox[i].to.id # id
    BY <1>1 DEF Sends
  <2>2. ASSUME NEW r \in out', NEW u \in DOMAIN cmd', r.id = cmd'[u].id
        PROVE  r.by = u /\ r.what = cmd'[u].what
    <3>1. CASE r \in out
      <4>1. u # t /\ u \in DOMAIN cmd /\ cmd'[u] = cmd[u]
        BY <1>2, <2>1, <2>2, <3>1
      <4>2. QED
        BY <2>2, <3>1, <4>1, IdParts DEF WireInv, Belongs
    <3>2. CASE r = [id |-> id, by |-> t, what |-> what]
      <4>1. u = t
        BY <1>2, <2>2, <3>2
      <4>2. QED
        BY <1>2, <3>2, <4>1
    <3>3. QED
      BY <2>1, <3>1, <3>2
  <2>3. ASSUME NEW i \in DOMAIN inbox, inbox[i].kind = "result",
               NEW u \in DOMAIN cmd', inbox[i].to.id = cmd'[u].id
        PROVE  inbox[i].to.by = u /\ inbox[i].to.what = cmd'[u].what
    <3>1. u # t /\ u \in DOMAIN cmd /\ cmd'[u] = cmd[u]
      BY <1>2, <2>1, <2>3
    <3>2. QED
      BY <2>3, <3>1, IdParts DEF WireInv, Belongs
  <2>4. QED
    BY <2>2, <2>3, WirePrimed
<1>11. QED
  BY <1>9, <1>10, IdParts

\* Commands that are only closed or lost leave the rest as it was.
LEMMA FewerWire ==
  ASSUME IdInv, Fewer, DOMAIN cmd' \subseteq DOMAIN cmd,
         \A u \in DOMAIN cmd' : cmd'[u].id = cmd[u].id /\ cmd'[u].what = cmd[u].what
  PROVE  WireInv'
<1>1. WireInv
  BY IdParts
<1>2. ASSUME NEW r \in out', NEW u \in DOMAIN cmd', r.id = cmd'[u].id
      PROVE  r.by = u /\ r.what = cmd'[u].what
  BY <1>1, <1>2 DEF WireInv, Belongs, Fewer
<1>3. ASSUME NEW i \in DOMAIN inbox', inbox'[i].kind = "result",
             NEW u \in DOMAIN cmd', inbox'[i].to.id = cmd'[u].id
      PROVE  inbox'[i].to.by = u /\ inbox'[i].to.what = cmd'[u].what
  <2>1. PICK j \in DOMAIN inbox : inbox'[i] = inbox[j]
    BY DEF Fewer
  <2>2. QED
    BY <1>1, <1>3, <2>1 DEF WireInv, Belongs
<1>4. QED
  BY <1>2, <1>3, WirePrimed

\* A command that is over leaves the others their ids.
LEMMA ForgetIds ==
  ASSUME IdInv, NEW t, Forget(t), Fewer
  PROVE  IdInv'
<1>1. /\ DOMAIN cmd' = DOMAIN cmd \ {t}
      /\ \A u \in DOMAIN cmd \ {t} : cmd'[u] = cmd[u]
      /\ DOMAIN pending' = DOMAIN pending \ Own(t)
      /\ \A i \in DOMAIN pending' : pending'[i] = pending[i]
  BY ForgetEffect
<1>2. t \in DOMAIN cmd => Own(t) = {cmd[t].id}
  BY DEF Own, Waits
<1>3. t \notin DOMAIN cmd => Own(t) = {}
  BY DEF Own, Waits
<1>4. BookInv'
  <2>1. BookInv
    BY IdParts
  <2>2. ASSUME NEW i \in DOMAIN pending'
        PROVE  pending'[i] \in DOMAIN cmd' /\ cmd'[pending'[i]].id = i
    <3>1. i \in DOMAIN pending /\ i \notin Own(t) /\ pending'[i] = pending[i]
      BY <1>1
    <3>2. pending[i] \in DOMAIN cmd /\ cmd[pending[i]].id = i
      BY <2>1, <3>1 DEF BookInv
    <3>3. pending[i] # t
      BY <1>2, <3>1, <3>2
    <3>4. QED
      BY <1>1, <3>1, <3>2, <3>3
  <2>3. ASSUME NEW u \in DOMAIN cmd'
        PROVE  /\ cmd'[u].answer = Nothing => cmd'[u].id \in DOMAIN pending'
               /\ cmd'[u].answer # Nothing /\ cmd'[u].answer # Lost =>
                      cmd'[u].answer.to = [id |-> cmd'[u].id, by |-> u, what |-> cmd'[u].what]
    <3>1. u \in DOMAIN cmd /\ u # t /\ cmd'[u] = cmd[u]
      BY <1>1
    <3>2. cmd[u].id \notin Own(t)
      BY <1>2, <1>3, <2>1, <3>1 DEF BookInv
    <3>3. QED
      BY <1>1, <2>1, <3>1, <3>2 DEF BookInv, Answered
  <2>4. \A u, v \in DOMAIN cmd' : cmd'[u].id = cmd'[v].id => u = v
    BY <1>1, <2>1 DEF BookInv
  <2>5. QED
    BY <2>2, <2>3, <2>4, BookPrimed
<1>5. WireInv'
  BY <1>1, FewerWire
<1>6. QED
  BY <1>4, <1>5, IdParts

\* A lost WebSocket leaves no id pending.
LEMMA FailPendingIds ==
  ASSUME TypeOK, IdInv, NEW ended, FailPending(ended), Fewer
  PROVE  IdInv'
<1>1. /\ DOMAIN pending' = {}
      /\ DOMAIN cmd' = DOMAIN cmd \ ended
      /\ \A u \in DOMAIN cmd' :
               /\ cmd'[u].id = cmd[u].id /\ cmd'[u].what = cmd[u].what
               /\ cmd'[u].answer # Nothing
               /\ cmd'[u].answer = Lost \/ cmd'[u].answer = cmd[u].answer
  BY FailPendingEffect
<1>2. BookInv'
  <2>1. BookInv
    BY IdParts
  <2>2. ASSUME NEW u \in DOMAIN cmd'
        PROVE  /\ cmd'[u].answer = Nothing => cmd'[u].id \in DOMAIN pending'
               /\ cmd'[u].answer # Nothing /\ cmd'[u].answer # Lost =>
                      cmd'[u].answer.to = [id |-> cmd'[u].id, by |-> u, what |-> cmd'[u].what]
    BY <1>1, <2>1 DEF BookInv, Answered
  <2>3. \A u, v \in DOMAIN cmd' : cmd'[u].id = cmd'[v].id => u = v
    BY <1>1, <2>1 DEF BookInv
  <2>4. QED
    BY <1>1, <2>2, <2>3, BookPrimed
<1>3. WireInv'
  BY <1>1, FewerWire
<1>4. QED
  BY <1>2, <1>3, IdParts

\* Where no command moves and nothing new comes in.
LEMMA QuietIds ==
  ASSUME IdInv, UNCHANGED cmdVars, Fewer
  PROVE  IdInv'
<1>1. cmd' = cmd /\ pending' = pending
  BY DEF cmdVars
<1>2. BookInv'
  BY <1>1, IdParts, BookPrimed DEF BookInv, Answered
<1>3. WireInv'
  BY <1>1, FewerWire
<1>4. QED
  BY <1>2, <1>3, IdParts

\* The answer that is taken is the answer to the command that takes it.
LEMMA ResultIds ==
  ASSUME TypeOK, IdInv, HandleResult
  PROVE  IdInv'
<1>1. inbox # <<>> /\ inbox' = Tail(inbox) /\ inbox[1] \in Results /\ DOMAIN cmd' = DOMAIN cmd
      /\ out' = out /\ pending' = pending
  BY ResultEffect
<1>2. ASSUME NEW u \in DOMAIN cmd
      PROVE  \/ cmd'[u] = cmd[u]
             \/ /\ cmd'[u].id = cmd[u].id /\ cmd'[u].what = cmd[u].what
                /\ cmd'[u].answer = inbox[1]
                /\ inbox[1].to.id \in DOMAIN pending /\ pending[inbox[1].to.id] = u
  BY ResultEffect
<1>3. ASSUME NEW u \in DOMAIN cmd, inbox[1].to.id \in DOMAIN pending, pending[inbox[1].to.id] = u
      PROVE  inbox[1].to = [id |-> cmd[u].id, by |-> u, what |-> cmd[u].what]
  <2>1. inbox[1].to.id = cmd[u].id
    BY <1>3, IdParts DEF BookInv
  <2>2. 1 \in DOMAIN inbox /\ inbox[1].kind = "result"
    BY <1>1, TailFacts, Kinds
  <2>3. inbox[1].to.by = u /\ inbox[1].to.what = cmd[u].what
    BY <2>1, <2>2, IdParts DEF WireInv, Belongs
  <2>4. inbox[1].to \in Requests
    BY <1>1 DEF Results
  <2>5. QED
    BY <2>1, <2>3, <2>4 DEF Requests
<1>4. \A u \in DOMAIN cmd' : cmd'[u].id = cmd[u].id /\ cmd'[u].what = cmd[u].what
  BY <1>1, <1>2
<1>5. BookInv'
  <2>1. BookInv
    BY IdParts
  <2>2. ASSUME NEW u \in DOMAIN cmd'
        PROVE  /\ cmd'[u].answer = Nothing => cmd'[u].id \in DOMAIN pending'
               /\ cmd'[u].answer # Nothing /\ cmd'[u].answer # Lost =>
                      cmd'[u].answer.to = [id |-> cmd'[u].id, by |-> u, what |-> cmd'[u].what]
    <3>1. CASE cmd'[u] = cmd[u]
      BY <1>1, <2>1, <3>1 DEF BookInv, Answered
    <3>2. CASE cmd'[u].answer = inbox[1]
               /\ inbox[1].to.id \in DOMAIN pending /\ pending[inbox[1].to.id] = u
      BY <1>1, <1>3, <1>4, <3>2, Kinds
    <3>3. QED
      BY <1>1, <1>2, <3>1, <3>2
  <2>3. \A u, v \in DOMAIN cmd' : cmd'[u].id = cmd'[v].id => u = v
    BY <1>1, <1>4, <2>1 DEF BookInv
  <2>4. \A i \in DOMAIN pending' : pending'[i] \in DOMAIN cmd' /\ cmd'[pending'[i]].id = i
    BY <1>1, <1>4, <2>1 DEF BookInv
  <2>5. QED
    BY <2>2, <2>3, <2>4, BookPrimed
<1>6. Fewer
  BY <1>1, FewerFacts
<1>7. WireInv'
  BY <1>1, <1>4, <1>6, FewerWire
<1>8. QED
  BY <1>5, <1>7, IdParts

\* An answer carries the id of the request it answers.
LEMMA AnswersIds ==
  ASSUME TypeOK, IdInv, NEW r \in out, Answers(r)
  PROVE  IdInv'
<1>1. PICK f \in Results : inbox' = Append(inbox, f) /\ f.to = r /\ out' = out \ {r}
                           /\ UNCHANGED cmdVars
  BY AnswersEffect
<1>2. cmd' = cmd /\ pending' = pending
  BY <1>1 DEF cmdVars
<1>3. BookInv'
  BY <1>2, IdParts, BookPrimed DEF BookInv, Answered
<1>4. WireInv
  BY IdParts
<1>5. \A i \in DOMAIN inbox' : (i \in DOMAIN inbox /\ inbox'[i] = inbox[i]) \/ inbox'[i] = f
  BY <1>1, AppendFacts, InboxFacts
<1>6. ASSUME NEW i \in DOMAIN inbox', inbox'[i].kind = "result",
             NEW u \in DOMAIN cmd', inbox'[i].to.id = cmd'[u].id
      PROVE  inbox'[i].to.by = u /\ inbox'[i].to.what = cmd'[u].what
  BY <1>1, <1>2, <1>4, <1>5, <1>6 DEF WireInv, Belongs
<1>7. WireInv'
  BY <1>1, <1>2, <1>4, <1>6, WirePrimed DEF WireInv, Belongs
<1>8. QED
  BY <1>3, <1>7, IdParts

\* An event carries no id.
LEMMA ChangesIds ==
  ASSUME TypeOK, IdInv, NEW who \in Users \cup {None}, Changes(who)
  PROVE  IdInv'
<1>1. PICK f \in Events :
         /\ f.kind = "event" /\ inbox' = IF subscribed THEN Append(inbox, f) ELSE inbox
         /\ out' = out /\ UNCHANGED cmdVars
  BY ChangesEffect
<1>2. cmd' = cmd /\ pending' = pending
  BY <1>1 DEF cmdVars
<1>3. BookInv'
  BY <1>2, IdParts, BookPrimed DEF BookInv, Answered
<1>4. WireInv
  BY IdParts
<1>5. \A i \in DOMAIN inbox' :
         (i \in DOMAIN inbox /\ inbox'[i] = inbox[i]) \/ inbox'[i].kind = "event"
  BY <1>1, AppendFacts, InboxFacts
<1>6. WireInv'
  BY <1>1, <1>2, <1>4, <1>5, WirePrimed DEF WireInv, Belongs
<1>7. QED
  BY <1>3, <1>6, IdParts

\* No id is in use at first.
LEMMA IdInit == Init => IdInv
<1>1. SUFFICES ASSUME Init PROVE IdInv
  OBVIOUS
<1>2. DOMAIN cmd = {} /\ DOMAIN pending = {}
  BY <1>1 DEF Init
<1>3. QED
  BY <1>1, <1>2 DEF Init, IdInv

\* Every step keeps the ids apart.
LEMMA IdNext == TypeOK /\ IdInv /\ [Next]_vars => IdInv'
<1>1. SUFFICES ASSUME TypeOK, IdInv, [Next]_vars PROVE IdInv'
  OBVIOUS
<1>2. CASE Connect \/ HandshakeFails \/ Break \/ Unreachable
           \/ (\E c \in Callers : CallRefused(c)) \/ UNCHANGED vars
  <2>1. UNCHANGED cmdVars /\ (out' = out \/ out' = {}) /\ (inbox' = inbox \/ inbox' = <<>>)
    BY <1>2 DEF Connect, HandshakeFails, Break, Unreachable, CallRefused, callFrame, WireGone,
                wireVars, cmdVars, vars
  <2>2. QED
    BY <1>1, <2>1, FewerFacts, QuietIds
<1>3. CASE AuthOk \/ SetupGoesOn \/ RefreshAsks \/ (\E c \in Callers : CallService(c))
  <2>1. PICK t, what : Send(t, what) /\ inbox' = inbox
    BY <1>3 DEF AuthOk, SetupGoesOn, RefreshAsks, CallService, callFrame
  <2>2. QED
    BY <1>1, <2>1, SendIds
<1>4. CASE SetupConnected \/ SetupFails \/ (\E t \in Waiting : CommandEnds(t))
           \/ (Swap /\ link \notin {"open", "broken"})
  <2>1. PICK t : Forget(t) /\ (out' = out \/ out' = {}) /\ (inbox' = inbox \/ inbox' = <<>>)
    BY <1>4 DEF SetupConnected, SetupFails, CommandEnds, Swap, callFrame, WireGone, wireVars
  <2>2. QED
    BY <1>1, <2>1, FewerFacts, ForgetIds
<1>5. CASE ReaderLeaves \/ (Swap /\ link \in {"open", "broken"})
  <2>1. PICK ended : FailPending(ended) /\ (out' = out \/ out' = {})
                     /\ (inbox' = inbox \/ inbox' = <<>>)
    BY <1>5 DEF ReaderLeaves, Swap, WireGone, wireVars
  <2>2. QED
    BY <1>1, <2>1, FewerFacts, FailPendingIds
<1>6. CASE HandleStateChanged
  <2>1. UNCHANGED cmdVars /\ out' = out /\ inbox # <<>> /\ inbox' = Tail(inbox)
    BY <1>6 DEF HandleStateChanged, Reads, cmdVars
  <2>2. QED
    BY <1>1, <2>1, FewerFacts, QuietIds
<1>7. QED
  BY <1>1, <1>2, <1>3, <1>4, <1>5, <1>6, ResultIds, AnswersIds, ChangesIds
     DEF Next, RunStep, SetupStep

-----------------------------------------------------------------------------
(* What the reader has before it                                           *)

\* No event is behind the i-th of the frames q.
Quiet(q, i) == \A j \in DOMAIN q : i < j => q[j].kind # "event"

\* What InboxInv says of a frame.
Says(f, quiet, sub, ver, tok, exe) ==
    /\ f.kind = "event" \/ f.to.what = "states" => sub /\ (quiet => f.version = ver)
    /\ f.kind = "result" =>
        /\ f.ok /\ f.to.what = "subscribe" => sub
        /\ f.ok /\ f.to.by \in Callers => f.to.by \in exe
        /\ f.user \in {tok, "unusable", None}

\* InboxInv, frame by frame.
LEMMA InboxIs ==
  /\ InboxInv <=>
       /\ \A r \in out : r.what = "states" => subscribed
       /\ \A i \in DOMAIN inbox :
             Says(inbox[i], Quiet(inbox, i), subscribed, version, token, executed)
  /\ InboxInv' <=>
       /\ \A r \in out' : r.what = "states" => subscribed'
       /\ \A i \in DOMAIN inbox' :
             Says(inbox'[i], Quiet(inbox', i), subscribed', version', token', executed')
  BY DEF InboxInv, Says, NoNewsAfter, Quiet

\* Nothing new on the wire, or nothing at all.
LEMMA InboxSame ==
  ASSUME InboxInv,
         inbox' = inbox /\ subscribed' = subscribed /\ version' = version /\ token' = token
             /\ executed' = executed,
         \A r \in out' : r \in out \/ r.what # "states" \/ subscribed
  PROVE  InboxInv'
  BY InboxIs

\* Nothing to read and nothing asked.
LEMMA InboxGone ==
  ASSUME inbox' = <<>>, out' = {}
  PROVE  InboxInv'
  BY InboxIs

\* The reader takes the first frame.
LEMMA InboxRead ==
  ASSUME TypeOK, InboxInv, inbox # <<>>, inbox' = Tail(inbox),
         out' = out /\ subscribed' = subscribed /\ version' = version /\ token' = token
             /\ executed' = executed
  PROVE  InboxInv'
<1>1. /\ DOMAIN inbox' = 1..(Len(inbox) - 1) /\ Len(inbox) \in Nat /\ DOMAIN inbox = 1..Len(inbox)
      /\ \A i \in DOMAIN inbox' : i + 1 \in DOMAIN inbox /\ inbox'[i] = inbox[i + 1]
  BY TailFacts, InboxFacts
<1>2. ASSUME NEW i \in DOMAIN inbox', Quiet(inbox', i) PROVE Quiet(inbox, i + 1)
  <2>1. SUFFICES ASSUME NEW j \in DOMAIN inbox, i + 1 < j PROVE inbox[j].kind # "event"
    BY DEF Quiet
  <2>2. j - 1 \in DOMAIN inbox' /\ i < j - 1 /\ inbox'[j - 1] = inbox[j]
    <3>1. j - 1 \in DOMAIN inbox' /\ i < j - 1 /\ j - 1 + 1 = j
      BY <1>1, <2>1
    <3>2. QED
      BY <1>1, <3>1
  <2>3. QED
    BY <1>2, <2>2 DEF Quiet
<1>3. ASSUME NEW i \in DOMAIN inbox'
      PROVE  Says(inbox'[i], Quiet(inbox', i), subscribed', version', token', executed')
  <2>1. Says(inbox[i + 1], Quiet(inbox, i + 1), subscribed, version, token, executed)
    BY <1>1, InboxIs
  <2>2. inbox'[i] = inbox[i + 1]
    BY <1>1
  <2>3. Quiet(inbox', i) => Quiet(inbox, i + 1)
    BY <1>2
  <2>4. QED
    BY <2>1, <2>2, <2>3 DEF Says
<1>4. QED
  BY <1>3, InboxIs

\* Home Assistant answers.
LEMMA InboxAnswers ==
  ASSUME TypeOK, InboxInv, NEW r \in out, Answers(r)
  PROVE  InboxInv'
<1>1. PICK f \in Results :
         /\ inbox' = Append(inbox, f)
         /\ f.to = r /\ f.kind = "result" /\ f.user \in {token, "unusable", None}
         /\ r.what = "states" => f.version = version
         /\ subscribed' = (subscribed \/ (f.ok /\ r.what = "subscribe"))
         /\ executed' = IF f.ok /\ r.by \in Callers THEN executed \cup {r.by} ELSE executed
         /\ out' = out \ {r}
         /\ UNCHANGED <<connVars, version>>
  BY AnswersEffect
<1>2. token' = token /\ version' = version /\ executed \subseteq executed'
      /\ (subscribed => subscribed')
  BY <1>1 DEF connVars
<1>3. /\ DOMAIN inbox' = 1..(Len(inbox) + 1) /\ inbox'[Len(inbox) + 1] = f
      /\ \A i \in DOMAIN inbox : inbox'[i] = inbox[i]
      /\ Len(inbox) \in Nat /\ DOMAIN inbox = 1..Len(inbox)
  BY <1>1, AppendFacts, InboxFacts
<1>4. ASSUME NEW i \in DOMAIN inbox'
      PROVE  Says(inbox'[i], Quiet(inbox', i), subscribed', version', token', executed')
  <2>1. CASE i \in DOMAIN inbox
    <3>1. Says(inbox[i], Quiet(inbox, i), subscribed, version, token, executed)
      BY <2>1, InboxIs
    <3>2. Quiet(inbox', i) => Quiet(inbox, i)
      BY <1>3 DEF Quiet
    <3>3. inbox'[i] = inbox[i]
      BY <1>3, <2>1
    <3>4. QED
      BY <1>2, <3>1, <3>2, <3>3 DEF Says
  <2>2. CASE i = Len(inbox) + 1
    <3>1. inbox'[i] = f
      BY <1>3, <2>2
    <3>2. r.what = "states" => subscribed'
      BY <1>2, InboxIs
    <3>3. f.ok /\ r.what = "subscribe" => subscribed'
      BY <1>1
    <3>4. f.ok /\ r.by \in Callers => r.by \in executed'
      BY <1>1
    <3>5. QED
      BY <1>1, <1>2, <3>1, <3>2, <3>3, <3>4 DEF Says
  <2>3. QED
    BY <1>3, <2>1, <2>2
<1>5. \A q \in out' : q.what = "states" => subscribed'
  BY <1>1, <1>2, InboxIs
<1>6. QED
  BY <1>4, <1>5, InboxIs

\* Home Assistant changes a state: whatever stands before the event is old news.
LEMMA InboxChanges ==
  ASSUME TypeOK, InboxInv, NEW who \in Users \cup {None}, Changes(who)
  PROVE  InboxInv' /\ (subscribed => ~Quiet(inbox', 0))
<1>1. PICK f \in Events :
         /\ f.version = version' /\ f.kind = "event"
         /\ inbox' = IF subscribed THEN Append(inbox, f) ELSE inbox
         /\ UNCHANGED <<connVars, out, subscribed, executed>>
  BY ChangesEffect
<1>2. token' = token /\ out' = out /\ subscribed' = subscribed /\ executed' = executed
  BY <1>1 DEF connVars
<1>3. CASE ~subscribed
  <2>1. inbox' = inbox
    BY <1>1, <1>3
  <2>2. \A i \in DOMAIN inbox :
           Says(inbox[i], Quiet(inbox, i), subscribed, version', token, executed)
    BY <1>3, InboxIs DEF Says
  <2>3. QED
    BY <1>2, <1>3, <2>1, <2>2, InboxIs
<1>4. CASE subscribed
  <2>1. /\ DOMAIN inbox' = 1..(Len(inbox) + 1) /\ inbox'[Len(inbox) + 1] = f
        /\ \A i \in DOMAIN inbox : inbox'[i] = inbox[i]
        /\ Len(inbox) \in Nat /\ DOMAIN inbox = 1..Len(inbox)
    BY <1>1, <1>4, AppendFacts, InboxFacts
  <2>2. ASSUME NEW i \in 0..Len(inbox) PROVE ~Quiet(inbox', i)
    <3>1. Len(inbox) + 1 \in DOMAIN inbox' /\ i < Len(inbox) + 1
      BY <2>1
    <3>2. QED
      BY <1>1, <2>1, <3>1 DEF Quiet
  <2>3. ASSUME NEW i \in DOMAIN inbox'
        PROVE  Says(inbox'[i], Quiet(inbox', i), subscribed', version', token', executed')
    <3>1. CASE i \in DOMAIN inbox
      <4>1. Says(inbox[i], Quiet(inbox, i), subscribed, version, token, executed)
        BY <3>1, InboxIs
      <4>2. ~Quiet(inbox', i) /\ inbox'[i] = inbox[i]
        BY <2>1, <2>2, <3>1
      <4>3. QED
        BY <1>2, <4>1, <4>2 DEF Says
    <3>2. CASE i = Len(inbox) + 1
      <4>1. inbox'[i] = f
        BY <2>1, <3>2
      <4>2. QED
        BY <1>1, <1>2, <1>4, <4>1 DEF Says
    <3>3. QED
      BY <2>1, <3>1, <3>2
  <2>4. 0 \in 0..Len(inbox)
    BY <2>1
  <2>5. QED
    BY <1>2, <1>4, <2>2, <2>3, <2>4, InboxIs
<1>5. QED
  BY <1>3, <1>4

\* What goes out asks for the states only behind the subscription.
LEMMA InboxSend ==
  ASSUME InboxInv, NEW t, NEW what, Send(t, what), what # "states" \/ subscribed,
         inbox' = inbox /\ subscribed' = subscribed /\ version' = version /\ token' = token
             /\ executed' = executed
  PROVE  InboxInv'
<1>1. PICK id \in Nat : Sends(t, what, id)
  BY SendEffect
<1>2. \A r \in out' : r \in out \/ r.what = what
  BY <1>1 DEF Sends
<1>3. QED
  BY <1>2, InboxSame

\* Nothing to read at first.
LEMMA InboxInit == Init => InboxInv
  BY DEF Init, InboxInv

\* Every step keeps what the frames say.
LEMMA InboxNext ==
  ASSUME TypeOK, InboxInv, SetupInv, [Next]_vars
  PROVE  InboxInv'
<1>1. CASE HandshakeFails \/ Break \/ Swap \/ SetupFails
  <2>1. inbox' = <<>> /\ out' = {}
    BY <1>1 DEF HandshakeFails, Break, Swap, SetupFails, WireGone
  <2>2. QED
    BY <2>1, InboxGone
<1>2. CASE Connect \/ ReaderLeaves \/ Unreachable \/ SetupConnected
           \/ (\E c \in Callers : CallRefused(c)) \/ (\E t \in Waiting : CommandEnds(t))
           \/ UNCHANGED vars
  <2>1. UNCHANGED <<inbox, subscribed, version, token, executed, out>>
    BY <1>2 DEF Connect, ReaderLeaves, Unreachable, SetupConnected, CallRefused, CommandEnds,
       callFrame, connVars, wireVars, haVars, vars
  <2>2. QED
    BY <2>1, InboxSame
<1>3. CASE AuthOk
  BY <1>3, InboxSend DEF AuthOk, haVars
<1>4. CASE RefreshAsks
  BY <1>4, InboxSend DEF RefreshAsks, connVars, haVars
<1>5. ASSUME NEW c \in Callers, CallService(c) PROVE InboxInv'
  <2>1. /\ Send(c, "call")
        /\ inbox' = inbox /\ subscribed' = subscribed /\ token' = token
        /\ version' = version /\ executed' = executed
    BY <1>5 DEF CallService, callFrame, connVars, haVars
  <2>2. QED
    BY <2>1, InboxSend
<1>6. CASE SetupGoesOn
  <2>1. /\ Send("setup", NextCommand[cmd["setup"].what]) /\ link = "open" /\ Waits("setup")
        /\ cmd["setup"].what # "services"
        /\ Succeeded("setup") \/ cmd["setup"].what = "user"
        /\ inbox' = inbox /\ subscribed' = subscribed /\ token' = token
        /\ version' = version /\ executed' = executed
    BY <1>6 DEF SetupGoesOn, connVars, haVars
  <2>2. cmd["setup"].what \in {"user", "subscribe", "states"}
    BY <2>1, AsksFacts DEF TypeOK, Waits
  <2>3. NextCommand[cmd["setup"].what] = "states" => cmd["setup"].what = "subscribe"
    BY <2>2 DEF NextCommand
  <2>4. cmd["setup"].what = "subscribe" => subscribed
    BY <2>1 DEF SetupInv, Past
  <2>5. QED
    BY <2>1, <2>3, <2>4, InboxSend
<1>7. CASE HandleResult
  <2>1. /\ inbox # <<>> /\ inbox' = Tail(inbox)
        /\ UNCHANGED <<connVars, out, subscribed, haVars>>
    BY <1>7, ResultEffect
  <2>2. QED
    BY <2>1, InboxRead DEF connVars, haVars
<1>8. CASE HandleStateChanged
  <2>1. /\ inbox # <<>> /\ inbox' = Tail(inbox)
        /\ UNCHANGED <<connVars, out, subscribed, haVars>>
    BY <1>8 DEF HandleStateChanged, Reads
  <2>2. QED
    BY <2>1, InboxRead DEF connVars, haVars
<1>9. QED
  BY <1>1, <1>2, <1>3, <1>4, <1>5, <1>6, <1>7, <1>8, InboxAnswers, InboxChanges
     DEF Next, RunStep, SetupStep

-----------------------------------------------------------------------------
(* What the setup has reached                                              *)

\* The setup waits, and its command is c; it has got past its command "what".
Got(conn, waits, c, what) ==
    \/ conn
    \/ /\ waits
       /\ \/ c.what = what /\ c.answer # Nothing /\ c.answer # Lost /\ c.answer.ok
          \/ what = "subscribe" /\ c.what \in {"states", "services"}
          \/ what = "states" /\ c.what = "services"

\* SetupInv, before and after a step.
LEMMA SetupIs ==
  /\ SetupInv <=>
       /\ "setup" \in DOMAIN cmd => ~connected
       /\ "setup" \in DOMAIN cmd /\ cmd["setup"].answer # Nothing /\ cmd["setup"].answer # Lost =>
              cmd["setup"].answer.user \in {token, "unusable", None}
       /\ link = "open" =>
           /\ user_id \in {token, None}
           /\ Got(connected, "setup" \in DOMAIN cmd, cmd["setup"], "subscribe") => subscribed
           /\ Got(connected, "setup" \in DOMAIN cmd, cmd["setup"], "states") /\ Quiet(inbox, 0) =>
                  states = version
  /\ SetupInv' <=>
       /\ "setup" \in DOMAIN cmd' => ~connected'
       /\ "setup" \in DOMAIN cmd' /\ cmd'["setup"].answer # Nothing
              /\ cmd'["setup"].answer # Lost =>
              cmd'["setup"].answer.user \in {token', "unusable", None}
       /\ link' = "open" =>
           /\ user_id' \in {token', None}
           /\ Got(connected', "setup" \in DOMAIN cmd', cmd'["setup"], "subscribe") => subscribed'
           /\ Got(connected', "setup" \in DOMAIN cmd', cmd'["setup"], "states")
                  /\ Quiet(inbox', 0) => states' = version'
<1> USE DEF Waits, Succeeded, Answered, Past, Got, NoNewsAfter, Quiet, Nothing, Lost
<1>1. Past("subscribe") <=> Got(connected, "setup" \in DOMAIN cmd, cmd["setup"], "subscribe")
  OBVIOUS
<1>2. Past("states") <=> Got(connected, "setup" \in DOMAIN cmd, cmd["setup"], "states")
  OBVIOUS
<1>3. Past("subscribe")' <=> Got(connected', "setup" \in DOMAIN cmd', cmd'["setup"], "subscribe")
  OBVIOUS
<1>4. Past("states")' <=> Got(connected', "setup" \in DOMAIN cmd', cmd'["setup"], "states")
  OBVIOUS
<1> HIDE DEF Past, Got
<1>5. QED
  BY <1>1, <1>2, <1>3, <1>4 DEF SetupInv

\* The setup's command is as it was.
SetupKept ==
    /\ "setup" \in DOMAIN cmd' <=> "setup" \in DOMAIN cmd
    /\ "setup" \in DOMAIN cmd => cmd'["setup"] = cmd["setup"]

\* Nothing the setup has to do with moves.
LEMMA SetupSame ==
  ASSUME SetupInv, SetupKept,
         connected' = connected /\ token' = token /\ link' = link /\ user_id' = user_id,
         states' = states /\ version' = version /\ inbox' = inbox /\ subscribed' = subscribed
  PROVE  SetupInv'
<1>1. \A what : Got(connected', "setup" \in DOMAIN cmd', cmd'["setup"], what) <=>
                Got(connected, "setup" \in DOMAIN cmd, cmd["setup"], what)
  BY DEF SetupKept, Got
<1>2. QED
  BY <1>1, SetupIs DEF SetupKept

\* The WebSocket is gone, and the setup with it or at its last command.
LEMMA SetupGone ==
  ASSUME SetupInv, link' # "open", "setup" \notin DOMAIN cmd' \/ SetupKept,
         connected' => connected, token' = token \/ "setup" \notin DOMAIN cmd'
  PROVE  SetupInv'
  BY SetupIs DEF SetupKept

\* Another task's command.
LEMMA SendKeeps ==
  ASSUME NEW t, NEW what, Send(t, what), t # "setup"
  PROVE  SetupKept
<1>1. PICK id \in Nat : Sends(t, what, id)
  BY SendEffect
<1>2. QED
  BY <1>1 DEF Sends, SetupKept

\* The end of another task's command.
LEMMA ForgetKeeps ==
  ASSUME NEW t, Forget(t), t # "setup"
  PROVE  SetupKept
<1>1. /\ DOMAIN cmd' = DOMAIN cmd \ {t}
      /\ \A u \in DOMAIN cmd \ {t} : cmd'[u] = cmd[u]
  BY ForgetEffect
<1>2. QED
  BY <1>1 DEF SetupKept

\* An answer or an event comes in; nothing is read.
LEMMA SetupHears ==
  ASSUME TypeOK, LinkInv, SetupInv, InboxInv,
         (\E r \in out : Answers(r)) \/ (\E who \in Users \cup {None} : Changes(who))
  PROVE  SetupInv'
<1>1. ASSUME NEW r \in out, Answers(r) PROVE SetupInv'
  <2>1. PICK f \in Results :
         /\ inbox' = Append(inbox, f) /\ f.kind = "result"
         /\ subscribed' = (subscribed \/ (f.ok /\ r.what = "subscribe"))
         /\ UNCHANGED <<connVars, cmdVars, stateVars, version>>
    BY <1>1, AnswersEffect
  <2>2. UNCHANGED <<connected, token, link, user_id, states, version, cmd>>
        /\ (subscribed => subscribed')
    BY <2>1 DEF connVars, cmdVars, stateVars
  <2>3. \A i \in DOMAIN inbox : i \in DOMAIN inbox' /\ inbox'[i] = inbox[i]
    BY <2>1, AppendFacts, InboxFacts
  <2>4. Quiet(inbox', 0) => Quiet(inbox, 0)
    BY <2>3 DEF Quiet
  <2>5. QED
    BY <2>2, <2>4, SetupIs
<1>2. ASSUME NEW who \in Users \cup {None}, Changes(who) PROVE SetupInv'
  <2>1. UNCHANGED <<connVars, cmdVars, subscribed, stateVars>>
    BY <1>2, ChangesEffect
  <2>2. UNCHANGED <<connected, token, link, user_id, states, subscribed, cmd>>
    BY <2>1 DEF connVars, cmdVars, stateVars
  <2>3. Got(connected, "setup" \in DOMAIN cmd, cmd["setup"], "states") =>
        Got(connected, "setup" \in DOMAIN cmd, cmd["setup"], "subscribe")
    BY DEF Got
  <2>4. subscribed => ~Quiet(inbox', 0)
    BY <1>2, InboxChanges
  <2>5. QED
    BY <2>2, <2>3, <2>4, SetupIs
<1>3. QED
  BY <1>1, <1>2

\* Once the first frame is read, what it carried is the newest if no event is left.
LEMMA QuietTail ==
  ASSUME TypeOK, inbox # <<>>, Quiet(Tail(inbox), 0)
  PROVE  Quiet(inbox, 1) /\ (inbox[1].kind # "event" => Quiet(inbox, 0))
<1>1. /\ DOMAIN Tail(inbox) = 1..(Len(inbox) - 1)
      /\ Len(inbox) \in Nat /\ DOMAIN inbox = 1..Len(inbox)
      /\ \A i \in DOMAIN Tail(inbox) : Tail(inbox)[i] = inbox[i + 1]
  BY TailFacts, InboxFacts
<1>2. ASSUME NEW j \in DOMAIN inbox, 1 < j PROVE inbox[j].kind # "event"
  <2>1. j - 1 \in DOMAIN Tail(inbox) /\ 0 < j - 1 /\ j - 1 + 1 = j
    BY <1>1, <1>2
  <2>2. Tail(inbox)[j - 1] = inbox[j]
    BY <1>1, <2>1
  <2>3. QED
    BY <2>1, <2>2 DEF Quiet
<1>3. Quiet(inbox, 1)
  BY <1>2 DEF Quiet
<1>4. ASSUME inbox[1].kind # "event" PROVE Quiet(inbox, 0)
  <2>1. \A j \in DOMAIN inbox : j = 1 \/ 1 < j
    BY <1>1
  <2>2. QED
    BY <1>2, <1>4, <2>1 DEF Quiet
<1>5. QED
  BY <1>3, <1>4

\* An event that is read brings its version, the newest if none is behind it.
LEMMA SetupReadsEvent ==
  ASSUME TypeOK, SetupInv, InboxInv, HandleStateChanged
  PROVE  SetupInv'
<1>1. /\ inbox # <<>> /\ inbox' = Tail(inbox) /\ Head(inbox).kind = "event" /\ cmd' = cmd
      /\ states' = Head(inbox).version
      /\ UNCHANGED <<connVars, subscribed, user_id, haVars>>
  BY DEF HandleStateChanged, Reads
<1>2. UNCHANGED <<connected, token, link, user_id, version, subscribed, cmd>>
  BY <1>1 DEF connVars, haVars
<1>3. Head(inbox) = inbox[1] /\ 1 \in DOMAIN inbox
  BY <1>1, TailFacts
<1>4. Quiet(inbox', 0) => states' = version
  <2>1. Quiet(inbox', 0) => Quiet(inbox, 1)
    BY <1>1, QuietTail
  <2>2. Says(inbox[1], Quiet(inbox, 1), subscribed, version, token, executed)
    BY <1>3, InboxIs
  <2>3. QED
    BY <1>1, <1>3, <2>1, <2>2 DEF Says
<1>5. QED
  BY <1>2, <1>4, SetupIs

\* A reply that is read installs its version, the newest if no event is behind it.
LEMMA SetupReadsResult ==
  ASSUME TypeOK, SetupInv, InboxInv, IdInv, HandleResult
  PROVE  SetupInv'
<1>1. /\ inbox # <<>> /\ inbox' = Tail(inbox) /\ inbox[1] \in Results /\ Head(inbox) = inbox[1]
      /\ DOMAIN cmd' = DOMAIN cmd
      /\ UNCHANGED <<connVars, subscribed, user_id, haVars>>
  BY ResultEffect
<1>2. UNCHANGED <<connected, token, link, user_id, version, subscribed>>
  BY <1>1 DEF connVars, haVars
<1>3. 1 \in DOMAIN inbox /\ inbox[1].kind = "result" /\ inbox[1] # Lost
  BY <1>1, TailFacts, Kinds
<1>4. Says(inbox[1], Quiet(inbox, 1), subscribed, version, token, executed)
  BY <1>3, InboxIs
<1>5. Quiet(inbox', 0) => Quiet(inbox, 1) /\ Quiet(inbox, 0)
  BY <1>1, <1>3, QuietTail
<1>6. CASE "setup" \in DOMAIN cmd /\ "setup" \in AnswersTo(inbox[1])
  <2>1. /\ cmd["setup"].answer = Nothing
        /\ inbox[1].to.id \in DOMAIN pending /\ pending[inbox[1].to.id] = "setup"
        /\ cmd'["setup"].answer = inbox[1] /\ cmd'["setup"].what = cmd["setup"].what
    BY <1>6, ResultEffect
  <2>2. inbox[1].to.id = cmd["setup"].id
    BY <2>1, IdParts DEF BookInv
  <2>3. inbox[1].to.what = cmd["setup"].what
    BY <1>3, <1>6, <2>2, IdParts DEF WireInv, Belongs
  <2>4. ~connected
    BY <1>6, SetupIs
  <2>5. inbox[1].user \in {token, "unusable", None}
    BY <1>3, <1>4 DEF Says
  <2>6. Got(connected', "setup" \in DOMAIN cmd', cmd'["setup"], "subscribe") =>
        subscribed \/ Got(connected, "setup" \in DOMAIN cmd, cmd["setup"], "subscribe")
    BY <1>1, <1>2, <1>3, <1>4, <1>6, <2>1, <2>3 DEF Got, Says
  <2>7. ASSUME Got(connected', "setup" \in DOMAIN cmd', cmd'["setup"], "states"), Quiet(inbox', 0),
               link = "open"
        PROVE  states' = version
    <3>1. CASE cmd["setup"].what = "services"
      <4>1. \A t \in AnswersTo(inbox[1]) : t = "setup"
        BY <2>1 DEF AnswersTo
      <4>2. states' = states
        BY <1>1, <3>1, <4>1 DEF HandleResult
      <4>3. Got(connected, "setup" \in DOMAIN cmd, cmd["setup"], "states")
        BY <1>6, <3>1 DEF Got
      <4>4. QED
        BY <1>5, <2>7, <4>2, <4>3, SetupIs
    <3>2. CASE cmd["setup"].what = "states" /\ inbox[1].ok
      <4>1. states' = inbox[1].version
        BY <1>1, <1>6, <3>2 DEF HandleResult
      <4>2. inbox[1].version = version
        BY <1>4, <1>5, <2>3, <2>7, <3>2 DEF Says
      <4>3. QED
        BY <4>1, <4>2
    <3>3. QED
      BY <1>2, <2>1, <2>4, <2>7, <3>1, <3>2 DEF Got
  <2>8. QED
    BY <1>1, <1>2, <2>1, <2>4, <2>5, <2>6, <2>7, SetupIs
<1>7. CASE ~("setup" \in DOMAIN cmd /\ "setup" \in AnswersTo(inbox[1]))
  <2>1. "setup" \in DOMAIN cmd => cmd'["setup"] = cmd["setup"]
    BY <1>7, ResultEffect
  <2>2. \A t \in AnswersTo(inbox[1]) : cmd[t].what # "states"
    <3>1. SUFFICES ASSUME NEW t \in AnswersTo(inbox[1]) PROVE cmd[t].what # "states"
      OBVIOUS
    <3>2. t \in DOMAIN cmd /\ t # "setup"
      BY <1>7 DEF AnswersTo
    <3>3. t \in Tasks /\ cmd[t].what \in Asks(t)
      BY <3>2 DEF TypeOK
    <3>4. QED
      BY <3>2, <3>3, AsksFacts DEF Tasks
  <2>3. states' = states
    BY <1>1, <2>2 DEF HandleResult
  <2>4. \A what : Got(connected', "setup" \in DOMAIN cmd', cmd'["setup"], what) =>
                  Got(connected, "setup" \in DOMAIN cmd, cmd["setup"], what)
    BY <1>1, <1>2, <2>1 DEF Got
  <2>5. QED
    BY <1>1, <1>2, <1>5, <2>1, <2>3, <2>4, SetupIs
<1>8. QED
  BY <1>6, <1>7

\* The setup starts, and goes on.
LEMMA SetupSends ==
  ASSUME TypeOK, SocketInv, SetupInv, AuthOk \/ SetupGoesOn
  PROVE  SetupInv'
<1>1. CASE AuthOk
  <2>1. PICK id \in Nat : Sends("setup", "user", id)
    BY <1>1, SendEffect DEF AuthOk
  <2>2. cmd'["setup"].what = "user" /\ cmd'["setup"].answer = Nothing
    BY <2>1 DEF Sends
  <2>3. ~connected' /\ user_id' = None
    BY <1>1 DEF AuthOk, ForgetUser, SocketInv
  <2>4. QED
    BY <2>2, <2>3, SetupIs DEF Got
<1>2. CASE SetupGoesOn
  <2>1. /\ Send("setup", NextCommand[cmd["setup"].what]) /\ link = "open"
        /\ "setup" \in DOMAIN cmd /\ cmd["setup"].what # "services"
        /\ Succeeded("setup") \/ cmd["setup"].what = "user"
        /\ Learn
        /\ UNCHANGED <<connected, token, link, inbox, subscribed, version>>
    BY <1>2 DEF SetupGoesOn, Waits, connVars, haVars
  <2>2. PICK id \in Nat : Sends("setup", NextCommand[cmd["setup"].what], id)
    BY <2>1, SendEffect
  <2>3. cmd'["setup"].what = NextCommand[cmd["setup"].what] /\ cmd'["setup"].answer = Nothing
    BY <2>2 DEF Sends
  <2>4. cmd["setup"].what \in {"user", "subscribe", "states"}
    BY <2>1, AsksFacts DEF TypeOK
  <2>5. ~connected
    BY <2>1, SetupIs
  <2>6. user_id' \in {token, None} /\ states' = states
    <3>1. user_id \in {token, None}
      BY <2>1, SetupIs
    <3>2. Succeeded("setup") => cmd["setup"].answer.user \in {token, "unusable", None}
      BY <2>1, SetupIs DEF Succeeded, Answered
    <3>3. cmd["setup"].answer.user \in Users => cmd["setup"].answer.user # "unusable"
      BY SessionAssumption
    <3>4. QED
      BY <2>1, <3>1, <3>2, <3>3 DEF Learn
  <2>7. Got(connected', "setup" \in DOMAIN cmd', cmd'["setup"], "subscribe") =>
        Got(connected, "setup" \in DOMAIN cmd, cmd["setup"], "subscribe")
    BY <2>1, <2>3, <2>4, <2>5 DEF Got, NextCommand, Succeeded, Answered
  <2>8. Got(connected', "setup" \in DOMAIN cmd', cmd'["setup"], "states") =>
        Got(connected, "setup" \in DOMAIN cmd, cmd["setup"], "states")
    BY <2>1, <2>3, <2>4, <2>5 DEF Got, NextCommand, Succeeded, Answered
  <2>9. QED
    BY <2>1, <2>3, <2>5, <2>6, <2>7, <2>8, SetupIs
<1>3. QED
  BY <1>1, <1>2

\* The setup announces the connection, or fails.
LEMMA SetupEnds ==
  ASSUME TypeOK, SetupInv, SetupConnected \/ SetupFails
  PROVE  SetupInv'
<1>1. "setup" \notin DOMAIN cmd' /\ "setup" \in DOMAIN cmd
  BY ForgetEffect DEF SetupConnected, SetupFails, Waits
<1>2. CASE SetupFails
  BY <1>1, <1>2, SetupGone DEF SetupFails
<1>3. CASE SetupConnected
  <2>1. /\ cmd["setup"].what = "services"
        /\ UNCHANGED <<link, token, inbox, subscribed, user_id, states, version>>
    BY <1>3 DEF SetupConnected, wireVars, stateVars, haVars
  <2>2. /\ Got(connected, "setup" \in DOMAIN cmd, cmd["setup"], "subscribe")
        /\ Got(connected, "setup" \in DOMAIN cmd, cmd["setup"], "states")
    BY <1>1, <2>1 DEF Got
  <2>3. QED
    BY <1>1, <2>1, <2>2, SetupIs
<1>4. QED
  BY <1>2, <1>3

\* No setup runs at first.
LEMMA SetupInit == Init => SetupInv
<1>1. SUFFICES ASSUME Init PROVE SetupInv
  OBVIOUS
<1>2. DOMAIN cmd = {} /\ link = "down"
  BY <1>1 DEF Init
<1>3. QED
  BY <1>2, SetupIs

\* Every step keeps SetupInv.
LEMMA SetupNext ==
  ASSUME TypeOK, LinkInv, SocketInv, IdInv, InboxInv, SetupInv, [Next]_vars
  PROVE  SetupInv'
<1>0. "setup" \notin Callers
  BY SessionAssumption
<1>1. CASE Connect \/ HandshakeFails \/ Break \/ Unreachable
  <2>1. cmd' = cmd /\ token' = token /\ (connected' => connected) /\ link' # "open"
    BY <1>1 DEF Connect, HandshakeFails, Break, Unreachable, cmdVars
  <2>2. QED
    BY <2>1, SetupGone DEF SetupKept
<1>2. CASE ReaderLeaves
  <2>1. "setup" \notin DOMAIN cmd'
    <3>1. FailPending({"setup"})
      BY <1>2 DEF ReaderLeaves
    <3>2. DOMAIN cmd' = DOMAIN cmd \ {"setup"}
      BY <3>1, FailPendingEffect
    <3>3. QED
      BY <3>2
  <2>2. QED
    BY <1>2, <2>1, SetupGone DEF ReaderLeaves
<1>3. CASE Swap
  <2>1. "setup" \notin DOMAIN cmd'
    <3>1. CASE link \in {"open", "broken"}
      <4>1. FailPending({"setup", "refresh"})
        BY <1>3, <3>1 DEF Swap
      <4>2. DOMAIN cmd' = DOMAIN cmd \ {"setup", "refresh"}
        BY <4>1, FailPendingEffect
      <4>3. QED
        BY <4>2
    <3>2. CASE link \notin {"open", "broken"}
      BY <1>3, <3>2, ForgetEffect DEF Swap, SocketInv, Waits
    <3>3. QED
      BY <3>1, <3>2
  <2>2. QED
    BY <1>3, <2>1, SetupGone DEF Swap
<1>4. CASE RefreshAsks
  <2>1. SetupKept
    BY <1>4, SendKeeps DEF RefreshAsks
  <2>2. UNCHANGED <<connected, token, link, user_id, states, version, inbox, subscribed>>
    BY <1>4 DEF RefreshAsks, connVars, stateVars, haVars
  <2>3. QED
    BY <2>1, <2>2, SetupSame
<1>5. ASSUME NEW c \in Callers, CallService(c) PROVE SetupInv'
  <2>1. SetupKept
    BY <1>0, <1>5, SendKeeps DEF CallService
  <2>2. UNCHANGED <<connected, token, link, user_id, states, version, inbox, subscribed>>
    BY <1>5 DEF CallService, callFrame, connVars, stateVars, haVars
  <2>3. QED
    BY <2>1, <2>2, SetupSame
<1>6. ASSUME NEW t \in Waiting, CommandEnds(t) PROVE SetupInv'
  <2>1. SetupKept
    BY <1>0, <1>6, ForgetKeeps DEF CommandEnds, Waiting
  <2>2. UNCHANGED <<connected, token, link, user_id, states, version, inbox, subscribed>>
    BY <1>6 DEF CommandEnds, callFrame, connVars, stateVars, haVars
  <2>3. QED
    BY <2>1, <2>2, SetupSame
<1>7. CASE (\E c \in Callers : CallRefused(c)) \/ UNCHANGED vars
  <2>1. UNCHANGED <<cmd, connected, token, link, user_id, states, version, inbox, subscribed>>
    BY <1>7 DEF CallRefused, callFrame, connVars, cmdVars, wireVars, stateVars, haVars, vars
  <2>2. QED
    BY <2>1, SetupSame DEF SetupKept
<1>8. QED
  BY <1>1, <1>2, <1>3, <1>4, <1>5, <1>6, <1>7, SetupHears, SetupReadsEvent, SetupReadsResult,
     SetupSends, SetupEnds
     DEF Next, RunStep, SetupStep

-----------------------------------------------------------------------------
(* What the calls come to                                                  *)

\* The outcomes of a call that went out.
Ended == {"ok", "error", "lost", "timeout"}

\* CallInv and ReportsTruth, before and after a step.
LEMMA CallIs ==
  /\ CallInv /\ ReportsTruth <=>
       /\ \A c \in Callers : c \in DOMAIN cmd => outcome[c] = "none"
       /\ \A r \in out : r.by \in Callers => r.by \in DOMAIN cmd \/ outcome[r.by] \in Ended
       /\ \A c \in executed : c \in DOMAIN cmd \/ outcome[c] \in Ended
       /\ \A c \in Callers :
             c \in DOMAIN cmd /\ cmd[c].answer # Nothing /\ cmd[c].answer # Lost
                 /\ cmd[c].answer.ok => c \in executed
       /\ \A c \in Callers :
             /\ outcome[c] = "ok" => c \in executed
             /\ outcome[c] \in {"closed", "not_connected"} => c \notin executed
  /\ CallInv' /\ ReportsTruth' <=>
       /\ \A c \in Callers : c \in DOMAIN cmd' => outcome'[c] = "none"
       /\ \A r \in out' : r.by \in Callers => r.by \in DOMAIN cmd' \/ outcome'[r.by] \in Ended
       /\ \A c \in executed' : c \in DOMAIN cmd' \/ outcome'[c] \in Ended
       /\ \A c \in Callers :
             c \in DOMAIN cmd' /\ cmd'[c].answer # Nothing /\ cmd'[c].answer # Lost
                 /\ cmd'[c].answer.ok => c \in executed'
       /\ \A c \in Callers :
             /\ outcome'[c] = "ok" => c \in executed'
             /\ outcome'[c] \in {"closed", "not_connected"} => c \notin executed'
  BY DEF CallInv, ReportsTruth, Sent, Waits, Succeeded, Answered, Ended, Nothing, Lost

\* The callers' commands are as they were, or lost.
CallsKept ==
    \A c \in Callers :
        /\ c \in DOMAIN cmd' <=> c \in DOMAIN cmd
        /\ c \in DOMAIN cmd => cmd'[c].answer = cmd[c].answer \/ cmd'[c].answer = Lost

\* Nothing the calls have to do with moves.
LEMMA CallsSame ==
  ASSUME TypeOK, CallInv, ReportsTruth, CallsKept, outcome' = outcome, executed' = executed,
         \A r \in out' : r \in out \/ r.by \notin Callers
  PROVE  CallInv' /\ ReportsTruth'
<1>1. executed \subseteq Callers
  BY DEF TypeOK
<1>2. QED
  BY <1>1, CallIs DEF CallsKept

\* A command of the setup or of the refresh, and its end.
LEMMA OtherSends ==
  ASSUME NEW t, NEW what, Send(t, what), t \notin Callers
  PROVE  CallsKept /\ \A r \in out' : r \in out \/ r.by \notin Callers
<1>1. PICK id \in Nat : Sends(t, what, id)
  BY SendEffect
<1>2. /\ DOMAIN cmd' = DOMAIN cmd \cup {t}
      /\ \A u \in DOMAIN cmd \ {t} : cmd'[u] = cmd[u]
      /\ out' = out \cup {[id |-> id, by |-> t, what |-> what]}
  BY <1>1 DEF Sends
<1>3. QED
  BY <1>2 DEF CallsKept

\* The end of such a command.
LEMMA OtherForgets ==
  ASSUME NEW t, Forget(t), t \notin Callers
  PROVE  CallsKept
<1>1. /\ DOMAIN cmd' = DOMAIN cmd \ {t}
      /\ \A u \in DOMAIN cmd \ {t} : cmd'[u] = cmd[u]
  BY ForgetEffect
<1>2. QED
  BY <1>1 DEF CallsKept

\* A lost WebSocket tells the calls no success.
LEMMA LossKeeps ==
  ASSUME TypeOK, NEW ended, FailPending(ended), ended \cap Callers = {}
  PROVE  CallsKept
<1>1. /\ DOMAIN cmd' = DOMAIN cmd \ ended
      /\ \A u \in DOMAIN cmd' : cmd'[u].answer = Lost \/ cmd'[u].answer = cmd[u].answer
  BY FailPendingEffect
<1>2. QED
  BY <1>1 DEF CallsKept

\* A call that was sent and answered was carried out.
LEMMA CallAnswered ==
  ASSUME TypeOK, CallInv, ReportsTruth, NEW r \in out, Answers(r)
  PROVE  CallInv' /\ ReportsTruth'
<1>1. PICK f \in Results :
         /\ executed' = IF f.ok /\ r.by \in Callers THEN executed \cup {r.by} ELSE executed
         /\ out' = out \ {r}
         /\ UNCHANGED <<cmdVars, outcome>>
  BY AnswersEffect
<1>2. cmd' = cmd /\ outcome' = outcome
  BY <1>1 DEF cmdVars
<1>3. \A c \in executed' : c \in executed \/ (c = r.by /\ r.by \in Callers)
  BY <1>1
<1>4. r.by \in Callers => r.by \in DOMAIN cmd \/ outcome[r.by] \in Ended
  BY CallIs
<1>5. r.by \in Callers => outcome[r.by] \notin {"closed", "not_connected"}
  BY <1>4, CallIs DEF Ended
<1>6. QED
  BY <1>1, <1>2, <1>3, <1>4, <1>5, CallIs

\* A success that is read was carried out.
LEMMA CallHeard ==
  ASSUME TypeOK, IdInv, InboxInv, CallInv, ReportsTruth, HandleResult
  PROVE  CallInv' /\ ReportsTruth'
<1>1. /\ inbox # <<>> /\ inbox[1] \in Results /\ DOMAIN cmd' = DOMAIN cmd
      /\ UNCHANGED <<out, haVars, outcome>>
  BY ResultEffect
<1>2. 1 \in DOMAIN inbox /\ inbox[1].kind = "result"
  BY <1>1, TailFacts, Kinds
<1>3. Says(inbox[1], Quiet(inbox, 1), subscribed, version, token, executed)
  BY <1>2, InboxIs
<1>4. ASSUME NEW c \in Callers, c \in DOMAIN cmd, cmd'[c].answer # Nothing,
             cmd'[c].answer # Lost, cmd'[c].answer.ok
      PROVE  c \in executed
  <2>1. CASE cmd'[c] = cmd[c]
    BY <1>4, <2>1, CallIs
  <2>2. CASE /\ inbox[1].to.id \in DOMAIN pending /\ pending[inbox[1].to.id] = c
             /\ cmd'[c].answer = inbox[1]
    <3>1. inbox[1].to.id = cmd[c].id
      BY <2>2, IdParts DEF BookInv
    <3>2. inbox[1].to.by = c
      BY <1>2, <1>4, <3>1, IdParts DEF WireInv, Belongs
    <3>3. QED
      BY <1>2, <1>3, <1>4, <2>2, <3>2 DEF Says
  <2>3. QED
    BY <1>4, <2>1, <2>2, ResultEffect
<1>5. out' = out /\ executed' = executed /\ outcome' = outcome
  BY <1>1 DEF haVars
<1>6. QED
  BY <1>1, <1>4, <1>5, CallIs

\* A call goes out once.
LEMMA CallMade ==
  ASSUME TypeOK, CallInv, ReportsTruth, NEW c \in Callers, CallService(c)
  PROVE  CallInv' /\ ReportsTruth'
<1>1. /\ Send(c, "call") /\ outcome[c] = "none"
      /\ outcome' = outcome /\ executed' = executed
  BY DEF CallService, callFrame, haVars
<1>2. PICK id \in Nat : Sends(c, "call", id)
  BY <1>1, SendEffect
<1>3. /\ DOMAIN cmd' = DOMAIN cmd \cup {c}
      /\ cmd'[c].answer = Nothing
      /\ \A u \in DOMAIN cmd \ {c} : cmd'[u] = cmd[u]
      /\ \A r \in out' : r \in out \/ r.by = c
  BY <1>2 DEF Sends
<1>4. QED
  BY <1>1, <1>3, CallIs

\* A call that is refused was never sent.
LEMMA CallTurnedDown ==
  ASSUME TypeOK, CallInv, ReportsTruth, NEW c \in Callers, CallRefused(c)
  PROVE  CallInv' /\ ReportsTruth'
<1>1. /\ c \notin DOMAIN cmd /\ outcome[c] = "none"
      /\ outcome' \in [Callers -> {outcome[b] : b \in Callers} \cup {"closed", "not_connected"}]
      /\ outcome'[c] \in {"closed", "not_connected"}
      /\ \A b \in Callers : b # c => outcome'[b] = outcome[b]
      /\ cmd' = cmd /\ out' = out /\ executed' = executed
  BY DEF CallRefused, callFrame, cmdVars, haVars, Waits, TypeOK
<1>2. c \notin executed
  BY <1>1, CallIs DEF Ended
<1>3. \A r \in out : r.by # c
  BY <1>1, CallIs DEF Ended
<1>4. executed \subseteq Callers
  BY DEF TypeOK
<1>5. QED
  BY <1>1, <1>2, <1>3, <1>4, CallIs

\* A call that returns says what it was told.
LEMMA CallEnds ==
  ASSUME TypeOK, CallInv, ReportsTruth, NEW t \in Waiting, CommandEnds(t)
  PROVE  CallInv' /\ ReportsTruth'
<1>1. /\ Forget(t) /\ out' = out /\ executed' = executed /\ t \in DOMAIN cmd
  BY DEF CommandEnds, callFrame, haVars, Waits
<1>2. PICK verdict \in {"timeout", "lost", "ok", "error"} :
        /\ verdict = "ok" => Succeeded(t)
        /\ outcome' = IF t \in Callers THEN [outcome EXCEPT ![t] = verdict] ELSE outcome
  BY DEF CommandEnds
<1>3. /\ DOMAIN cmd' = DOMAIN cmd \ {t}
      /\ \A u \in DOMAIN cmd \ {t} : cmd'[u] = cmd[u]
  BY <1>1, ForgetEffect
<1>4. CASE t \notin Callers
  <2>1. CallsKept /\ outcome' = outcome
    BY <1>1, <1>2, <1>4, OtherForgets
  <2>2. QED
    BY <1>1, <2>1, CallsSame
<1>5. CASE t \in Callers
  <2>1. outcome'[t] = verdict /\ \A c \in Callers : c # t => outcome'[c] = outcome[c]
    BY <1>2, <1>5 DEF TypeOK
  <2>2. verdict \in Ended /\ verdict \notin {"closed", "not_connected"}
    BY DEF Ended
  <2>3. verdict = "ok" => t \in executed
    <3>1. Succeeded(t) => cmd[t].answer # Nothing /\ cmd[t].answer # Lost /\ cmd[t].answer.ok
      BY DEF Succeeded, Answered
    <3>2. QED
      BY <1>1, <1>2, <1>5, <3>1, CallIs
  <2>4. executed \subseteq Callers
    BY DEF TypeOK
  <2>5. QED
    BY <1>1, <1>3, <1>5, <2>1, <2>2, <2>3, <2>4, CallIs
<1>6. QED
  BY <1>4, <1>5

\* No call has been made at first.
LEMMA CallInit == Init => CallInv /\ ReportsTruth
<1>1. SUFFICES ASSUME Init PROVE CallInv /\ ReportsTruth
  OBVIOUS
<1>2. /\ DOMAIN cmd = {} /\ out = {} /\ executed = {}
      /\ \A c \in Callers : outcome[c] = "none"
  BY <1>1 DEF Init
<1>3. QED
  BY <1>2, CallIs

\* Every step keeps CallInv and the outcomes.
LEMMA CallNext ==
  ASSUME TypeOK, IdInv, InboxInv, CallInv, ReportsTruth, [Next]_vars
  PROVE  CallInv' /\ ReportsTruth'
<1>0. "setup" \notin Callers /\ "refresh" \notin Callers
  BY SessionAssumption
<1>1. CASE \/ Connect \/ HandshakeFails \/ Break \/ Unreachable \/ HandleStateChanged
           \/ (\E who \in Users \cup {None} : Changes(who)) \/ UNCHANGED vars
  <2>1. cmd' = cmd /\ outcome' = outcome /\ executed' = executed /\ (out' = out \/ out' = {})
    BY <1>1 DEF Connect, HandshakeFails, Break, Unreachable, HandleStateChanged, Reads, Changes,
       WireGone, cmdVars, wireVars, haVars, vars
  <2>2. QED
    BY <2>1, CallsSame DEF CallsKept
<1>2. CASE AuthOk \/ SetupGoesOn
  <2>1. (\E what : Send("setup", what)) /\ outcome' = outcome /\ executed' = executed
    BY <1>2 DEF AuthOk, SetupGoesOn, haVars
  <2>2. QED
    BY <1>0, <2>1, OtherSends, CallsSame
<1>3. CASE RefreshAsks
  <2>1. Send("refresh", "registries") /\ outcome' = outcome /\ executed' = executed
    BY <1>3 DEF RefreshAsks, haVars
  <2>2. QED
    BY <1>0, <2>1, OtherSends, CallsSame
<1>4. CASE SetupConnected \/ SetupFails
  <2>1. Forget("setup") /\ outcome' = outcome /\ executed' = executed /\ (out' = out \/ out' = {})
    BY <1>4 DEF SetupConnected, SetupFails, WireGone, wireVars, haVars
  <2>2. QED
    BY <1>0, <2>1, OtherForgets, CallsSame
<1>5. CASE ReaderLeaves
  <2>1. FailPending({"setup"}) /\ outcome' = outcome /\ executed' = executed /\ out' = out
    BY <1>5 DEF ReaderLeaves, wireVars, haVars
  <2>2. CallsKept
    BY <1>0, <2>1, LossKeeps
  <2>3. QED
    BY <2>1, <2>2, CallsSame
<1>6. CASE Swap
  <2>1. outcome' = outcome /\ executed' = executed /\ out' = {}
    BY <1>6 DEF Swap, WireGone, haVars
  <2>2. FailPending({"setup", "refresh"}) \/ Forget("refresh")
    BY <1>6 DEF Swap
  <2>3. CASE FailPending({"setup", "refresh"})
    <3>1. {"setup", "refresh"} \cap Callers = {}
      BY SessionAssumption
    <3>2. CallsKept
      BY <2>3, <3>1, LossKeeps
    <3>3. QED
      BY <2>1, <3>2, CallsSame
  <2>4. CASE Forget("refresh")
    BY <1>0, <2>1, <2>4, OtherForgets, CallsSame
  <2>5. QED
    BY <2>2, <2>3, <2>4
<1>7. QED
  BY <1>1, <1>2, <1>3, <1>4, <1>5, <1>6, CallAnswered, CallHeard, CallMade, CallTurnedDown,
     CallEnds
     DEF Next, RunStep, SetupStep

-----------------------------------------------------------------------------
(* The theorems                                                            *)

\* It holds at first,
LEMMA InitInductive == Init => Inductive
  BY TypeInit, LinkedInit, IdInit, InboxInit, SetupInit, CallInit DEF Inductive, Linked

\* every step keeps it,
LEMMA NextInductive == Inductive /\ [Next]_vars => Inductive'
<1>1. SUFFICES ASSUME Inductive, [Next]_vars PROVE Inductive'
  OBVIOUS
<1>2. Linked
  <2>1. CommandInv
    BY <1>1 DEF Inductive, TypeOK, CommandInv, Commands
  <2>2. QED
    BY <1>1, <2>1 DEF Inductive, Linked
<1>3. Linked'
  BY <1>1, <1>2, LinkedNext
<1>4. TypeOK' /\ LinkInv'
  BY <1>1, TypeNext DEF Inductive
<1>5. IdInv' /\ InboxInv' /\ SetupInv' /\ CallInv' /\ ReportsTruth'
  BY <1>1, IdNext, InboxNext, SetupNext, CallNext DEF Inductive
<1>6. SocketInv' /\ CallsAuthenticated' /\ FailsFast'
  BY <1>3 DEF Linked
<1>7. QED
  BY <1>4, <1>5, <1>6 DEF Inductive

\* so it always holds.
LEMMA AlwaysInductive == Spec => []Inductive
<1>1. QED
  BY InitInductive, NextInductive, PTL DEF Spec

\* Every variable holds a value of its kind: of an unusable reply no user is learned.
THEOREM TypeCorrect == Spec => []TypeOK
<1>1. Inductive => TypeOK
  BY DEF Inductive
<1>2. QED
  BY <1>1, AlwaysInductive, PTL

\* No service call is sent on a WebSocket that has not authenticated.
THEOREM NoCallBeforeAuth == Spec => []CallsAuthenticated
<1>1. Inductive => CallsAuthenticated
  BY DEF Inductive
<1>2. QED
  BY <1>1, AlwaysInductive, PTL

\* Nobody but the refresh waits for an answer on a WebSocket that is gone.
THEOREM NobodyWaitsInVain == Spec => []FailsFast
<1>1. Inductive => FailsFast
  BY DEF Inductive
<1>2. QED
  BY <1>1, AlwaysInductive, PTL

\* However late it comes, an answer reaches the command it is the answer to and no
\* other, and no command that is open is forgotten.
THEOREM AnswersFindTheirCommand == Spec => []AnswersMatch
<1>1. Inductive => AnswersMatch
  <2>1. SUFFICES ASSUME IdInv, NEW t \in DOMAIN cmd
                 PROVE  IF Answered(t)
                        THEN cmd[t].answer # Lost =>
                                 cmd[t].answer.to.id = cmd[t].id /\ cmd[t].answer.to.by = t
                        ELSE cmd[t].id \in DOMAIN pending /\ pending[cmd[t].id] = t
    BY DEF Inductive, AnswersMatch
  <2>2. BookInv
    BY <2>1, IdParts
  <2>3. CASE Answered(t)
    <3>1. cmd[t].answer # Lost =>
              cmd[t].answer.to = [id |-> cmd[t].id, by |-> t, what |-> cmd[t].what]
      BY <2>2, <2>3 DEF BookInv
    <3>2. QED
      BY <2>3, <3>1
  <2>4. CASE ~Answered(t)
    <3>1. cmd[t].id \in DOMAIN pending
      BY <2>2, <2>4 DEF BookInv
    <3>2. pending[cmd[t].id] \in DOMAIN cmd /\ cmd[pending[cmd[t].id]].id = cmd[t].id
      BY <2>2, <3>1 DEF BookInv
    <3>3. pending[cmd[t].id] = t
      BY <2>2, <3>2 DEF BookInv
    <3>4. QED
      BY <2>4, <3>1, <3>3
  <2>5. QED
    BY <2>3, <2>4
<1>2. QED
  BY <1>1, AlwaysInductive, PTL

\* Once the setup has its states and everything sent has been read, conn.states
\* are Home Assistant's, whatever changed while they were asked for.
THEOREM StatesStayCurrent == Spec => []StatesCurrent
<1>1. Inductive => StatesCurrent
  <2>1. SUFFICES ASSUME SetupInv, link = "open", inbox = <<>>,
                        connected \/ (Waits("setup") /\ cmd["setup"].what = "services")
                 PROVE  states = version
    BY DEF Inductive, StatesCurrent
  <2>2. Past("states")
    BY <2>1 DEF Past
  <2>3. NoNewsAfter(0)
    BY <2>1 DEF NoNewsAfter
  <2>4. QED
    BY <2>1, <2>2, <2>3 DEF SetupInv
<1>2. QED
  BY <1>1, AlwaysInductive, PTL

\* A change is only taken for the service's own if it was made with the token of
\* this connection.
THEOREM OwnIsThisConnections == Spec => []OwnChanges
<1>1. Inductive => OwnChanges
  <2>1. SUFFICES ASSUME SetupInv, LinkInv, inbox # <<>>, BySelf(Head(inbox).who)
                 PROVE  Head(inbox).who = token /\ token # Owner
    BY DEF Inductive, OwnChanges
  <2>2. link = "open"
    BY <2>1 DEF LinkInv
  <2>3. user_id \in {token, None}
    BY <2>1, <2>2 DEF SetupInv
  <2>4. QED
    BY <2>1, <2>3 DEF BySelf
<1>2. QED
  BY <1>1, AlwaysInductive, PTL

\* A call that returns was carried out; one that was refused was not.
THEOREM CallsReportTheTruth == Spec => []ReportsTruth
<1>1. Inductive => ReportsTruth
  BY DEF Inductive
<1>2. QED
  BY <1>1, AlwaysInductive, PTL
=============================================================================
