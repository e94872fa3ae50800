------------------------------ MODULE Trackers ------------------------------
(***************************************************************************)
(* The tracker supervisor (tracker/tracker_supervisor.rs) and the tasks it  *)
(* starts, one for a tracker (tracker/tracker.rs).  A task announces, tells *)
(* the supervisor how that went by way of a bounded channel, gives the      *)
(* peers to the manager and sleeps; an answer whose compact peers end in a  *)
(* short chunk panics while it is read, and the task is gone without a      *)
(* word.  The supervisor starts one tracker after the other, first every 15 *)
(* seconds, then whenever a status arrives and no tracker is active.        *)
(***************************************************************************)
EXTENDS Integers, Sequences, FiniteSets

CONSTANTS
  Urls,          \* the urls of the trackers
  UrlList,       \* urls: the list in the order of the tiers
  Answers,       \* <<u, s>>: an announce to u may lead to status s
  StatusBuffer,  \* 10: buffer of the supervisor's channel
  PromptAfter,   \* bound: once that many tasks were started, the first answer
                 \* of a tracker comes before another one sleeps through its
                 \* interval
  MaxTasks,      \* bound: tracker tasks ever started
  MaxPanics      \* bound: tasks that end in a panic

(* FoundPeers(0) or FoundPeers(1), FoundPeers of more, HostUnresolved,      *)
(* ErrorOccurred; "none" is a url without an entry.                         *)
Statuses == {"few", "many", "unresolved", "error"}
Found == {"few", "many"}

ASSUME TrackersAssumption ==
  /\ UrlList \in Seq(Urls)
  /\ Answers \subseteq Urls \X Statuses
  /\ StatusBuffer \in Nat
  /\ PromptAfter \in Nat
  /\ MaxTasks \in Nat
  /\ MaxPanics \in Nat

TaskIds == 1..MaxTasks

Phases == {"unused", "announcing", "telling", "sleeping", "ended", "panicked"}

VARIABLES
  mode,     \* the supervisor: "starting" the next tracker, "waiting" for a
            \* status or the timeout, "recording", or "listening"
  next,     \* how many urls loop_until_connected has come to
  pending,  \* pending_status: the last status per url
  states,   \* tracker_states
  taskUrl,  \* the urls of the tasks started so far, in order
  phase,    \* per task: one of Phases
  result,   \* per task: the status of its last announce, or "none"
  channel,  \* receiver: statuses on their way
  parked    \* the tasks that wait for room in the channel, in order

supervisorVars == <<mode, next, pending, states>>
vars == <<supervisorVars, taskUrl, phase, result, channel, parked>>

Init ==
  /\ mode = "starting"
  /\ next = 0
  /\ pending = [u \in Urls |-> "none"]
  /\ states = [u \in Urls |-> "none"]
  /\ taskUrl = <<>>
  /\ phase = [t \in TaskIds |-> "unused"]
  /\ result = [t \in TaskIds |-> "none"]
  /\ channel = <<>>
  /\ parked = <<>>

-----------------------------------------------------------------------------
(* The supervisor.                                                          *)
SpawnTracker(u) ==
  LET t == Len(taskUrl) + 1
  IN  /\ t \in TaskIds
      /\ taskUrl' = Append(taskUrl, u)
      /\ phase' = [phase EXCEPT ![t] = "announcing"]

(* A message taken lets the first waiting sender go on.                     *)
Receive(m) ==
  /\ channel # <<>>
  /\ m = Head(channel)
  /\ channel' = Tail(channel)
  /\ parked' = IF parked = <<>> THEN parked ELSE Tail(parked)

(* Mutant of StartNext: the list is walked from its end.                    *)
StartNextFromEnd ==
  /\ mode = "starting"
  /\ next < Len(UrlList)
  /\ next' = next + 1
  /\ SpawnTracker(UrlList[Len(UrlList) - next])
  /\ mode' = "waiting"
  /\ UNCHANGED <<pending, states, result, channel, parked>>

StartNext ==
  /\ mode = "starting"
  /\ next < Len(UrlList)
  /\ next' = next + 1
  /\ SpawnTracker(UrlList[next + 1])
  /\ mode' = "waiting"
  /\ UNCHANGED <<pending, states, result, channel, parked>>

(* The status that arrives may be one of an earlier tracker.                *)
TakeInTime(m) ==
  /\ mode = "waiting"
  /\ Receive(m)
  /\ pending' = [pending EXCEPT ![m.url] = m.status]
  /\ mode' = IF m.status \in Found THEN "recording" ELSE "starting"
  /\ UNCHANGED <<next, states, taskUrl, phase, result>>

(* The timeout looks at the channel before it looks at the clock.           *)
TimeOut ==
  /\ mode = "waiting"
  /\ channel = <<>>
  /\ mode' = "starting"
  /\ UNCHANGED <<next, pending, states, taskUrl, phase, result, channel, parked>>

Record ==
  /\ \/ mode = "recording"
     \/ mode = "starting" /\ next = Len(UrlList)
  /\ states' = pending
  /\ pending' = [u \in Urls |-> "none"]
  /\ mode' = "listening"
  /\ UNCHANGED <<next, taskUrl, phase, result, channel, parked>>

(* Mutant of IsOneActive: one peer is enough.                               *)
IsOneAnswering(known) == \E u \in Urls : known[u] \in Found

IsOneActive(known) == \E u \in Urls : known[u] = "many"

(* The urls that try_another_tracker looks at: those without an entry.      *)
Untried(known) == {i \in DOMAIN UrlList : known[UrlList[i]] = "none"}

TryAnother(known) ==
  \E i \in Untried(known) :
    /\ \A j \in Untried(known) : i <= j
    /\ SpawnTracker(UrlList[i])

(* Mutant of Listen: with an active tracker the supervisor's work is done.  *)
ListenUntilActive(m) ==
  LET known == [states EXCEPT ![m.url] = m.status]
  IN  /\ mode = "listening"
      /\ Receive(m)
      /\ states' = known
      /\ mode' = IF IsOneActive(known) THEN "done" ELSE mode
      /\ IF IsOneActive(known) \/ Untried(known) = {}
         THEN UNCHANGED <<taskUrl, phase>>
         ELSE TryAnother(known)
      /\ UNCHANGED <<next, pending, result>>

Listen(m) ==
  LET known == [states EXCEPT ![m.url] = m.status]
  IN  /\ mode = "listening"
      /\ Receive(m)
      /\ states' = known
      /\ \/ /\ IsOneActive(known) \/ Untried(known) = {}
            /\ UNCHANGED <<taskUrl, phase>>
         \/ ~IsOneActive(known) /\ TryAnother(known)
      /\ UNCHANGED <<mode, next, pending, result>>

-----------------------------------------------------------------------------
(* A tracker task: announce, tell the supervisor, tell the manager, sleep.  *)
(* Mutant of SendToSupervisor: the status of the announce before.           *)
SendLastToSupervisor(t, s) ==
  /\ channel' = Append(channel, [url |-> taskUrl[t], status |-> result[t]])
  /\ parked' = IF Len(channel) < StatusBuffer THEN parked ELSE Append(parked, t)

SendToSupervisor(t, s) ==
  /\ channel' = Append(channel, [url |-> taskUrl[t], status |-> s])
  /\ parked' = IF Len(channel) < StatusBuffer THEN parked ELSE Append(parked, t)

(* Mutant of Announced: an error ends the task without a word.              *)
AnnouncedOrQuit(t, s) ==
  /\ phase[t] = "announcing"
  /\ IF s = "error" THEN UNCHANGED <<channel, parked>> ELSE SendToSupervisor(t, s)
  /\ result' = [result EXCEPT ![t] = s]
  /\ phase' = [phase EXCEPT ![t] = "telling"]
  /\ UNCHANGED <<supervisorVars, taskUrl>>

Announced(t, s) ==
  /\ phase[t] = "announcing"
  /\ SendToSupervisor(t, s)
  /\ result' = [result EXCEPT ![t] = s]
  /\ phase' = [phase EXCEPT ![t] = "telling"]
  /\ UNCHANGED <<supervisorVars, taskUrl>>

(* TrackerResponse::parse panics in from_bytes: no status, no error.        *)
Panics(t) ==
  /\ phase[t] = "announcing"
  /\ Cardinality({o \in TaskIds : phase[o] = "panicked"}) < MaxPanics
  /\ phase' = [phase EXCEPT ![t] = "panicked"]
  /\ UNCHANGED <<supervisorVars, taskUrl, result, channel, parked>>

IsParked(t) == \E i \in DOMAIN parked : parked[i] = t

Told(t) == phase[t] = "telling" /\ ~IsParked(t)

(* Peers go into the manager's unbounded channel, which takes them at once. *)
ReportPeers(t) ==
  /\ Told(t)
  /\ result[t] \in Found
  /\ phase' = [phase EXCEPT ![t] = "sleeping"]
  /\ UNCHANGED <<supervisorVars, taskUrl, result, channel, parked>>

TryLater(t) ==
  /\ Told(t)
  /\ result[t] = "unresolved"
  /\ phase' = [phase EXCEPT ![t] = "sleeping"]
  /\ UNCHANGED <<supervisorVars, taskUrl, result, channel, parked>>

GiveUp(t) ==
  /\ Told(t)
  /\ result[t] = "error"
  /\ phase' = [phase EXCEPT ![t] = "ended"]
  /\ UNCHANGED <<supervisorVars, taskUrl, result, channel, parked>>

FirstAnnounce(t) == phase[t] = "announcing" /\ result[t] = "none"

Wake(t) ==
  /\ phase[t] = "sleeping"
  /\ Len(taskUrl) < PromptAfter \/ \A o \in TaskIds : ~FirstAnnounce(o)
  /\ phase' = [phase EXCEPT ![t] = "announcing"]
  /\ UNCHANGED <<supervisorVars, taskUrl, result, channel, parked>>

-----------------------------------------------------------------------------
Messages == [url : Urls, status : Statuses]

Supervisor ==
  \/ StartNext \/ TimeOut \/ Record
  \/ \E m \in Messages : TakeInTime(m) \/ Listen(m)

Finish(t) == ReportPeers(t) \/ TryLater(t) \/ GiveUp(t)

Tasks ==
  \E t \in TaskIds :
    \/ \E s \in Statuses : Announced(t, s) /\ <<taskUrl[t], s>> \in Answers
    \/ Panics(t) \/ Finish(t) \/ Wake(t)

Next == Supervisor \/ Tasks

Spec == Init /\ [][Next]_vars

(* The executor polls every task that can go on, and clocks do not stop.    *)
FairSpec ==
  /\ Spec
  /\ WF_vars(Supervisor)
  /\ \A t \in TaskIds : WF_vars(Finish(t)) /\ WF_vars(Wake(t))

(* Not the code's doing, for it sets no timeout on a request: every         *)
(* announce comes to an end, with a status or in a panic.                   *)
AnsweringSpec ==
  /\ FairSpec
  /\ \A t \in TaskIds :
       WF_vars(\/ Panics(t)
               \/ \E s \in Statuses : Announced(t, s) /\ <<taskUrl[t], s>> \in Answers)

-----------------------------------------------------------------------------
Started(u) == \E i \in DOMAIN taskUrl : taskUrl[i] = u

(* The type invariant.                                                     *)
TypeOK ==
  /\ mode \in {"starting", "waiting", "recording", "listening"}
  /\ next \in 0..Len(UrlList)
  /\ pending \in [Urls -> Statuses \cup {"none"}]
  /\ states \in [Urls -> Statuses \cup {"none"}]
  /\ taskUrl \in Seq(Urls) /\ Len(taskUrl) <= MaxTasks
  /\ phase \in [TaskIds -> Phases]
  /\ result \in [TaskIds -> Statuses \cup {"none"}]
  /\ channel \in Seq(Messages)
  /\ parked \in Seq(TaskIds)

(* "List of urls, by tier" (TrackerSupervisor): a tracker is started only   *)
(* when all that stand before it in the list have been, whichever of the    *)
(* two loops starts it and however late their statuses come in.             *)
TiersInOrder ==
  \A i, j \in DOMAIN UrlList :
    /\ i < j
    /\ Started(UrlList[j])
    /\ \A k \in DOMAIN UrlList : k < j => UrlList[k] # UrlList[j]
    => Started(UrlList[i])

(* A task that is gone and owes a status: its first one, or one that would  *)
(* have said that the peers found before are no longer to be had.           *)
OwesStatus(t) == phase[t] = "panicked" /\ result[t] \in Found \cup {"none"}

(* A tracker that ends for good leaves its place to another: when every     *)
(* task is gone and every status has been taken, no url is without one,     *)
(* unless a panic has kept a status back.                                   *)
NoneLeftUntried ==
  /\ mode = "listening" /\ channel = <<>>
  /\ \A t \in DOMAIN taskUrl : phase[t] \in {"ended", "panicked"}
  => Untried(states) = {} \/ \E t \in TaskIds : OwesStatus(t)

(* The peers that an announce has found reach the manager, although their   *)
(* task waits for the supervisor first.                                     *)
FoundPeersAreReported ==
  \A t \in TaskIds :
    (phase[t] = "telling" /\ result[t] \in Found) ~> (phase[t] = "sleeping")

(* Where no tracker stays active, and no panic keeps a status back, every   *)
(* tracker of the list is tried in the end: one that is silent for a while  *)
(* is started again at every status and holds up those behind it, but not   *)
(* for ever.                                                                *)
EveryTrackerIsTried ==
  /\ <>[](\A u \in Urls : states[u] # "many")
  /\ [](\A t \in TaskIds : ~OwesStatus(t))
  => \A i \in DOMAIN UrlList : <>Started(UrlList[i])
=============================================================================
