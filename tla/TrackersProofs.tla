--------------------------- MODULE TrackersProofs ---------------------------
(***************************************************************************)
(* The trackers are started in the order of the list, and as long as one of *)
(* them has not been heard of there is another to wait for, for every list  *)
(* of urls, every buffer and every number of tasks.                         *)
(***************************************************************************)
EXTENDS Trackers, TLAPS

InChannel(u) == \E i \in DOMAIN channel : channel[i].url = u

(* A task whose last announce found peers; such a task has not ended.       *)
Finder(u) == \E t \in DOMAIN taskUrl : taskUrl[t] = u /\ result[t] \in Found

TaskState ==
  /\ \A t \in TaskIds : t \notin DOMAIN taskUrl => phase[t] = "unused" /\ result[t] = "none"
  /\ \A t \in TaskIds : phase[t] = "ended" => result[t] = "error"

(* What the supervisor knows of has been started, and so has everything     *)
(* that its first loop has come to.                                         *)
StartState ==
  /\ mode \in {"starting", "waiting"} => \A i \in 1..next : Started(UrlList[i])
  /\ \A u \in Urls :
       states[u] # "none" \/ pending[u] # "none" \/ InChannel(u) => Started(u)

(* The two maps are used one after the other.                               *)
MapState ==
  /\ mode # "listening" => \A u \in Urls : states[u] = "none"
  /\ mode = "listening" => \A u \in Urls : pending[u] = "none"
  /\ mode = "recording" => \E u \in Urls : pending[u] \in Found

(* A status is in the channel or in a map, and if it says that peers were   *)
(* found, this is still so or a later status is on its way.                 *)
StatusState ==
  /\ \A t \in DOMAIN taskUrl, u \in Urls :
       taskUrl[t] = u /\ result[t] # "none" =>
         states[u] # "none" \/ pending[u] # "none" \/ InChannel(u)
  /\ \A u \in Urls :
       states[u] \in Found \/ pending[u] \in Found => Finder(u) \/ InChannel(u)
  /\ \A i \in DOMAIN channel, u \in Urls :
       channel[i].url = u /\ channel[i].status \in Found =>
         Finder(u) \/ \E j \in DOMAIN channel : j > i /\ channel[j].url = u

(* A listening supervisor with urls left knows of an answering tracker, or  *)
(* has a status to take, or has started a tracker that has yet to announce. *)
SearchState ==
  mode = "listening" /\ Untried(states) # {} =>
    \/ \E u \in Urls : states[u] \in Found
    \/ channel # <<>>
    \/ \E t \in DOMAIN taskUrl : result[t] = "none"

IInv ==
  /\ TypeOK /\ TaskState /\ StartState /\ MapState /\ StatusState /\ SearchState
  /\ TiersInOrder

-----------------------------------------------------------------------------
(* The channel: a message taken from its front, a message put at its end.   *)
LEMMA ReceiveFacts ==
  ASSUME TypeOK, NEW m \in Messages, Receive(m)
  PROVE  /\ channel' \in Seq(Messages) /\ parked' \in Seq(TaskIds)
         /\ 1 \in DOMAIN channel /\ channel[1] = m
         /\ \A i \in DOMAIN channel' : i + 1 \in DOMAIN channel /\ channel'[i] = channel[i + 1]
         /\ \A i \in DOMAIN channel :
              i # 1 => i - 1 \in DOMAIN channel' /\ channel'[i - 1] = channel[i]
<1>1. channel \in Seq(Messages) /\ parked \in Seq(TaskIds)
  BY DEF TypeOK
<1>2. channel # <<>> /\ m = Head(channel) /\ channel' = Tail(channel)
  BY DEF Receive
<1>3. parked' \in Seq(TaskIds)
  BY <1>1 DEF Receive
<1>4. /\ channel' \in Seq(Messages)
      /\ DOMAIN channel = 1..Len(channel) /\ Len(channel) \in Nat /\ Len(channel) # 0
      /\ DOMAIN channel' = 1..(Len(channel) - 1)
      /\ \A i \in 1..(Len(channel) - 1) : channel'[i] = channel[i + 1]
      /\ channel[1] = m
  BY <1>1, <1>2
<1> QED  BY <1>3, <1>4

LEMMA ReceiveInChannel ==
  ASSUME TypeOK, NEW m \in Messages, Receive(m), NEW u \in Urls
  PROVE  /\ InChannel(m.url)
         /\ InChannel(u)' => InChannel(u)
         /\ u # m.url /\ InChannel(u) => InChannel(u)'
<1>1. InChannel(m.url)
  BY ReceiveFacts DEF InChannel
<1>2. ASSUME InChannel(u)' PROVE InChannel(u)
  <2>1. PICK i \in DOMAIN channel' : channel'[i].url = u
    BY <1>2 DEF InChannel
  <2>2. i + 1 \in DOMAIN channel /\ channel[i + 1].url = u
    BY <2>1, ReceiveFacts
  <2> QED  BY <2>2 DEF InChannel
<1>3. ASSUME u # m.url, InChannel(u) PROVE InChannel(u)'
  <2>1. PICK i \in DOMAIN channel : channel[i].url = u
    BY <1>3 DEF InChannel
  <2>2. i # 1
    BY <1>3, <2>1, ReceiveFacts
  <2>3. i - 1 \in DOMAIN channel' /\ channel'[i - 1].url = u
    BY <2>1, <2>2, ReceiveFacts
  <2> QED  BY <2>3 DEF InChannel
<1> QED  BY <1>1, <1>2, <1>3

LEMMA SendFacts ==
  ASSUME TypeOK, NEW t \in DOMAIN taskUrl, NEW s \in Statuses, SendToSupervisor(t, s)
  PROVE  /\ t \in TaskIds /\ taskUrl[t] \in Urls
         /\ channel' \in Seq(Messages) /\ parked' \in Seq(TaskIds)
         /\ DOMAIN channel' = DOMAIN channel \cup {Len(channel) + 1}
         /\ \A i \in DOMAIN channel :
              i < Len(channel) + 1 /\ channel'[i] = channel[i]
         /\ channel'[Len(channel) + 1] = [url |-> taskUrl[t], status |-> s]
<1>1. channel \in Seq(Messages) /\ parked \in Seq(TaskIds) /\ taskUrl \in Seq(Urls)
  BY DEF TypeOK
<1>2. t \in TaskIds /\ taskUrl[t] \in Urls
  BY <1>1, TrackersAssumption DEF TypeOK, TaskIds
<1>3. [url |-> taskUrl[t], status |-> s] \in Messages
  BY <1>2 DEF Messages
<1>4. channel' = Append(channel, [url |-> taskUrl[t], status |-> s])
  BY DEF SendToSupervisor
<1>5. parked' \in Seq(TaskIds)
  BY <1>1, <1>2 DEF SendToSupervisor
<1>6. /\ channel' \in Seq(Messages)
      /\ DOMAIN channel = 1..Len(channel) /\ DOMAIN channel' = 1..(Len(channel) + 1)
      /\ Len(channel) \in Nat
      /\ \A i \in 1..Len(channel) : channel'[i] = channel[i]
      /\ channel'[Len(channel) + 1] = [url |-> taskUrl[t], status |-> s]
  BY <1>1, <1>3, <1>4
<1> QED  BY <1>2, <1>5, <1>6

(* A task more.                                                             *)
LEMMA SpawnFacts ==
  ASSUME TypeOK, TaskState, NEW u \in Urls, SpawnTracker(u)
  PROVE  LET n == Len(taskUrl) + 1
         IN  /\ taskUrl' \in Seq(Urls) /\ Len(taskUrl') <= MaxTasks
             /\ n \in TaskIds /\ n \notin DOMAIN taskUrl
             /\ DOMAIN taskUrl' = DOMAIN taskUrl \cup {n}
             /\ taskUrl'[n] = u /\ \A t \in DOMAIN taskUrl : taskUrl'[t] = taskUrl[t]
             /\ phase' = [phase EXCEPT ![n] = "announcing"]
             /\ result[n] = "none"
<1> DEFINE n == Len(taskUrl) + 1
<1>1. taskUrl \in Seq(Urls)
  BY DEF TypeOK
<1>2. n \in TaskIds /\ taskUrl' = Append(taskUrl, u) /\ phase' = [phase EXCEPT ![n] = "announcing"]
  BY DEF SpawnTracker
<1>3. /\ taskUrl' \in Seq(Urls) /\ Len(taskUrl') = n
      /\ DOMAIN taskUrl = 1..Len(taskUrl) /\ DOMAIN taskUrl' = 1..n /\ Len(taskUrl) \in Nat
      /\ taskUrl'[n] = u /\ \A t \in 1..Len(taskUrl) : taskUrl'[t] = taskUrl[t]
  BY <1>1, <1>2
<1>4. n \notin DOMAIN taskUrl /\ DOMAIN taskUrl' = DOMAIN taskUrl \cup {n}
  BY <1>3
<1>5. Len(taskUrl') <= MaxTasks
  BY <1>2, <1>3, TrackersAssumption DEF TaskIds
<1>6. result[n] = "none"
  BY <1>2, <1>4 DEF TaskState
<1> QED  BY <1>2, <1>3, <1>4, <1>5, <1>6

LEMMA SpawnStarted ==
  ASSUME TypeOK, TaskState, NEW u \in Urls, SpawnTracker(u), NEW v
  PROVE  Started(v)' <=> Started(v) \/ v = u
BY SpawnFacts DEF Started

-----------------------------------------------------------------------------
LEMMA InitIInv == Init => IInv
<1> SUFFICES ASSUME Init PROVE IInv
  OBVIOUS
<1>1. TypeOK
  BY TrackersAssumption DEF Init, TypeOK, Messages, TaskIds, Phases
<1>2. DOMAIN taskUrl = {} /\ DOMAIN channel = {}
  BY DEF Init
<1>3. TaskState /\ MapState /\ SearchState
  BY <1>2 DEF Init, TaskState, MapState, SearchState
<1>4. StatusState
  BY <1>2 DEF Init, StatusState, Found
<1>5. StartState /\ TiersInOrder
  BY <1>2 DEF Init, StartState, TiersInOrder, InChannel, Started
<1> QED  BY <1>1, <1>3, <1>4, <1>5 DEF IInv

(* What depends on the started tasks, the channel and the maps only.        *)
LEMMA SameData ==
  ASSUME IInv, UNCHANGED <<supervisorVars, taskUrl, result, channel>>
  PROVE  StartState' /\ MapState' /\ StatusState' /\ SearchState' /\ TiersInOrder'
BY DEF IInv, StartState, MapState, StatusState, SearchState, TiersInOrder, supervisorVars,
       InChannel, Finder, Started, Untried

LEMMA PhaseStep ==
  ASSUME IInv, NEW t \in TaskIds, Panics(t) \/ Finish(t) \/ Wake(t)
  PROVE  IInv'
<1>1. UNCHANGED <<supervisorVars, taskUrl, result, channel, parked>>
  BY DEF Panics, Finish, ReportPeers, TryLater, GiveUp, Wake
<1>2. PICK p \in {"announcing", "sleeping", "ended", "panicked"} :
        /\ phase' = [phase EXCEPT ![t] = p]
        /\ phase[t] # "unused"
        /\ p = "ended" => result[t] = "error"
  BY DEF Panics, Finish, ReportPeers, TryLater, GiveUp, Wake, Told
<1>3. TypeOK'
  BY <1>1, <1>2 DEF IInv, TypeOK, supervisorVars, Messages, Phases
<1>4. TaskState'
  BY <1>1, <1>2 DEF IInv, TaskState, TypeOK
<1> QED  BY <1>1, <1>3, <1>4, SameData DEF IInv

(* An announce: whatever became of earlier ones, its status is on its way.  *)
LEMMA AnnounceStep ==
  ASSUME IInv, NEW t \in TaskIds, NEW s \in Statuses, Announced(t, s)
  PROVE  IInv'
<1> DEFINE u == taskUrl[t]
<1> USE DEF IInv
<1>1. /\ phase[t] = "announcing" /\ phase' = [phase EXCEPT ![t] = "telling"]
      /\ result' = [result EXCEPT ![t] = s]
      /\ SendToSupervisor(t, s)
      /\ UNCHANGED <<supervisorVars, taskUrl>>
  BY DEF Announced
<1>2. t \in DOMAIN taskUrl /\ s \in Statuses
  BY <1>1, TrackersAssumption DEF TaskState
<1>3. /\ u \in Urls
      /\ channel' \in Seq(Messages) /\ parked' \in Seq(TaskIds)
      /\ DOMAIN channel' = DOMAIN channel \cup {Len(channel) + 1}
      /\ \A i \in DOMAIN channel : i < Len(channel) + 1 /\ channel'[i] = channel[i]
      /\ channel'[Len(channel) + 1] = [url |-> u, status |-> s]
  BY <1>1, <1>2, SendFacts
<1>4. TypeOK'
  BY <1>1, <1>2, <1>3 DEF TypeOK, supervisorVars, Phases
<1>5. TaskState'
  BY <1>1, <1>2 DEF TaskState, TypeOK
<1>6. \A v : InChannel(v)' <=> InChannel(v) \/ v = u
  BY <1>3 DEF InChannel
<1>7. \A v \in Urls : Started(v)' <=> Started(v)
  BY <1>1 DEF Started
<1>8. Started(u)
  BY <1>2 DEF Started
<1>9. StartState'
  <2>1. UNCHANGED <<mode, next, pending, states>>
    BY <1>1 DEF supervisorVars
  <2>2. \A i \in 1..next : Started(UrlList[i])' <=> Started(UrlList[i])
    BY <1>1 DEF Started
  <2> QED  BY <1>6, <1>7, <1>8, <2>1, <2>2 DEF StartState
<1>10. MapState' /\ TiersInOrder'
  BY <1>1 DEF MapState, TiersInOrder, Started, supervisorVars
<1>11. \A o \in TaskIds : o # t => result'[o] = result[o]
  BY <1>1 DEF TypeOK
<1>12. result'[t] = s
  BY <1>1 DEF TypeOK
<1>13. DOMAIN taskUrl \subseteq TaskIds
  BY TrackersAssumption DEF TypeOK, TaskIds
<1>14. \A v : v # u /\ Finder(v) => Finder(v)'
  BY <1>1, <1>11, <1>13 DEF Finder
<1>15. StatusState'
  <2>1. UNCHANGED <<pending, states, taskUrl>>
    BY <1>1 DEF supervisorVars
  <2>2. ASSUME NEW o \in DOMAIN taskUrl, NEW v \in Urls, taskUrl[o] = v, result'[o] # "none"
        PROVE  states[v] # "none" \/ pending[v] # "none" \/ InChannel(v)'
    BY <2>2, <1>6, <1>11, <1>13 DEF StatusState
  <2>3. ASSUME NEW v \in Urls, states[v] \in Found \/ pending[v] \in Found
        PROVE  Finder(v)' \/ InChannel(v)'
    BY <2>3, <1>6, <1>14 DEF StatusState
  <2>4. ASSUME NEW i \in DOMAIN channel', NEW v \in Urls,
               channel'[i].url = v, channel'[i].status \in Found
        PROVE  Finder(v)' \/ \E j \in DOMAIN channel' : j > i /\ channel'[j].url = v
    <3>1. CASE i = Len(channel) + 1
      <4>1. v = u /\ s \in Found
        BY <1>3, <2>4, <3>1
      <4> QED  BY <1>1, <1>2, <1>12, <4>1 DEF Finder
    <3>2. CASE i \in DOMAIN channel /\ v = u
      <4>1. Len(channel) + 1 \in DOMAIN channel' /\ Len(channel) + 1 > i
        BY <1>3, <3>2 DEF TypeOK
      <4> QED  BY <1>3, <3>2, <4>1
    <3>3. CASE i \in DOMAIN channel /\ v # u
      <4>1. Finder(v) \/ \E j \in DOMAIN channel : j > i /\ channel[j].url = v
        BY <1>3, <2>4, <3>3 DEF StatusState
      <4>2. CASE Finder(v)
        BY <1>14, <3>3, <4>2
      <4>3. ASSUME NEW j \in DOMAIN channel, j > i, channel[j].url = v
            PROVE  j \in DOMAIN channel' /\ channel'[j].url = v
        BY <1>3, <4>3
      <4> QED  BY <4>1, <4>2, <4>3
    <3> QED  BY <1>3, <3>1, <3>2, <3>3
  <2> QED  BY <2>1, <2>2, <2>3, <2>4 DEF StatusState
<1>16. SearchState'
  <2>1. channel' # <<>>
    BY <1>3
  <2> QED  BY <2>1 DEF SearchState
<1> QED  BY <1>4, <1>5, <1>9, <1>10, <1>15, <1>16

(* The first loop ends: by a tracker that answered, or with all started.    *)
LEMMA RecordStep ==
  ASSUME IInv, Record
  PROVE  IInv'
<1> USE DEF IInv
<1>1. /\ mode # "listening" /\ mode' = "listening"
      /\ states' = pending /\ pending' = [u \in Urls |-> "none"]
      /\ UNCHANGED <<next, taskUrl, phase, result, channel, parked>>
  BY DEF Record
<1>2. TypeOK' /\ TaskState'
  BY <1>1 DEF TypeOK, TaskState, Messages
<1>3. /\ \A v : Started(v)' <=> Started(v)
      /\ \A v : InChannel(v)' <=> InChannel(v)
      /\ \A v : Finder(v)' <=> Finder(v)
  BY <1>1 DEF Started, InChannel, Finder
<1>4. StartState' /\ MapState' /\ TiersInOrder'
  BY <1>1, <1>3 DEF StartState, MapState, TiersInOrder
<1>5. \A u \in Urls : states[u] = "none"
  BY <1>1 DEF MapState
<1>6. \A t \in DOMAIN taskUrl : taskUrl[t] \in Urls
  BY DEF TypeOK
<1>7. StatusState'
  <2>1. \A u \in Urls : states[u] \notin Found /\ pending'[u] \notin Found
    BY <1>1, <1>5 DEF Found
  <2> QED  BY <1>1, <1>3, <1>5, <1>6, <2>1 DEF StatusState
<1>8. SearchState'
  <2>1. CASE mode = "recording"
    BY <1>1, <2>1 DEF MapState, SearchState
  <2>2. CASE mode = "starting" /\ next = Len(UrlList)
    <3>1. SUFFICES ASSUME NEW i \in DOMAIN UrlList, pending[UrlList[i]] = "none"
                   PROVE  channel # <<>> \/ \E t \in DOMAIN taskUrl : result[t] = "none"
      BY <1>1 DEF SearchState, Untried
    <3>2. UrlList[i] \in Urls /\ i \in 1..next
      BY <2>2, TrackersAssumption
    <3>3. PICK t \in DOMAIN taskUrl : taskUrl[t] = UrlList[i]
      BY <2>2, <3>2 DEF StartState, Started
    <3>4. CASE InChannel(UrlList[i])
      BY <3>4 DEF InChannel
    <3> QED  BY <1>5, <3>1, <3>2, <3>3, <3>4 DEF StatusState
  <2> QED  BY <2>1, <2>2 DEF Record
<1> QED  BY <1>2, <1>4, <1>7, <1>8

(* A task more leaves the others as they are.                               *)
LEMMA SpawnTasks ==
  ASSUME TypeOK, TaskState, NEW u \in Urls, SpawnTracker(u), result' = result
  PROVE  /\ TaskState'
         /\ \A v : Finder(v)' <=> Finder(v)
         /\ \E t \in DOMAIN taskUrl' : result'[t] = "none"
         /\ phase' \in [TaskIds -> Phases]
<1> DEFINE n == Len(taskUrl) + 1
<1>1. /\ n \in TaskIds /\ n \notin DOMAIN taskUrl
      /\ DOMAIN taskUrl' = DOMAIN taskUrl \cup {n}
      /\ \A t \in DOMAIN taskUrl : taskUrl'[t] = taskUrl[t]
      /\ phase' = [phase EXCEPT ![n] = "announcing"]
      /\ result[n] = "none"
  BY SpawnFacts
<1> HIDE DEF n
<1>2. phase' \in [TaskIds -> Phases]
  BY <1>1 DEF TypeOK, Phases
<1>3. \A t \in TaskIds : t # n => phase'[t] = phase[t]
  BY <1>1 DEF TypeOK
<1>4. phase'[n] = "announcing"
  BY <1>1 DEF TypeOK
<1>5. TaskState'
  BY <1>1, <1>3, <1>4 DEF TaskState
<1>6. \A v : Finder(v)' <=> Finder(v)
  BY <1>1 DEF Finder, Found
<1> QED  BY <1>1, <1>2, <1>5, <1>6

(* Starting the url at n keeps the order if those before it were started.   *)
LEMMA OrderKept ==
  ASSUME TypeOK, TaskState, TiersInOrder, NEW n \in DOMAIN UrlList, SpawnTracker(UrlList[n]),
         \A i \in DOMAIN UrlList : i < n => Started(UrlList[i])
  PROVE  TiersInOrder'
<1>1. DOMAIN UrlList \subseteq Int /\ \A i \in DOMAIN UrlList : UrlList[i] \in Urls
  BY TrackersAssumption
<1>2. \A i \in DOMAIN UrlList :
        Started(UrlList[i])' <=> Started(UrlList[i]) \/ UrlList[i] = UrlList[n]
  BY <1>1, SpawnStarted
<1>3. SUFFICES ASSUME NEW i \in DOMAIN UrlList, NEW j \in DOMAIN UrlList, i < j,
                      Started(UrlList[j])',
                      \A k \in DOMAIN UrlList : k < j => UrlList[k] # UrlList[j]
               PROVE  Started(UrlList[i])'
  BY DEF TiersInOrder
<1>4. CASE UrlList[j] = UrlList[n]
  <2>1. i < n
    BY <1>1, <1>3, <1>4
  <2> QED  BY <1>2, <2>1
<1>5. CASE UrlList[j] # UrlList[n]
  <2>1. Started(UrlList[j])
    BY <1>2, <1>3, <1>5
  <2> QED  BY <1>2, <1>3, <2>1 DEF TiersInOrder
<1> QED  BY <1>4, <1>5

LEMMA StartNextStep ==
  ASSUME IInv, StartNext
  PROVE  IInv'
<1> USE DEF IInv
<1> DEFINE u == UrlList[next + 1]
<1>1. /\ mode = "starting" /\ mode' = "waiting" /\ next < Len(UrlList) /\ next' = next + 1
      /\ SpawnTracker(u)
      /\ UNCHANGED <<pending, states, result, channel, parked>>
  BY DEF StartNext
<1>2. next \in Nat /\ next + 1 \in DOMAIN UrlList /\ next' \in 0..Len(UrlList) /\ u \in Urls
  BY <1>1, TrackersAssumption DEF TypeOK
<1>3. TaskState' /\ \A v : Finder(v)' <=> Finder(v)
  BY <1>1, <1>2, SpawnTasks
<1>4. TypeOK'
  <2>1. phase' \in [TaskIds -> Phases]
    BY <1>1, <1>2, SpawnTasks
  <2>2. taskUrl' \in Seq(Urls) /\ Len(taskUrl') <= MaxTasks
    BY <1>1, <1>2, SpawnFacts
  <2> QED  BY <1>1, <1>2, <2>1, <2>2 DEF TypeOK, Messages
<1>5. \A v : Started(v)' <=> Started(v) \/ v = u
  BY <1>1, <1>2, SpawnStarted
<1>6. \A v : InChannel(v)' <=> InChannel(v)
  BY <1>1 DEF InChannel
<1>7. \A i \in 1..next : Started(UrlList[i])
  BY <1>1 DEF StartState
<1>8. StartState'
  <2>1. \A i \in 1..next' : i \in 1..next \/ i = next + 1
    BY <1>1, <1>2
  <2>2. \A i \in 1..next' : Started(UrlList[i])'
    BY <1>5, <1>7, <2>1
  <2> QED  BY <1>1, <1>5, <1>6, <2>2 DEF StartState
<1>9. MapState' /\ SearchState'
  BY <1>1 DEF MapState, SearchState
<1>10. StatusState'
  <2> DEFINE n == Len(taskUrl) + 1
  <2>1. /\ DOMAIN taskUrl' = DOMAIN taskUrl \cup {n} /\ result[n] = "none"
        /\ \A t \in DOMAIN taskUrl : taskUrl'[t] = taskUrl[t]
    BY <1>1, <1>2, SpawnFacts
  <2> HIDE DEF n
  <2> QED  BY <1>1, <1>3, <1>6, <2>1 DEF StatusState
<1>11. TiersInOrder'
  <2>1. \A i \in DOMAIN UrlList : i < next + 1 => i \in 1..next
    BY <1>2, TrackersAssumption
  <2> QED  BY <1>1, <1>2, <1>7, <2>1, OrderKept
<1> QED  BY <1>3, <1>4, <1>8, <1>9, <1>10, <1>11

LEMMA TimeOutStep ==
  ASSUME IInv, TimeOut
  PROVE  IInv'
<1> USE DEF IInv
<1>1. /\ mode = "waiting" /\ mode' = "starting"
      /\ UNCHANGED <<next, pending, states, taskUrl, phase, result, channel, parked>>
  BY DEF TimeOut
<1>2. TypeOK' /\ TaskState' /\ MapState' /\ SearchState'
  BY <1>1 DEF TypeOK, TaskState, MapState, SearchState, Messages
<1>3. StartState' /\ StatusState' /\ TiersInOrder'
  BY <1>1 DEF StartState, StatusState, TiersInOrder, InChannel, Finder, Started
<1> QED  BY <1>2, <1>3

(* A status that is taken goes from the channel into one of the maps.       *)
LEMMA StatusTaken ==
  ASSUME IInv, NEW m \in Messages, Receive(m), result' = result,
         \A v : Finder(v)' <=> Finder(v),
         DOMAIN taskUrl \subseteq DOMAIN taskUrl',
         \A t \in DOMAIN taskUrl : taskUrl'[t] = taskUrl[t],
         \A t \in DOMAIN taskUrl' : t \notin DOMAIN taskUrl => result[t] = "none",
         \A v \in Urls : v # m.url => states'[v] = states[v] /\ pending'[v] = pending[v],
         {states'[m.url], pending'[m.url]} = {m.status, "none"}
  PROVE  StatusState'
<1> USE DEF IInv
<1>1. m.url \in Urls /\ m.status \in Statuses /\ m.status # "none"
  BY DEF Messages, Statuses
<1>2. ASSUME NEW t \in DOMAIN taskUrl', NEW v \in Urls, taskUrl'[t] = v, result'[t] # "none"
      PROVE  states'[v] # "none" \/ pending'[v] # "none" \/ InChannel(v)'
  <2>1. t \in DOMAIN taskUrl /\ taskUrl[t] = v /\ result[t] # "none"
    BY <1>2
  <2>2. CASE v = m.url
    BY <1>1, <2>2
  <2>3. CASE v # m.url
    <3>1. states[v] # "none" \/ pending[v] # "none" \/ InChannel(v)
      BY <2>1 DEF StatusState
    <3> QED  BY <2>3, <3>1, ReceiveInChannel
  <2> QED  BY <2>2, <2>3
<1>3. \A v \in Urls : InChannel(v) /\ v # m.url => InChannel(v)'
  BY ReceiveInChannel
<1>4. ASSUME m.status \in Found PROVE Finder(m.url) \/ InChannel(m.url)'
  <2>1. 1 \in DOMAIN channel /\ channel[1] = m
    BY ReceiveFacts
  <2>2. CASE \E j \in DOMAIN channel : j > 1 /\ channel[j].url = m.url
    <3>1. PICK j \in DOMAIN channel : j > 1 /\ channel[j].url = m.url
      BY <2>2
    <3>2. j - 1 \in DOMAIN channel' /\ channel'[j - 1].url = m.url
      BY <3>1, ReceiveFacts
    <3> QED  BY <3>2 DEF InChannel
  <2> QED  BY <1>1, <1>4, <2>1, <2>2 DEF StatusState
<1>5. ASSUME NEW v \in Urls, states'[v] \in Found \/ pending'[v] \in Found
      PROVE  Finder(v)' \/ InChannel(v)'
  <2>1. CASE v = m.url
    <3>1. "none" \notin Found
      BY DEF Found
    <3> QED  BY <1>4, <1>5, <2>1, <3>1
  <2>2. CASE v # m.url
    BY <1>3, <1>5, <2>2 DEF StatusState
  <2> QED  BY <2>1, <2>2
<1>6. ASSUME NEW i \in DOMAIN channel', NEW v \in Urls,
             channel'[i].url = v, channel'[i].status \in Found
      PROVE  Finder(v)' \/ \E j \in DOMAIN channel' : j > i /\ channel'[j].url = v
  <2>1. i + 1 \in DOMAIN channel /\ channel[i + 1].url = v /\ channel[i + 1].status \in Found
    BY <1>6, ReceiveFacts
  <2>2. CASE \E j \in DOMAIN channel : j > i + 1 /\ channel[j].url = v
    <3>1. PICK j \in DOMAIN channel : j > i + 1 /\ channel[j].url = v
      BY <2>2
    <3>2. channel \in Seq(Messages) /\ channel' \in Seq(Messages)
      BY ReceiveFacts DEF TypeOK
    <3>3. j # 1 /\ j - 1 > i
      BY <3>1, <3>2
    <3>4. j - 1 \in DOMAIN channel' /\ channel'[j - 1].url = v
      BY <3>1, <3>3, ReceiveFacts
    <3> QED  BY <3>3, <3>4
  <2> QED  BY <2>1, <2>2 DEF StatusState
<1> QED  BY <1>2, <1>5, <1>6 DEF StatusState

LEMMA TakeInTimeStep ==
  ASSUME IInv, NEW m \in Messages, TakeInTime(m)
  PROVE  IInv'
<1> USE DEF IInv
<1>1. /\ mode = "waiting" /\ Receive(m)
      /\ pending' = [pending EXCEPT ![m.url] = m.status]
      /\ mode' = IF m.status \in Found THEN "recording" ELSE "starting"
      /\ UNCHANGED <<next, states, taskUrl, phase, result>>
  BY DEF TakeInTime
<1>2. m.url \in Urls /\ m.status \in Statuses
  BY DEF Messages
<1>3. pending'[m.url] = m.status /\ \A v \in Urls : v # m.url => pending'[v] = pending[v]
  BY <1>1, <1>2 DEF TypeOK
<1>4. channel' \in Seq(Messages) /\ parked' \in Seq(TaskIds)
  BY <1>1, ReceiveFacts
<1>5. TypeOK' /\ TaskState'
  BY <1>1, <1>2, <1>4 DEF TypeOK, TaskState
<1>6. \A v \in Urls : states[v] = "none"
  BY <1>1 DEF MapState
<1>7. \A v : (Started(v)' <=> Started(v)) /\ (Finder(v)' <=> Finder(v))
  BY <1>1 DEF Started, Finder
<1>8. StartState'
  <2>1. \A v \in Urls : InChannel(v)' => InChannel(v)
    BY <1>1, ReceiveInChannel
  <2>2. Started(m.url)
    BY <1>1, <1>2, ReceiveInChannel DEF StartState
  <2>3. ASSUME NEW v \in Urls, states'[v] # "none" \/ pending'[v] # "none" \/ InChannel(v)'
        PROVE  Started(v)'
    BY <1>1, <1>3, <1>7, <2>1, <2>2, <2>3 DEF StartState
  <2>4. \A i \in 1..next' : Started(UrlList[i])'
    BY <1>1, <1>7 DEF StartState
  <2> QED  BY <2>3, <2>4 DEF StartState
<1>9. MapState'
  BY <1>1, <1>2, <1>3, <1>6 DEF MapState
<1>10. StatusState'
  <2>1. {states'[m.url], pending'[m.url]} = {m.status, "none"}
    BY <1>1, <1>2, <1>3, <1>6
  <2> QED  BY <1>1, <1>3, <1>7, <2>1, StatusTaken
<1>11. SearchState' /\ TiersInOrder'
  BY <1>1, <1>7 DEF SearchState, TiersInOrder
<1> QED  BY <1>5, <1>8, <1>9, <1>10, <1>11

(* A listening supervisor takes a status and, if need be, starts the first  *)
(* tracker that it has not heard of: all before it were heard of.           *)
LEMMA ListenStep ==
  ASSUME IInv, NEW m \in Messages, Listen(m)
  PROVE  IInv'
<1> USE DEF IInv
<1>1. /\ mode = "listening" /\ mode' = "listening" /\ Receive(m)
      /\ states' = [states EXCEPT ![m.url] = m.status]
      /\ UNCHANGED <<next, pending, result>>
  BY DEF Listen
<1>2. \/ /\ IsOneActive(states') \/ Untried(states') = {}
         /\ UNCHANGED <<taskUrl, phase>>
      \/ TryAnother(states')
  BY DEF Listen
<1>3. m.url \in Urls /\ m.status \in Statuses
  BY DEF Messages
<1>4. states'[m.url] = m.status /\ \A v \in Urls : v # m.url => states'[v] = states[v]
  BY <1>1, <1>3 DEF TypeOK
<1>5. channel' \in Seq(Messages) /\ parked' \in Seq(TaskIds)
  BY <1>1, ReceiveFacts
<1>6. states' \in [Urls -> Statuses \cup {"none"}]
  BY <1>1, <1>3 DEF TypeOK
<1>7. \A v \in Urls : pending[v] = "none"
  BY <1>1 DEF MapState
<1>8. MapState'
  BY <1>1, <1>7 DEF MapState
<1>9. {states'[m.url], pending'[m.url]} = {m.status, "none"}
  BY <1>1, <1>3, <1>4, <1>7
<1>10. \A v \in Urls : InChannel(v)' => InChannel(v)
  BY <1>1, ReceiveInChannel
<1>11. \A v \in Urls : states'[v] # "none" \/ pending'[v] # "none" \/ InChannel(v)' => Started(v)
  <2>1. Started(m.url)
    BY <1>1, <1>3, ReceiveInChannel DEF StartState
  <2> QED  BY <1>1, <1>4, <1>10, <2>1 DEF StartState
<1>12. CASE (IsOneActive(states') \/ Untried(states') = {}) /\ UNCHANGED <<taskUrl, phase>>
  <2>1. TypeOK' /\ TaskState'
    BY <1>1, <1>5, <1>6, <1>12 DEF TypeOK, TaskState
  <2>2. \A v : (Started(v)' <=> Started(v)) /\ (Finder(v)' <=> Finder(v))
    BY <1>1, <1>12 DEF Started, Finder
  <2>3. StartState' /\ TiersInOrder'
    BY <1>1, <1>11, <2>2 DEF StartState, TiersInOrder
  <2>4. StatusState'
    BY <1>1, <1>4, <1>9, <1>12, <2>2, StatusTaken
  <2>5. SearchState'
    BY <1>12 DEF SearchState, IsOneActive, Found
  <2> QED  BY <1>8, <2>1, <2>3, <2>4, <2>5
<1>13. CASE TryAnother(states')
  <2>1. PICK n \in Untried(states') :
          (\A i \in Untried(states') : n <= i) /\ SpawnTracker(UrlList[n])
    BY <1>13 DEF TryAnother
  <2>2. n \in DOMAIN UrlList /\ UrlList[n] \in Urls /\ DOMAIN UrlList \subseteq Int
    BY <2>1, TrackersAssumption DEF Untried
  <2>3. /\ TaskState' /\ \A v : Finder(v)' <=> Finder(v)
        /\ \E t \in DOMAIN taskUrl' : result'[t] = "none"
        /\ phase' \in [TaskIds -> Phases]
    BY <1>1, <2>1, <2>2, SpawnTasks
  <2> DEFINE k == Len(taskUrl) + 1
  <2>4. /\ taskUrl' \in Seq(Urls) /\ Len(taskUrl') <= MaxTasks
        /\ DOMAIN taskUrl' = DOMAIN taskUrl \cup {k} /\ result[k] = "none"
        /\ \A t \in DOMAIN taskUrl : taskUrl'[t] = taskUrl[t]
    BY <2>1, <2>2, SpawnFacts
  <2> HIDE DEF k
  <2>5. TypeOK'
    BY <1>1, <1>5, <1>6, <2>3, <2>4 DEF TypeOK
  <2>6. \A v : Started(v) => Started(v)'
    BY <2>1, <2>2, SpawnStarted
  <2>7. StartState'
    BY <1>1, <1>11, <2>6 DEF StartState
  <2>8. StatusState'
    BY <1>1, <1>4, <1>9, <2>3, <2>4, StatusTaken
  <2>9. SearchState'
    BY <2>3 DEF SearchState
  <2>10. TiersInOrder'
    <3>1. ASSUME NEW i \in DOMAIN UrlList, i < n PROVE Started(UrlList[i])
      <4>1. i \notin Untried(states') /\ UrlList[i] \in Urls
        BY <2>1, <2>2, <3>1, TrackersAssumption
      <4> QED  BY <1>11, <3>1, <4>1 DEF Untried
    <3> QED  BY <2>1, <2>2, <3>1, OrderKept
  <2> QED  BY <1>8, <2>3, <2>5, <2>7, <2>8, <2>9, <2>10
<1> QED  BY <1>2, <1>12, <1>13

LEMMA InductiveStep == IInv /\ [Next]_vars => IInv'
<1> SUFFICES ASSUME IInv, [Next]_vars PROVE IInv'
  OBVIOUS
<1>1. CASE UNCHANGED vars
  <2>1. TypeOK' /\ TaskState'
    BY <1>1 DEF IInv, TypeOK, TaskState, vars, supervisorVars, Messages
  <2> QED  BY <1>1, <2>1, SameData DEF IInv, vars
<1>2. CASE Supervisor
  BY <1>2, StartNextStep, TimeOutStep, RecordStep, TakeInTimeStep, ListenStep DEF Supervisor
<1>3. CASE Tasks
  BY <1>3, AnnounceStep, PhaseStep DEF Tasks
<1> QED  BY <1>1, <1>2, <1>3 DEF Next

(* The strengthened invariant holds in every behaviour.                     *)
THEOREM Invariance == Spec => []IInv
<1> QED  BY InitIInv, InductiveStep, PTL DEF Spec

-----------------------------------------------------------------------------
(* No state of the supervisor and its trackers is outside its types.        *)
THEOREM TypeCorrect == Spec => []TypeOK
<1>1. IInv => TypeOK
  BY DEF IInv
<1> QED  BY Invariance, <1>1, PTL

(* The trackers are started in the order of the tiers, by the loop with the *)
(* timeout and by the one that listens.                                     *)
THEOREM OrderHolds == Spec => []TiersInOrder
<1>1. IInv => TiersInOrder
  BY DEF IInv
<1> QED  BY Invariance, <1>1, PTL

(* The supervisor waits for statuses that no task is left to send, while    *)
(* there is a tracker that it has not heard of, only if a panic has kept    *)
(* back the first status of a task, or one that would have taken the place  *)
(* of peers found.                                                          *)
THEOREM NoneIsLeftOut == Spec => []NoneLeftUntried
<1>1. IInv => NoneLeftUntried
  <2>1. SUFFICES ASSUME IInv, mode = "listening", channel = <<>>, Untried(states) # {},
                        \A t \in DOMAIN taskUrl : phase[t] \in {"ended", "panicked"}
                 PROVE  \E t \in TaskIds : OwesStatus(t)
    BY DEF NoneLeftUntried
  <2>2. DOMAIN taskUrl \subseteq TaskIds
    BY <2>1, TrackersAssumption DEF IInv, TypeOK, TaskIds
  <2>3. ASSUME NEW t \in DOMAIN taskUrl, result[t] \in Found \cup {"none"}
        PROVE  OwesStatus(t)
    BY <2>1, <2>2, <2>3 DEF IInv, TaskState, OwesStatus, Found
  <2>4. CASE \E u \in Urls : states[u] \in Found
    <3>1. PICK u \in Urls : states[u] \in Found
      BY <2>4
    <3>2. Finder(u)
      BY <2>1, <3>1 DEF IInv, StatusState, InChannel
    <3> QED  BY <2>2, <2>3, <3>2 DEF Finder
  <2>5. CASE \E t \in DOMAIN taskUrl : result[t] = "none"
    BY <2>2, <2>3, <2>5
  <2> QED  BY <2>1, <2>4, <2>5 DEF IInv, SearchState
<1> QED  BY Invariance, <1>1, PTL
=============================================================================
