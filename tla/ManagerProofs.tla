--------------------------- MODULE ManagerProofs ----------------------------
(***************************************************************************)
(* For every number of peers, every limit and buffer: the map of            *)
(* connections never gets a second entry for a peer and never exceeds the   *)
(* limit, and the connections in it miss no broadcast.                      *)
(***************************************************************************)
EXTENDS Manager, FiniteSetTheorems, SequenceTheorems, TLAPS

(* During a broadcast the peers to send to and the peers whose send failed  *)
(* are in the map; between events there are none.                           *)
BroadcastState ==
  /\ mode # "broadcast" => todo = {} /\ failed = {}
  /\ mode = "broadcast" => handled # 0
  /\ todo \cup failed \subseteq Registered
  /\ todo \cap failed = {}

(* The strengthening that is inductive: an entry is only added for a peer   *)
(* taken from outside the map, either an unknown one or the head of a queue *)
(* that is disjoint from the map.                                           *)
IInv ==
  /\ TypeOK
  /\ ChannelBound
  /\ BroadcastState /\ NoDoubleInsert /\ QueuedOnce /\ WithinLimit

USE DEF None, ConnIds, ReportIds

LEMMA InitIInv == Init => IInv
<1>1. SUFFICES ASSUME Init PROVE IInv
  OBVIOUS
<1>2. TypeOK
  BY <1>1, ManagerAssumption DEF Init, TypeOK, Events, Phases
<1>3. Registered = {}
  BY <1>1 DEF Init, Registered
<1>4. BroadcastState /\ NoDoubleInsert /\ QueuedOnce
  BY <1>1 DEF Init, BroadcastState, NoDoubleInsert, QueuedOnce
<1>5. WithinLimit
  BY <1>3, FS_EmptySet, ManagerAssumption DEF WithinLimit
<1>6. ChannelBound
  BY <1>1, ManagerAssumption DEF Init, ChannelBound
<1> QED  BY <1>2, <1>4, <1>5, <1>6 DEF IInv

-----------------------------------------------------------------------------
(* Types.                                                                  *)
LEMMA TakesType ==
  ASSUME TypeOK, NEW e, Takes(e)
  PROVE  events' \in Seq(Events) /\ e \in Events /\ mode = "select"
  BY DEF TypeOK, Takes

LEMMA ConnectType ==
  ASSUME TypeOK, NEW p \in Peers, NEW map \in [Peers -> ConnIds \cup {None}], Connect(p, map)
  PROVE  /\ registered' \in [Peers -> ConnIds \cup {None}]
         /\ mode' \in {mode, "panicked"}
         /\ peerOf' \in Seq(Peers)
         /\ phase' \in [ConnIds -> Phases]
         /\ waiting' \in [ConnIds -> 0..(IpcBuffer + 1)]
         /\ since' \in [ConnIds -> Nat]
         /\ delivered' \in [ConnIds -> Seq(1..MaxBroadcasts)]
<1> DEFINE c == Len(peerOf) + 1
<1>1. /\ c \in ConnIds
      /\ registered' = [map EXCEPT ![p] = c]
      /\ mode' = IF map[p] = None THEN mode ELSE "panicked"
      /\ peerOf' = Append(peerOf, p)
      /\ phase' = [phase EXCEPT ![c] = "starting"]
      /\ since' = [since EXCEPT ![c] = handled]
      /\ UNCHANGED <<waiting, delivered>>
  BY DEF Connect
<1> HIDE DEF c
<1>2. registered' \in [Peers -> ConnIds \cup {None}]
  BY <1>1
<1>3. peerOf' \in Seq(Peers)
  BY <1>1 DEF TypeOK
<1>4. phase' \in [ConnIds -> Phases]
  BY <1>1 DEF TypeOK, Phases
<1>5. since' \in [ConnIds -> Nat]
  <2>1. handled \in Nat
    BY ManagerAssumption DEF TypeOK
  <2> QED  BY <1>1, <2>1 DEF TypeOK
<1>6. /\ waiting' \in [ConnIds -> 0..(IpcBuffer + 1)]
      /\ delivered' \in [ConnIds -> Seq(1..MaxBroadcasts)]
  BY <1>1 DEF TypeOK
<1> QED  BY <1>1, <1>2, <1>3, <1>4, <1>5, <1>6

LEMMA DropReceiverType ==
  ASSUME TypeOK, NEW c \in ConnIds, NEW to \in Phases, DropReceiver(c, to)
  PROVE  TypeOK'
<1>1. 0 \in 0..(IpcBuffer + 1)
  BY ManagerAssumption
<1> QED  BY <1>1 DEF TypeOK, DropReceiver, queueVars, Events

LEMMA EventTypeStep ==
  ASSUME TypeOK, BroadcastState, HandleEvent
  PROVE  TypeOK'
<1>1. ASSUME NEW r \in Reports, HandleTracker(r) PROVE TypeOK'
  <2>1. events' \in Seq(Events)
    BY <1>1, TakesType DEF HandleTracker
  <2> QED  BY <1>1, <2>1, ManagerAssumption
            DEF TypeOK, HandleTracker, managerVars, connVars, Events
<1>2. ASSUME NEW p \in Peers, IgnoreConnection(p) PROVE TypeOK'
  <2>1. events' \in Seq(Events)
    BY <1>2, TakesType DEF IgnoreConnection
  <2> QED  BY <1>2, <2>1 DEF TypeOK, IgnoreConnection, managerVars, connVars, Events
<1>3. ASSUME NEW p \in Peers, StartConnection(p) PROVE TypeOK'
  <2>1. events' \in Seq(Events)
    BY <1>3, TakesType DEF StartConnection
  <2>2. registered \in [Peers -> ConnIds \cup {None}]
    BY DEF TypeOK
  <2> QED  BY <1>3, <2>1, <2>2, ConnectType DEF TypeOK, StartConnection, Events
<1>4. ASSUME NEW p \in Peers, QueueConnection(p) PROVE TypeOK'
  <2>1. events' \in Seq(Events)
    BY <1>4, TakesType DEF QueueConnection
  <2> QED  BY <1>4, <2>1 DEF TypeOK, QueueConnection, connVars, Events
<1>5. ASSUME NEW n \in 1..MaxBroadcasts, StartBroadcast(n) PROVE TypeOK'
  <2>1. events' \in Seq(Events)
    BY <1>5, TakesType DEF StartBroadcast
  <2>2. handled' \in 0..MaxBroadcasts
    BY <1>5, ManagerAssumption DEF StartBroadcast
  <2>3. todo' \subseteq Peers
    BY <1>5 DEF StartBroadcast, Registered
  <2> QED  BY <1>5, <2>1, <2>2, <2>3 DEF TypeOK, StartBroadcast, connVars, Events
<1> QED  BY <1>1, <1>2, <1>3, <1>4, <1>5 DEF HandleEvent

LEMMA BroadcastTypeStep ==
  ASSUME TypeOK, BroadcastState, ChannelBound, BroadcastStep
  PROVE  TypeOK'
<1>1. ASSUME NEW p \in Peers, SendTo(p) PROVE TypeOK'
  <2> DEFINE c == registered[p]
  <2>1. c \in ConnIds
    BY <1>1 DEF SendTo, BroadcastState, Registered, TypeOK
  <2>2. handled \in 1..MaxBroadcasts
    BY <1>1, ManagerAssumption DEF SendTo, BroadcastState, TypeOK
  <2>3. /\ waiting' = [waiting EXCEPT ![c] = @ + 1]
        /\ delivered' = [delivered EXCEPT ![c] = Append(@, handled)]
        /\ parked' \in {c, None}
        /\ todo' \subseteq todo
        /\ UNCHANGED <<registered, deque, mode, failed, handled, queueVars, peerOf, phase, since>>
    BY <1>1 DEF SendTo, Enqueue
  <2>4. delivered[c] \in Seq(1..MaxBroadcasts)
    BY <2>1 DEF TypeOK
  <2>5. Append(delivered[c], handled) \in Seq(1..MaxBroadcasts)
    BY <2>2, <2>4
  <2>6. delivered' \in [ConnIds -> Seq(1..MaxBroadcasts)]
    BY <2>1, <2>3, <2>5 DEF TypeOK
  <2>7. waiting' \in [ConnIds -> 0..(IpcBuffer + 1)]
    <3>1. waiting[c] <= IpcBuffer
      BY <1>1, <2>1 DEF SendTo, ChannelBound
    <3>2. waiting[c] \in 0..(IpcBuffer + 1)
      BY <2>1 DEF TypeOK
    <3>3. waiting[c] + 1 \in 0..(IpcBuffer + 1)
      BY <3>1, <3>2, ManagerAssumption
    <3> HIDE DEF c
    <3> QED  BY <2>1, <2>3, <3>3 DEF TypeOK
  <2> HIDE DEF c
  <2> QED  BY <2>1, <2>3, <2>6, <2>7 DEF TypeOK, queueVars, Events
<1>2. ASSUME NEW p \in Peers, SendFails(p) PROVE TypeOK'
  BY <1>2 DEF TypeOK, SendFails, queueVars, connVars, Events
<1>3. ASSUME NEW p \in Peers, Replace(p) PROVE TypeOK'
  <2> DEFINE without == [registered EXCEPT ![p] = None]
  <2>1. without \in [Peers -> ConnIds \cup {None}]
    BY DEF TypeOK
  <2>2. /\ failed' = failed \ {p}
        /\ UNCHANGED <<todo, parked, handled, queueVars>>
    BY <1>3 DEF Replace
  <2>3. CASE deque = <<>> /\ registered' = without /\ UNCHANGED <<deque, mode, connVars>>
    BY <2>1, <2>2, <2>3 DEF TypeOK, queueVars, connVars, Events
  <2>4. CASE deque # <<>> /\ deque' = Tail(deque) /\ Connect(Head(deque), without)
    <3>1. Head(deque) \in Peers /\ deque' \in Seq(Peers)
      BY <2>4 DEF TypeOK
    <3> HIDE DEF without
    <3>2. /\ registered' \in [Peers -> ConnIds \cup {None}]
          /\ mode' \in {mode, "panicked"}
          /\ peerOf' \in Seq(Peers)
          /\ phase' \in [ConnIds -> Phases]
          /\ waiting' \in [ConnIds -> 0..(IpcBuffer + 1)]
          /\ since' \in [ConnIds -> Nat]
          /\ delivered' \in [ConnIds -> Seq(1..MaxBroadcasts)]
      BY <2>1, <2>4, <3>1, ConnectType
    <3> QED  BY <2>2, <3>1, <3>2 DEF TypeOK, queueVars, Events
  <2> QED  BY <1>3, <2>3, <2>4 DEF Replace
<1>4. ASSUME EndBroadcast PROVE TypeOK'
  <2>1. /\ UNCHANGED <<registered, deque, todo, failed, parked, handled, emitted, reported>>
        /\ UNCHANGED <<events, disconnects, forwards, peerOf, phase, waiting, since, delivered>>
        /\ mode' = "select"
    BY <1>4 DEF EndBroadcast, queueVars, connVars
  <2> QED  BY <2>1 DEF TypeOK, Events
<1> QED  BY <1>1, <1>2, <1>3, <1>4 DEF BroadcastStep

LEMMA OtherTypeStep ==
  ASSUME TypeOK, HandleDisconnect \/ Others
  PROVE  TypeOK'
<1>1. CASE HandleDisconnect
  BY <1>1 DEF TypeOK, HandleDisconnect, connVars, Events
<1>2. ASSUME NEW r \in Reports, TrackerReports(r) PROVE TypeOK'
  <2>1. TrackerEvent(r) \in Events
    BY DEF Events
  <2>2. events' \in Seq(Events)
    BY <1>2, <2>1 DEF TypeOK, TrackerReports
  <2>3. reported' \in 0..MaxReports
    BY <1>2, ManagerAssumption DEF TypeOK, TrackerReports
  <2>4. UNCHANGED <<managerVars, connVars, disconnects, forwards, emitted>>
    BY <1>2 DEF TrackerReports
  <2> QED  BY <2>2, <2>3, <2>4 DEF TypeOK, managerVars, connVars
<1>3. CASE EmitBroadcast
  <2>1. emitted + 1 \in 1..MaxBroadcasts
    BY <1>3, ManagerAssumption DEF TypeOK, EmitBroadcast
  <2>2. BroadcastEvent(emitted + 1) \in Events
    BY <2>1 DEF Events
  <2>3. events' \in Seq(Events)
    BY <1>3, <2>2 DEF TypeOK, EmitBroadcast
  <2>4. emitted' \in 0..MaxBroadcasts
    BY <1>3, <2>1, ManagerAssumption DEF EmitBroadcast
  <2>5. UNCHANGED <<managerVars, connVars, disconnects, forwards, reported>>
    BY <1>3 DEF EmitBroadcast
  <2> QED  BY <2>3, <2>4, <2>5 DEF TypeOK, managerVars, connVars
<1>4. ASSUME NEW i \in ReportIds, Forward(i) PROVE TypeOK'
  <2>1. Head(forwards[i]) \in Peers /\ Tail(forwards[i]) \in Seq(Peers)
    <3>1. forwards[i] \in Seq(Peers)
      BY DEF TypeOK
    <3>2. forwards[i] # <<>>
      BY <1>4 DEF Forward
    <3> QED  BY <3>1, <3>2
  <2>2. ConnectionEvent(Head(forwards[i])) \in Events
    BY <2>1 DEF Events
  <2>3. events' \in Seq(Events)
    BY <1>4, <2>2 DEF TypeOK, Forward
  <2> QED  BY <1>4, <2>1, <2>3 DEF TypeOK, Forward, managerVars, connVars, Events
<1> QED  BY <1>1, <1>2, <1>3, <1>4 DEF Others

LEMMA ConnectionTypeStep ==
  ASSUME TypeOK, NEW c \in ConnIds,
         \/ Open(c) \/ Stall(c) \/ Resume(c) \/ Receive(c) \/ BeginClose(c) \/ Return(c)
         \/ ConnectionPanics(c) \/ SendDisconnect(c)
  PROVE  TypeOK'
<1>1. CASE Open(c) \/ Stall(c) \/ Resume(c) \/ BeginClose(c)
  BY <1>1 DEF TypeOK, Open, Stall, Resume, BeginClose, SetPhase, Phases, managerVars, queueVars, Events
<1>2. CASE Receive(c)
  <2>1. waiting' \in [ConnIds -> 0..(IpcBuffer + 1)]
    <3>1. waiting[c] \in 0..(IpcBuffer + 1) /\ waiting[c] > 0
      BY <1>2 DEF TypeOK, Receive
    <3>2. waiting[c] - 1 \in 0..(IpcBuffer + 1)
      BY <3>1, ManagerAssumption
    <3> QED  BY <1>2, <3>2 DEF TypeOK, Receive
  <2>2. parked' \in ConnIds \cup {None}
    BY <1>2 DEF TypeOK, Receive
  <2> QED  BY <1>2, <2>1, <2>2 DEF TypeOK, Receive, queueVars, Events
<1>3. CASE Return(c)
  BY <1>3, DropReceiverType DEF Return, Phases
<1>4. CASE ConnectionPanics(c)
  BY <1>4, DropReceiverType DEF ConnectionPanics, Phases
<1>5. CASE SendDisconnect(c)
  BY <1>5 DEF TypeOK, SendDisconnect, SetPhase, Phases, managerVars, Events
<1> QED  BY <1>1, <1>2, <1>3, <1>4, <1>5

LEMMA TypeStep == TypeOK /\ BroadcastState /\ ChannelBound /\ [Next]_vars => TypeOK'
<1> SUFFICES ASSUME TypeOK, BroadcastState, ChannelBound, [Next]_vars PROVE TypeOK'
  OBVIOUS
<1>1. CASE UNCHANGED vars
  BY <1>1 DEF TypeOK, vars, managerVars, queueVars, connVars, Events
<1>2. CASE Connections
  BY <1>2, ConnectionTypeStep DEF Connections
<1> QED  BY <1>1, <1>2, EventTypeStep, BroadcastTypeStep, OtherTypeStep DEF Next

(* A send that does not wait leaves the channel within its buffer, and a     *)
(* sender goes on only when a message is taken or the channel is gone.      *)
LEMMA ChannelStep == TypeOK /\ BroadcastState /\ ChannelBound /\ [Next]_vars => ChannelBound'
<1> SUFFICES ASSUME TypeOK, BroadcastState, ChannelBound, [Next]_vars PROVE ChannelBound'
  OBVIOUS
<1> USE DEF ChannelBound
<1>1. ASSUME UNCHANGED <<waiting, parked>> PROVE ChannelBound'
  BY <1>1
<1>2. ASSUME NEW p \in Peers, SendTo(p) PROVE ChannelBound'
  <2> DEFINE c == registered[p]
  <2>1. c \in ConnIds
    BY <1>2 DEF SendTo, BroadcastState, Registered, TypeOK
  <2>2. /\ parked = None /\ waiting' = [waiting EXCEPT ![c] = @ + 1]
        /\ parked' = c \/ (waiting[c] < IpcBuffer /\ parked' = None)
    BY <1>2 DEF SendTo, Enqueue, MayPass
  <2> HIDE DEF c
  <2>3. SUFFICES ASSUME NEW d \in ConnIds PROVE waiting'[d] <= IpcBuffer \/ parked' = d
    OBVIOUS
  <2>4. /\ waiting[d] <= IpcBuffer
        /\ waiting[c] \in 0..(IpcBuffer + 1)
        /\ waiting \in [ConnIds -> 0..(IpcBuffer + 1)]
    <3>1. waiting \in [ConnIds -> 0..(IpcBuffer + 1)]
      BY DEF TypeOK
    <3>2. parked # d
      BY <2>2
    <3> QED  BY <2>1, <3>1, <3>2
  <2>5. CASE d = c
    <3>1. waiting'[c] = waiting[c] + 1
      BY <2>1, <2>2, <2>4
    <3> QED  BY <2>2, <2>4, <2>5, <3>1, ManagerAssumption
  <2>6. CASE d # c
    BY <2>1, <2>2, <2>4, <2>6
  <2> QED  BY <2>5, <2>6
<1>3. ASSUME NEW c \in ConnIds, Receive(c) PROVE ChannelBound'
  <2>1. waiting \in [ConnIds -> 0..(IpcBuffer + 1)] /\ waiting' = [waiting EXCEPT ![c] = @ - 1]
    BY <1>3 DEF Receive, TypeOK
  <2>2. parked' = parked \/ (parked = c /\ parked' = None)
    BY <1>3 DEF Receive
  <2>3. SUFFICES ASSUME NEW d \in ConnIds PROVE waiting'[d] <= IpcBuffer \/ parked' = d
    OBVIOUS
  <2>4. waiting[d] \in 0..(IpcBuffer + 1) /\ (waiting[d] <= IpcBuffer \/ parked = d)
    BY <2>1
  <2>5. CASE d = c
    <3>1. waiting'[d] = waiting[d] - 1
      BY <2>1, <2>5
    <3> QED  BY <2>4, <3>1, ManagerAssumption
  <2>6. CASE d # c
    BY <2>1, <2>2, <2>4, <2>6
  <2> QED  BY <2>5, <2>6
<1>4. ASSUME NEW c \in ConnIds, NEW to \in Phases, DropReceiver(c, to) PROVE ChannelBound'
  <2>1. waiting \in [ConnIds -> 0..(IpcBuffer + 1)] /\ waiting' = [waiting EXCEPT ![c] = 0]
    BY <1>4 DEF DropReceiver, TypeOK
  <2>2. parked' = IF parked = c THEN None ELSE parked
    BY <1>4 DEF DropReceiver
  <2>3. SUFFICES ASSUME NEW d \in ConnIds PROVE waiting'[d] <= IpcBuffer \/ parked' = d
    OBVIOUS
  <2>4. CASE d = c
    <3>1. waiting'[d] = 0
      BY <2>1, <2>4
    <3> QED  BY <3>1, ManagerAssumption
  <2>5. CASE d # c
    <3>1. waiting'[d] = waiting[d] /\ (parked = d => parked' = d)
      BY <2>1, <2>2, <2>5
    <3> QED  BY <3>1
  <2> QED  BY <2>4, <2>5
<1>5. CASE HandleEvent
  BY <1>1, <1>5 DEF HandleEvent, HandleTracker, IgnoreConnection, StartConnection, QueueConnection,
                    StartBroadcast, Connect, managerVars, connVars
<1>6. CASE HandleDisconnect
  BY <1>1, <1>6 DEF HandleDisconnect, connVars
<1>7. CASE BroadcastStep
  BY <1>1, <1>2, <1>7 DEF BroadcastStep, SendFails, Replace, EndBroadcast, Connect, connVars
<1>8. CASE Others
  BY <1>1, <1>8 DEF Others, TrackerReports, EmitBroadcast, Forward, managerVars, connVars
<1>9. CASE Connections
  <2>1. ASSUME NEW c \in ConnIds, Return(c) \/ ConnectionPanics(c) PROVE ChannelBound'
    BY <1>4, <2>1 DEF Return, ConnectionPanics, Phases
  <2>2. ASSUME NEW c \in ConnIds,
               Open(c) \/ Stall(c) \/ Resume(c) \/ BeginClose(c) \/ SendDisconnect(c)
        PROVE ChannelBound'
    BY <1>1, <2>2 DEF Open, Stall, Resume, BeginClose, SendDisconnect, managerVars
  <2> QED  BY <1>3, <1>9, <2>1, <2>2 DEF Connections
<1>10. CASE UNCHANGED vars
  BY <1>1, <1>10 DEF vars, managerVars, connVars
<1> QED  BY <1>5, <1>6, <1>7, <1>8, <1>9, <1>10 DEF Next

-----------------------------------------------------------------------------
(* The map, the queue and the broadcast.  Most actions leave them alone.    *)
Core == BroadcastState /\ NoDoubleInsert /\ QueuedOnce /\ WithinLimit

coreVars == <<registered, deque, mode, todo, failed, handled>>

LEMMA CoreFrame ==
  ASSUME Core, UNCHANGED coreVars
  PROVE  Core'
<1>1. Registered' = Registered
  BY DEF coreVars, Registered
<1> QED  BY <1>1 DEF Core, coreVars, BroadcastState, NoDoubleInsert, QueuedOnce, WithinLimit

LEMMA AddedCardinality ==
  ASSUME NEW S, NEW x, IsFiniteSet(S)
  PROVE  /\ Cardinality(S) \in Nat /\ Cardinality(S \cup {x}) \in Nat
         /\ Cardinality(S \cup {x}) <= Cardinality(S) + 1
<1>1. Cardinality(S) \in Nat
  BY FS_CardinalityType
<1>2. Cardinality(S \cup {x}) = IF x \in S THEN Cardinality(S) ELSE Cardinality(S) + 1
  BY FS_AddElement
<1> QED  BY <1>1, <1>2

LEMMA LessCardinality ==
  ASSUME NEW S, NEW x, IsFiniteSet(S)
  PROVE  /\ IsFiniteSet(S \ {x})
         /\ Cardinality(S) \in Nat /\ Cardinality(S \ {x}) \in Nat
         /\ Cardinality(S \ {x}) <= Cardinality(S)
         /\ x \in S => Cardinality(S \ {x}) = Cardinality(S) - 1
<1>1. IsFiniteSet(S \ {x})
  BY FS_RemoveElement
<1>2. Cardinality(S \ {x}) = IF x \in S THEN Cardinality(S) - 1 ELSE Cardinality(S)
  BY FS_RemoveElement
<1>3. Cardinality(S) \in Nat
  BY FS_CardinalityType
<1>4. Cardinality(S \ {x}) \in Nat
  BY <1>1, FS_CardinalityType
<1>5. x \in S => Cardinality(S \ {x}) = Cardinality(S) - 1
  BY <1>2
<1>6. x \notin S => Cardinality(S \ {x}) = Cardinality(S)
  BY <1>2
<1>7. Cardinality(S \ {x}) <= Cardinality(S)
  BY <1>3, <1>4, <1>5, <1>6
<1> QED  BY <1>1, <1>3, <1>4, <1>5, <1>7

LEMMA RegisteredFinite ==
  TypeOK => IsFiniteSet(Registered) /\ Cardinality(Registered) \in Nat
<1>1. Registered \subseteq Peers
  BY DEF Registered
<1>2. IsFiniteSet(Registered)
  BY <1>1, FS_Subset, ManagerAssumption
<1> QED  BY <1>2, FS_CardinalityType

(* An entry for one peer comes, or goes.                                    *)
LEMMA AddEntry ==
  ASSUME TypeOK, NEW p \in Peers, NEW c \in ConnIds,
         registered' = [registered EXCEPT ![p] = c]
  PROVE  Registered' = Registered \cup {p}
  BY DEF TypeOK, Registered

LEMMA RemoveEntry ==
  ASSUME TypeOK, NEW p \in Peers, registered' = [registered EXCEPT ![p] = None]
  PROVE  Registered' = Registered \ {p}
  BY DEF TypeOK, Registered

LEMMA StartConnectionCore ==
  ASSUME TypeOK, Core, NEW p \in Peers, StartConnection(p)
  PROVE  Core'
<1>1. /\ mode = "select" /\ registered[p] = None /\ ~Contains(deque, p)
      /\ Cardinality(Registered) < MaxPeers
      /\ UNCHANGED <<deque, todo, failed, handled>>
  BY DEF StartConnection, Takes, Known, HasSlot
<1>2. Len(peerOf) + 1 \in ConnIds /\ registered' = [registered EXCEPT ![p] = Len(peerOf) + 1]
  BY DEF StartConnection, Connect
<1>3. mode' = mode
  BY <1>1 DEF StartConnection, Connect
<1>4. Registered' = Registered \cup {p}
  BY <1>2, AddEntry
<1>5. WithinLimit'
  <2>1. IsFiniteSet(Registered)
    BY RegisteredFinite
  <2>2. /\ Cardinality(Registered) \in Nat /\ Cardinality(Registered \cup {p}) \in Nat
        /\ Cardinality(Registered \cup {p}) <= Cardinality(Registered) + 1
    BY <2>1, AddedCardinality
  <2>3. Cardinality(Registered \cup {p}) <= MaxPeers
    BY <1>1, <2>2, ManagerAssumption
  <2> QED  BY <1>4, <2>3 DEF WithinLimit
<1>6. QueuedOnce'
  <2>1. \A i \in DOMAIN deque : deque[i] # p
    BY <1>1 DEF Contains
  <2>2. \A i \in DOMAIN deque : deque[i] \in Peers
    BY DEF TypeOK
  <2>3. \A q \in Peers : q # p => registered'[q] = registered[q]
    BY <1>2 DEF TypeOK
  <2> QED  BY <1>1, <2>1, <2>2, <2>3 DEF Core, QueuedOnce
<1>7. BroadcastState'
  BY <1>1, <1>3, <1>4 DEF Core, BroadcastState
<1>8. NoDoubleInsert'
  BY <1>3 DEF Core, NoDoubleInsert
<1> QED  BY <1>5, <1>6, <1>7, <1>8 DEF Core

LEMMA QueueConnectionCore ==
  ASSUME TypeOK, Core, NEW p \in Peers, QueueConnection(p)
  PROVE  Core'
<1>1. registered[p] = None /\ ~Contains(deque, p) /\ deque' = Append(deque, p)
  BY DEF QueueConnection, Known
<1>2. UNCHANGED <<registered, mode, todo, failed, handled>>
  BY DEF QueueConnection
<1>3. QueuedOnce'
  <2>1. deque \in Seq(Peers) /\ \A i \in 1..Len(deque) : deque[i] # p
    BY <1>1 DEF TypeOK, Contains
  <2>2. \A i \in 1..Len(deque) : registered[deque[i]] = None
    BY <2>1 DEF Core, QueuedOnce
  <2>3. \A i, j \in 1..Len(deque) : deque[i] = deque[j] => i = j
    BY <2>1 DEF Core, QueuedOnce
  <2>4. /\ Len(deque') = Len(deque) + 1
        /\ deque'[Len(deque) + 1] = p
        /\ \A i \in 1..Len(deque) : deque'[i] = deque[i]
        /\ DOMAIN deque' = 1..(Len(deque) + 1)
    BY <1>1, <2>1
  <2> QED  BY <1>1, <1>2, <2>1, <2>2, <2>3, <2>4 DEF QueuedOnce
<1>4. Registered' = Registered
  BY <1>2 DEF Registered
<1> QED  BY <1>2, <1>3, <1>4 DEF Core, BroadcastState, NoDoubleInsert, WithinLimit

LEMMA StartBroadcastCore ==
  ASSUME TypeOK, Core, NEW n \in 1..MaxBroadcasts, StartBroadcast(n)
  PROVE  Core'
<1>1. /\ mode = "select" /\ mode' = "broadcast" /\ todo' = Registered /\ handled' = n
      /\ UNCHANGED <<registered, deque, failed>>
  BY DEF StartBroadcast, Takes
<1>2. Registered' = Registered
  BY <1>1 DEF Registered
<1>3. n # 0
  BY ManagerAssumption
<1> QED  BY <1>1, <1>2, <1>3 DEF Core, BroadcastState, NoDoubleInsert, QueuedOnce, WithinLimit

LEMMA HandleDisconnectCore ==
  ASSUME TypeOK, Core, HandleDisconnect
  PROVE  Core'
<1>1. Head(disconnects) \in Peers
  BY DEF TypeOK, HandleDisconnect
<1>2. /\ mode = "select"
      /\ registered' = [registered EXCEPT ![Head(disconnects)] = None]
      /\ UNCHANGED <<deque, mode, todo, failed, handled>>
  BY DEF HandleDisconnect
<1>3. Registered' = Registered \ {Head(disconnects)}
  BY <1>1, <1>2, RemoveEntry
<1>4. WithinLimit'
  <2> DEFINE gone == Head(disconnects)
  <2>1. IsFiniteSet(Registered)
    BY RegisteredFinite
  <2>2. /\ Cardinality(Registered) \in Nat /\ Cardinality(Registered \ {gone}) \in Nat
        /\ Cardinality(Registered \ {gone}) <= Cardinality(Registered)
    BY <2>1, LessCardinality
  <2>3. Cardinality(Registered) <= MaxPeers
    BY DEF Core, WithinLimit
  <2>4. Cardinality(Registered \ {gone}) <= MaxPeers
    BY <2>2, <2>3, ManagerAssumption
  <2> QED  BY <1>3, <2>4 DEF WithinLimit
<1>5. QueuedOnce'
  <2>1. \A q \in Peers : registered[q] = None => registered'[q] = None
    BY <1>2 DEF TypeOK
  <2>2. \A i \in DOMAIN deque : deque[i] \in Peers
    BY DEF TypeOK
  <2> QED  BY <1>2, <2>1, <2>2 DEF Core, QueuedOnce
<1> QED  BY <1>2, <1>4, <1>5 DEF Core, BroadcastState, NoDoubleInsert

(* The peer whose send failed leaves the map before the head of the queue   *)
(* enters it, and that head is another peer, not in the map.                *)
LEMMA ReplaceCore ==
  ASSUME TypeOK, Core, NEW p \in Peers, Replace(p)
  PROVE  Core'
<1> DEFINE without == [registered EXCEPT ![p] = None]
<1>1. /\ mode = "broadcast" /\ todo = {} /\ p \in failed /\ failed' = failed \ {p}
      /\ UNCHANGED <<todo, handled>>
  BY DEF Replace
<1>2. p \in Registered /\ failed \subseteq Registered /\ handled # 0
  BY <1>1 DEF Core, BroadcastState
<1>3. CASE deque = <<>> /\ registered' = without /\ UNCHANGED <<deque, mode, connVars>>
  <2>1. Registered' = Registered \ {p}
    BY <1>3, RemoveEntry
  <2>2. WithinLimit'
    <3>1. IsFiniteSet(Registered)
      BY RegisteredFinite
    <3>2. /\ Cardinality(Registered) \in Nat /\ Cardinality(Registered \ {p}) \in Nat
          /\ Cardinality(Registered \ {p}) <= Cardinality(Registered)
      BY <3>1, LessCardinality
    <3>3. Cardinality(Registered) <= MaxPeers
      BY DEF Core, WithinLimit
    <3>4. Cardinality(Registered \ {p}) <= MaxPeers
      BY <3>2, <3>3, ManagerAssumption
    <3> QED  BY <2>1, <3>4 DEF WithinLimit
  <2>3. QueuedOnce'
    BY <1>3 DEF QueuedOnce
  <2> QED  BY <1>1, <1>2, <1>3, <2>1, <2>2, <2>3 DEF Core, BroadcastState, NoDoubleInsert
<1>4. CASE deque # <<>> /\ deque' = Tail(deque) /\ Connect(Head(deque), without)
  <2> DEFINE q == Head(deque)
             c == Len(peerOf) + 1
  <2>1. q \in Peers /\ registered[q] = None /\ q # p
    BY <1>2, <1>4 DEF TypeOK, Core, QueuedOnce, Registered
  <2>2. c \in ConnIds /\ registered' = [without EXCEPT ![q] = c]
    BY <1>4 DEF Connect
  <2>3. Registered' = (Registered \ {p}) \cup {q}
    BY <2>1, <2>2 DEF TypeOK, Registered
  <2>4. mode' = mode
    BY <1>4, <2>1 DEF Connect, TypeOK
  <2>5. WithinLimit'
    <3>1. IsFiniteSet(Registered)
      BY RegisteredFinite
    <3>2. /\ IsFiniteSet(Registered \ {p})
          /\ Cardinality(Registered) \in Nat /\ Cardinality(Registered \ {p}) \in Nat
          /\ Cardinality(Registered \ {p}) = Cardinality(Registered) - 1
      BY <1>2, <3>1, LessCardinality
    <3>3. /\ Cardinality((Registered \ {p}) \cup {q}) \in Nat
          /\ Cardinality((Registered \ {p}) \cup {q}) <= Cardinality(Registered \ {p}) + 1
      BY <3>2, AddedCardinality
    <3>4. Cardinality(Registered) <= MaxPeers
      BY DEF Core, WithinLimit
    <3>5. Cardinality((Registered \ {p}) \cup {q}) <= MaxPeers
      BY <3>2, <3>3, <3>4, ManagerAssumption
    <3> QED  BY <2>3, <3>5 DEF WithinLimit
  <2>6. QueuedOnce'
    <3>1. deque \in Seq(Peers)
      BY DEF TypeOK
    <3>2. /\ DOMAIN deque' = 1..(Len(deque) - 1)
          /\ \A i \in DOMAIN deque' : deque'[i] = deque[i + 1] /\ i + 1 \in DOMAIN deque
      BY <1>4, <3>1
    <3>3. \A i \in DOMAIN deque' : deque'[i] \in Peers /\ deque'[i] # q /\ registered[deque'[i]] = None
      BY <3>1, <3>2 DEF Core, QueuedOnce
    <3>4. \A i, j \in DOMAIN deque' : deque'[i] = deque'[j] => i = j
      BY <3>1, <3>2 DEF Core, QueuedOnce
    <3>5. \A r \in Peers : r # q /\ registered[r] = None => registered'[r] = None
      BY <2>1, <2>2 DEF TypeOK
    <3> QED  BY <3>3, <3>4, <3>5 DEF QueuedOnce
  <2> QED  BY <1>1, <1>2, <2>3, <2>4, <2>5, <2>6 DEF Core, BroadcastState, NoDoubleInsert
<1> QED  BY <1>3, <1>4 DEF Replace

LEMMA BroadcastCore ==
  ASSUME TypeOK, Core, BroadcastStep
  PROVE  Core'
<1>1. ASSUME NEW p \in Peers, SendTo(p) PROVE Core'
  <2>1. /\ mode = "broadcast" /\ todo' = todo \ {p}
        /\ UNCHANGED <<registered, deque, mode, failed, handled>>
    BY <1>1 DEF SendTo
  <2>2. Registered' = Registered
    BY <2>1 DEF Registered
  <2> QED  BY <2>1, <2>2 DEF Core, BroadcastState, NoDoubleInsert, QueuedOnce, WithinLimit
<1>2. ASSUME NEW p \in Peers, SendFails(p) PROVE Core'
  <2>1. /\ mode = "broadcast" /\ p \in todo /\ todo' = todo \ {p} /\ failed' = failed \cup {p}
        /\ UNCHANGED <<registered, deque, mode, handled>>
    BY <1>2 DEF SendFails
  <2>2. Registered' = Registered
    BY <2>1 DEF Registered
  <2> QED  BY <2>1, <2>2 DEF Core, BroadcastState, NoDoubleInsert, QueuedOnce, WithinLimit
<1>3. ASSUME EndBroadcast PROVE Core'
  <2>1. /\ todo = {} /\ failed = {} /\ mode' = "select"
        /\ UNCHANGED <<registered, deque, todo, failed, handled>>
    BY <1>3 DEF EndBroadcast
  <2>2. Registered' = Registered
    BY <2>1 DEF Registered
  <2> QED  BY <2>1, <2>2 DEF Core, BroadcastState, NoDoubleInsert, QueuedOnce, WithinLimit
<1> QED  BY <1>1, <1>2, <1>3, ReplaceCore DEF BroadcastStep

LEMMA CoreStep == TypeOK /\ Core /\ [Next]_vars => Core'
<1> SUFFICES ASSUME TypeOK, Core, [Next]_vars PROVE Core'
  OBVIOUS
<1>1. CASE UNCHANGED vars
  BY <1>1, CoreFrame DEF vars, managerVars, coreVars
<1>2. CASE HandleEvent
  <2>1. ASSUME NEW r \in Reports, HandleTracker(r) PROVE Core'
    BY <2>1, CoreFrame DEF HandleTracker, managerVars, coreVars
  <2>2. ASSUME NEW p \in Peers, IgnoreConnection(p) PROVE Core'
    BY <2>2, CoreFrame DEF IgnoreConnection, managerVars, coreVars
  <2> QED  BY <1>2, <2>1, <2>2, StartConnectionCore, QueueConnectionCore, StartBroadcastCore
            DEF HandleEvent
<1>3. CASE Others
  BY <1>3, CoreFrame
     DEF Others, TrackerReports, EmitBroadcast, Forward, managerVars, coreVars
<1>4. CASE Connections
  BY <1>4, CoreFrame
     DEF Connections, Open, Stall, Resume, Receive, BeginClose, Return, ConnectionPanics, SendDisconnect,
         DropReceiver, managerVars, coreVars
<1> QED  BY <1>1, <1>2, <1>3, <1>4, HandleDisconnectCore, BroadcastCore DEF Next

(* The strengthened invariant holds in every behaviour.                     *)
THEOREM Invariance == Spec => []IInv
<1>1. IInv /\ [Next]_vars => IInv'
  BY TypeStep, ChannelStep, CoreStep DEF IInv, Core
<1> QED  BY InitIInv, <1>1, PTL DEF Spec

-----------------------------------------------------------------------------
(* No state of the manager and its connections is outside its types.        *)
THEOREM TypeCorrect == Spec => []TypeOK
<1>1. IInv => TypeOK
  BY DEF IInv
<1> QED  BY Invariance, <1>1, PTL

(* The assertion of connect never fails: in no interleaving of tracker      *)
(* reports, failing sends and disconnects does the manager insert a peer    *)
(* that the map holds.                                                      *)
THEOREM AssertionHolds == Spec => []NoDoubleInsert
<1>1. IInv => NoDoubleInsert
  BY DEF IInv
<1> QED  BY Invariance, <1>1, PTL

(* The map never holds more than MaxPeers connections, although a broadcast *)
(* replaces them without looking at the limit.                              *)
THEOREM LimitHolds == Spec => []WithinLimit
<1>1. IInv => WithinLimit
  BY DEF IInv
<1> QED  BY Invariance, <1>1, PTL

(* No channel goes over its buffer but by the one broadcast with which the  *)
(* manager waits: no connection, however slow, piles up broadcasts.         *)
THEOREM BuffersHold == Spec => []ChannelBound
<1>1. IInv => ChannelBound
  BY DEF IInv
<1> QED  BY Invariance, <1>1, PTL

(* A queued peer is queued once and is not connected.                       *)
THEOREM QueueHolds == Spec => []QueuedOnce
<1>1. IInv => QueuedOnce
  BY DEF IInv
<1> QED  BY Invariance, <1>1, PTL

-----------------------------------------------------------------------------
(* Broadcasts reach connections.  The channel holds the broadcasts that are *)
(* still to be handled, each once and in order, so that the next one is     *)
(* always the successor of the last.                                        *)
IsBroadcast(i) == events[i].type = "Broadcast"

EventsInOrder ==
  /\ handled \in Nat /\ emitted \in Nat /\ handled <= emitted
  /\ \A i \in DOMAIN events : IsBroadcast(i) => events[i].number \in (handled + 1)..emitted
  /\ \A i, j \in DOMAIN events :
       IsBroadcast(i) /\ IsBroadcast(j) /\ i < j => events[i].number < events[j].number
  /\ \A n \in (handled + 1)..emitted : \E i \in DOMAIN events : events[i] = BroadcastEvent(n)

(* An entry of the map belongs to its peer, and a connection that has not   *)
(* been started has got nothing.                                            *)
EntriesAreOwn ==
  /\ \A p \in Registered : registered[p] \in DOMAIN peerOf /\ peerOf[registered[p]] = p
  /\ \A c \in ConnIds \ DOMAIN peerOf : delivered[c] = <<>>

(* The last broadcast that the entry of p has got.                          *)
Due == todo \cup failed
LastSent(p) == IF p \in Due THEN handled - 1 ELSE handled

Delivered ==
  \A p \in Registered :
    /\ since[registered[p]] <= LastSent(p)
    /\ delivered[registered[p]] = Numbers(since[registered[p]], LastSent(p))

DInv == EventsInOrder /\ EntriesAreOwn /\ Delivered

LEMMA NumbersEmpty == ASSUME NEW n \in Nat PROVE Numbers(n, n) = <<>>
  BY DEF Numbers

LEMMA NumbersGrow ==
  ASSUME NEW s \in Nat, NEW n \in Nat, s < n
  PROVE  Append(Numbers(s, n - 1), n) = Numbers(s, n)
<1> DEFINE a == Numbers(s, n - 1)
<1> DEFINE b == Numbers(s, n)
<1>1. a \in Seq(Nat) /\ Len(a) = n - 1 - s /\ \A i \in 1..(n - 1 - s) : a[i] = s + i
  BY DEF Numbers
<1>2. b \in Seq(Nat) /\ Len(b) = n - s /\ \A i \in 1..(n - s) : b[i] = s + i
  BY DEF Numbers
<1> HIDE DEF a, b
<1>3. Append(a, n) \in Seq(Nat) /\ Len(Append(a, n)) = n - s
  BY <1>1
<1>4. \A i \in 1..Len(Append(a, n)) : Append(a, n)[i] = b[i]
  BY <1>1, <1>2, <1>3
<1>5. Append(a, n) = b
  BY <1>2, <1>3, <1>4, SeqEqual
<1> QED  BY <1>5 DEF a, b

LEMMA InitDInv == Init => DInv
<1> SUFFICES ASSUME Init PROVE DInv
  OBVIOUS
<1>1. Registered = {}
  BY DEF Init, Registered
<1>2. EventsInOrder
  BY DEF Init, EventsInOrder
<1>3. EntriesAreOwn
  BY <1>1 DEF Init, EntriesAreOwn
<1> QED  BY <1>1, <1>2, <1>3 DEF DInv, Delivered

(* The channel of events.                                                   *)
LEMMA EventsFrame ==
  ASSUME EventsInOrder, UNCHANGED <<events, handled, emitted>>
  PROVE  EventsInOrder'
  BY DEF EventsInOrder, IsBroadcast

LEMMA EventsGrow ==
  ASSUME TypeOK, EventsInOrder, NEW e \in Events, e.type # "Broadcast",
         events' = Append(events, e), UNCHANGED <<handled, emitted>>
  PROVE  EventsInOrder'
<1>1. events \in Seq(Events)
  BY DEF TypeOK
<1>2. /\ DOMAIN events' = 1..(Len(events) + 1)
      /\ \A i \in DOMAIN events : i \in DOMAIN events' /\ events'[i] = events[i]
      /\ events'[Len(events) + 1] = e
      /\ DOMAIN events = 1..Len(events) /\ Len(events) \in Nat
  BY <1>1
<1>3. \A i \in DOMAIN events' : IsBroadcast(i)' => i \in DOMAIN events /\ IsBroadcast(i)
  BY <1>2 DEF IsBroadcast
<1> QED  BY <1>2, <1>3 DEF EventsInOrder

LEMMA EventsEmit ==
  ASSUME TypeOK, EventsInOrder, EmitBroadcast
  PROVE  EventsInOrder'
<1> DEFINE e == BroadcastEvent(emitted + 1)
<1>1. /\ events \in Seq(Events) /\ emitted' = emitted + 1 /\ handled' = handled
      /\ events' = Append(events, e)
  BY DEF TypeOK, EmitBroadcast, managerVars
<1>a. e \in Events
  <2>1. emitted + 1 \in 1..MaxBroadcasts
    BY ManagerAssumption DEF TypeOK, EmitBroadcast
  <2> QED  BY <2>1 DEF Events
<1>2. /\ DOMAIN events' = 1..(Len(events) + 1)
      /\ \A i \in DOMAIN events : i \in DOMAIN events' /\ events'[i] = events[i]
      /\ events'[Len(events) + 1] = e
      /\ DOMAIN events = 1..Len(events) /\ Len(events) \in Nat
  BY <1>1, <1>a
<1>3. e.number = emitted + 1 /\ e.type = "Broadcast"
  BY DEF BroadcastEvent
<1> HIDE DEF e
<1>4. \A i \in DOMAIN events' :
        IsBroadcast(i)' => \/ i \in DOMAIN events /\ IsBroadcast(i) /\ events'[i] = events[i]
                           \/ i = Len(events) + 1 /\ events'[i].number = emitted + 1
  BY <1>2, <1>3 DEF IsBroadcast
<1>5. \A i \in DOMAIN events' : IsBroadcast(i)' => events'[i].number \in (handled' + 1)..emitted'
  <2> SUFFICES ASSUME NEW i \in DOMAIN events', IsBroadcast(i)'
               PROVE  events'[i].number \in (handled' + 1)..emitted'
    OBVIOUS
  <2>1. handled \in Nat /\ emitted \in Nat /\ handled <= emitted
    BY DEF EventsInOrder
  <2>2. CASE i \in DOMAIN events /\ IsBroadcast(i) /\ events'[i] = events[i]
    <3>1. events[i].number \in (handled + 1)..emitted
      BY <2>2 DEF EventsInOrder
    <3> QED  BY <1>1, <2>1, <2>2, <3>1
  <2>3. CASE events'[i].number = emitted + 1
    BY <1>1, <2>1, <2>3
  <2> QED  BY <1>4, <2>2, <2>3
<1>6. \A i, j \in DOMAIN events' :
        IsBroadcast(i)' /\ IsBroadcast(j)' /\ i < j => events'[i].number < events'[j].number
  BY <1>2, <1>4 DEF EventsInOrder
<1>7. \A n \in (handled' + 1)..emitted' : \E i \in DOMAIN events' : events'[i] = BroadcastEvent(n)
  <2> SUFFICES ASSUME NEW n \in (handled' + 1)..emitted'
               PROVE  \E i \in DOMAIN events' : events'[i] = BroadcastEvent(n)
    OBVIOUS
  <2>1. CASE n = emitted + 1
    BY <2>1, <1>2 DEF e
  <2>2. CASE n # emitted + 1
    BY <2>2, <1>1, <1>2 DEF EventsInOrder
  <2> QED  BY <2>1, <2>2
<1> QED  BY <1>1, <1>5, <1>6, <1>7 DEF EventsInOrder

(* The first broadcast in the channel is the next one.                      *)
LEMMA EventsTake ==
  ASSUME TypeOK, EventsInOrder, NEW e, Takes(e), UNCHANGED emitted,
         IF e.type = "Broadcast" THEN handled' = e.number ELSE handled' = handled
  PROVE  /\ EventsInOrder'
         /\ e.type = "Broadcast" => handled' = handled + 1
<1>1. /\ events \in Seq(Events) /\ events # <<>> /\ events[1] = e /\ events' = Tail(events)
      /\ 1 \in DOMAIN events
  BY DEF TypeOK, Takes
<1>2. /\ DOMAIN events = 1..Len(events) /\ Len(events) \in Nat
      /\ DOMAIN events' = 1..(Len(events) - 1)
      /\ \A i \in DOMAIN events' : i + 1 \in DOMAIN events /\ events'[i] = events[i + 1]
  BY <1>1
<1>3. \A n : BroadcastEvent(n).number = n /\ BroadcastEvent(n).type = "Broadcast"
  BY DEF BroadcastEvent
<1>4. e.type = "Broadcast" => handled' = handled + 1
  <2> SUFFICES ASSUME e.type = "Broadcast" PROVE e.number = handled + 1
    OBVIOUS
  <2>1. e.number \in (handled + 1)..emitted
    BY <1>1 DEF EventsInOrder, IsBroadcast
  <2>2. handled + 1 \in (handled + 1)..emitted
    BY <2>1 DEF EventsInOrder
  <2>3. PICK i \in DOMAIN events : events[i] = BroadcastEvent(handled + 1)
    BY <2>2 DEF EventsInOrder
  <2>4. events[i].number = handled + 1 /\ IsBroadcast(i)
    BY <2>3, <1>3 DEF IsBroadcast
  <2>5. IsBroadcast(1)
    BY <1>1 DEF IsBroadcast
  <2>6. CASE i = 1
    BY <2>4, <2>6, <1>1
  <2>7. CASE i # 1
    <3>1. 1 < i
      BY <2>7, <1>2
    <3>2. events[1].number < events[i].number
      BY <3>1, <2>4, <2>5, <1>1 DEF EventsInOrder
    <3> QED  BY <3>2, <2>1, <2>4, <1>1 DEF EventsInOrder
  <2> QED  BY <2>6, <2>7
<1>5. \A i \in DOMAIN events' : IsBroadcast(i)' => IsBroadcast(i + 1)
  BY <1>2 DEF IsBroadcast
<1>6. \A i \in DOMAIN events' : IsBroadcast(i)' => events'[i].number \in (handled' + 1)..emitted'
  <2> SUFFICES ASSUME NEW i \in DOMAIN events', IsBroadcast(i)'
               PROVE  events'[i].number \in (handled' + 1)..emitted'
    OBVIOUS
  <2>1. /\ i + 1 \in DOMAIN events /\ IsBroadcast(i + 1) /\ events'[i] = events[i + 1]
        /\ events[i + 1].number \in (handled + 1)..emitted /\ i \in Nat /\ 1 < i + 1
    BY <1>2, <1>5 DEF EventsInOrder
  <2>2. CASE e.type = "Broadcast"
    <3>1. IsBroadcast(1) /\ events[1].number = handled'
      BY <2>2, <1>1 DEF IsBroadcast
    <3>2. events[1].number < events[i + 1].number
      BY <3>1, <2>1, <1>1 DEF EventsInOrder
    <3> QED  BY <2>1, <2>2, <3>1, <3>2, <1>4 DEF EventsInOrder
  <2>3. CASE e.type # "Broadcast"
    BY <2>1, <2>3
  <2> QED  BY <2>2, <2>3
<1>7. \A i, j \in DOMAIN events' :
        IsBroadcast(i)' /\ IsBroadcast(j)' /\ i < j => events'[i].number < events'[j].number
  <2> SUFFICES ASSUME NEW i \in DOMAIN events', NEW j \in DOMAIN events',
                      IsBroadcast(i)', IsBroadcast(j)', i < j
               PROVE  events'[i].number < events'[j].number
    OBVIOUS
  <2>1. /\ i + 1 \in DOMAIN events /\ events'[i] = events[i + 1] /\ IsBroadcast(i + 1)
        /\ j + 1 \in DOMAIN events /\ events'[j] = events[j + 1] /\ IsBroadcast(j + 1)
        /\ i + 1 < j + 1
    BY <1>2, <1>5
  <2>2. events[i + 1].number < events[j + 1].number
    BY <2>1 DEF EventsInOrder
  <2> QED  BY <2>1, <2>2
<1>8. \A n \in (handled' + 1)..emitted' : \E i \in DOMAIN events' : events'[i] = BroadcastEvent(n)
  <2> SUFFICES ASSUME NEW n \in (handled' + 1)..emitted'
               PROVE  \E i \in DOMAIN events' : events'[i] = BroadcastEvent(n)
    OBVIOUS
  <2>1. n \in (handled + 1)..emitted
    BY <1>4 DEF EventsInOrder
  <2>2. PICK i \in DOMAIN events : events[i] = BroadcastEvent(n)
    BY <2>1 DEF EventsInOrder
  <2>3. i # 1
    <3>1. CASE e.type = "Broadcast"
      <4>1. e.number # n
        BY <3>1, <1>4 DEF EventsInOrder
      <4> QED  BY <4>1, <2>2, <1>1, <1>3
    <3>2. CASE e.type # "Broadcast"
      BY <3>2, <2>2, <1>1, <1>3
    <3> QED  BY <3>1, <3>2
  <2>4. i - 1 \in DOMAIN events' /\ events'[i - 1] = events[i]
    BY <2>3, <1>1, <1>2
  <2> QED  BY <2>2, <2>4
<1>9. handled' \in Nat /\ handled' <= emitted'
  <2>1. e.type = "Broadcast" => e.number \in (handled + 1)..emitted
    BY <1>1 DEF EventsInOrder, IsBroadcast
  <2> QED  BY <2>1, <1>4 DEF EventsInOrder
<1> QED  BY <1>4, <1>6, <1>7, <1>8, <1>9 DEF EventsInOrder

LEMMA EventsStep ==
  ASSUME TypeOK, EventsInOrder, [Next]_vars
  PROVE  EventsInOrder'
<1>1. CASE UNCHANGED vars
  BY <1>1, EventsFrame DEF vars, managerVars, queueVars
<1>2. CASE HandleEvent
  <2>1. ASSUME NEW r \in Reports, HandleTracker(r) PROVE EventsInOrder'
    BY <2>1, EventsTake DEF HandleTracker, TrackerEvent, managerVars
  <2>2. ASSUME NEW p \in Peers, IgnoreConnection(p) PROVE EventsInOrder'
    BY <2>2, EventsTake DEF IgnoreConnection, ConnectionEvent, managerVars
  <2>3. ASSUME NEW p \in Peers, StartConnection(p) PROVE EventsInOrder'
    BY <2>3, EventsTake DEF StartConnection, ConnectionEvent
  <2>4. ASSUME NEW p \in Peers, QueueConnection(p) PROVE EventsInOrder'
    BY <2>4, EventsTake DEF QueueConnection, ConnectionEvent
  <2>5. ASSUME NEW n \in 1..MaxBroadcasts, StartBroadcast(n) PROVE EventsInOrder'
    BY <2>5, EventsTake DEF StartBroadcast, BroadcastEvent
  <2> QED  BY <1>2, <2>1, <2>2, <2>3, <2>4, <2>5 DEF HandleEvent
<1>3. CASE HandleDisconnect
  BY <1>3, EventsFrame DEF HandleDisconnect
<1>4. CASE BroadcastStep
  BY <1>4, EventsFrame DEF BroadcastStep, SendTo, SendFails, Replace, EndBroadcast, queueVars
<1>5. CASE Others
  <2>1. ASSUME NEW r \in Reports, TrackerReports(r) PROVE EventsInOrder'
    <3>1. TrackerEvent(r) \in Events /\ TrackerEvent(r).type # "Broadcast"
      BY DEF Events, TrackerEvent
    <3> QED  BY <2>1, <3>1, EventsGrow DEF TrackerReports, managerVars
  <2>2. ASSUME NEW i \in ReportIds, Forward(i) PROVE EventsInOrder'
    <3> DEFINE e == ConnectionEvent(Head(forwards[i]))
    <3>1. e \in Events /\ e.type # "Broadcast"
      <4>0. forwards[i] \in Seq(Peers) /\ forwards[i] # <<>>
        BY <2>2 DEF Forward, TypeOK
      <4>1. Head(forwards[i]) \in Peers
        BY <4>0
      <4> QED  BY <4>1 DEF Events, ConnectionEvent
    <3>2. events' = Append(events, e) /\ UNCHANGED <<handled, emitted>>
      BY <2>2 DEF Forward, managerVars
    <3> HIDE DEF e
    <3> QED  BY <3>1, <3>2, EventsGrow
  <2> QED  BY <1>5, <2>1, <2>2, EventsEmit DEF Others
<1>6. CASE Connections
  BY <1>6, EventsFrame
     DEF Connections, Open, Stall, Resume, Receive, BeginClose, Return, ConnectionPanics, SendDisconnect,
         DropReceiver, managerVars, queueVars
<1> QED  BY <1>1, <1>2, <1>3, <1>4, <1>5, <1>6 DEF Next

(* What connections have been sent.                                         *)
LEMMA FewerEntries ==
  ASSUME TypeOK, EntriesAreOwn, Delivered,
         \A q \in Peers : registered'[q] \in {None, registered[q]},
         UNCHANGED <<peerOf, since, delivered, handled>>,
         \A q \in Registered' : q \in Due' <=> q \in Due
  PROVE  EntriesAreOwn' /\ Delivered'
<1>1. \A q \in Registered' : /\ q \in Registered /\ registered'[q] = registered[q]
                             /\ registered[q] \in ConnIds
  BY DEF Registered, TypeOK
<1>2. EntriesAreOwn'
  BY <1>1 DEF EntriesAreOwn
<1>3. Delivered'
  <2> SUFFICES ASSUME NEW q \in Registered'
               PROVE  /\ since[registered[q]] <= LastSent(q)'
                      /\ delivered[registered[q]] = Numbers(since[registered[q]], LastSent(q)')
    BY <1>1 DEF Delivered, Numbers
  <2>1. q \in Registered
    BY <1>1
  <2>2. LastSent(q)' = LastSent(q)
    BY DEF LastSent
  <2> QED  BY <2>1, <2>2 DEF Delivered
<1> QED  BY <1>2, <1>3

LEMMA NewEntry ==
  ASSUME TypeOK, EntriesAreOwn, Delivered,
         NEW p \in Peers, NEW map \in [Peers -> ConnIds \cup {None}],
         \A q \in Peers : map[q] \in {None, registered[q]},
         Connect(p, map), UNCHANGED handled, p \notin Due',
         \A q \in Peers : map[q] # None => (q \in Due' <=> q \in Due)
  PROVE  EntriesAreOwn' /\ Delivered'
<1> DEFINE c == Len(peerOf) + 1
<1>1. /\ c \in ConnIds
      /\ registered' = [map EXCEPT ![p] = c]
      /\ peerOf' = Append(peerOf, p)
      /\ phase' = [phase EXCEPT ![c] = "starting"]
      /\ since' = [since EXCEPT ![c] = handled]
      /\ delivered' = delivered
  BY DEF Connect
<1>2. /\ peerOf \in Seq(Peers) /\ Len(peerOf) \in Nat /\ c \notin DOMAIN peerOf
      /\ DOMAIN peerOf' = DOMAIN peerOf \cup {c}
      /\ peerOf'[c] = p
      /\ \A i \in DOMAIN peerOf : peerOf'[i] = peerOf[i]
  BY <1>1 DEF TypeOK
<1> HIDE DEF c
<1>3. registered'[p] = c /\ since'[c] = handled
  BY <1>1 DEF TypeOK
<1>4. \A q \in Registered' \ {p} :
        /\ q \in Registered /\ registered'[q] = registered[q] /\ registered[q] # c
        /\ registered[q] \in ConnIds /\ map[q] # None
        /\ registered[q] \in DOMAIN peerOf /\ peerOf[registered[q]] = q
  BY <1>1, <1>2 DEF Registered, EntriesAreOwn, TypeOK
<1>5. EntriesAreOwn'
  <2>1. \A q \in Registered' : registered'[q] \in DOMAIN peerOf' /\ peerOf'[registered'[q]] = q
    BY <1>2, <1>3, <1>4
  <2>2. \A d \in ConnIds \ DOMAIN peerOf' : delivered'[d] = <<>>
    BY <1>1, <1>2 DEF EntriesAreOwn
  <2> QED  BY <2>1, <2>2 DEF EntriesAreOwn
<1>6. Delivered'
  <2> SUFFICES ASSUME NEW q \in Registered'
               PROVE  /\ since'[registered'[q]] <= LastSent(q)'
                      /\ delivered'[registered'[q]] = Numbers(since'[registered'[q]], LastSent(q)')
    BY DEF Delivered, Numbers
  <2>1. CASE q = p
    <3>1. delivered'[c] = <<>>
      BY <1>1, <1>2 DEF EntriesAreOwn
    <3>2. LastSent(q)' = handled /\ handled \in Nat
      BY <2>1, ManagerAssumption DEF LastSent, TypeOK
    <3> QED  BY <2>1, <3>1, <3>2, <1>3, NumbersEmpty
  <2>2. CASE q # p
    <3>1. /\ q \in Registered /\ registered'[q] = registered[q]
          /\ since'[registered[q]] = since[registered[q]]
      BY <2>2, <1>1, <1>4 DEF TypeOK
    <3>2. LastSent(q)' = LastSent(q)
      BY <2>2, <1>4 DEF LastSent, Registered
    <3> QED  BY <3>1, <3>2, <1>1 DEF Delivered
  <2> QED  BY <2>1, <2>2
<1> QED  BY <1>5, <1>6

LEMMA SendDelivers ==
  ASSUME TypeOK, BroadcastState, EntriesAreOwn, Delivered, NEW p \in Peers, SendTo(p)
  PROVE  EntriesAreOwn' /\ Delivered'
<1> DEFINE c == registered[p]
<1>1. /\ p \in todo /\ p \notin failed /\ p \in Registered /\ c \in ConnIds
      /\ handled \in Nat \ {0}
  BY ManagerAssumption DEF SendTo, BroadcastState, Registered, TypeOK
<1>2. /\ delivered' = [delivered EXCEPT ![c] = Append(@, handled)]
      /\ todo' = todo \ {p}
      /\ UNCHANGED <<registered, handled, peerOf, failed, since>>
  BY DEF SendTo, Enqueue
<1>3. Registered' = Registered
  BY <1>2 DEF Registered
<1>4. \A q \in Registered : registered[q] \in ConnIds
  BY DEF Registered, TypeOK
<1>5. \A q \in Registered : q # p => registered[q] # c
  BY <1>1 DEF EntriesAreOwn
<1>6. delivered'[c] = Append(delivered[c], handled)
      /\ \A d \in ConnIds : d # c => delivered'[d] = delivered[d]
  BY <1>1, <1>2 DEF TypeOK
<1>7. EntriesAreOwn'
  BY <1>1, <1>2, <1>3, <1>6 DEF EntriesAreOwn
<1>8. Delivered'
  <2> SUFFICES ASSUME NEW q \in Registered
               PROVE  /\ since[registered[q]] <= LastSent(q)'
                      /\ delivered'[registered[q]] = Numbers(since[registered[q]], LastSent(q)')
    BY <1>2, <1>3, <1>4 DEF Delivered, Numbers
  <2>1. CASE q = p
    <3>1. LastSent(p) = handled - 1 /\ LastSent(p)' = handled
      BY <1>1, <1>2 DEF LastSent, Due
    <3>2. since[c] <= handled - 1 /\ delivered[c] = Numbers(since[c], handled - 1)
      BY <1>1, <3>1 DEF Delivered
    <3>3. since[c] \in Nat /\ since[c] < handled
      BY <1>1, <3>2 DEF TypeOK
    <3>4. Append(Numbers(since[c], handled - 1), handled) = Numbers(since[c], handled)
      BY <1>1, <3>3, NumbersGrow
    <3> HIDE DEF c
    <3>5. /\ since[c] <= LastSent(p)'
          /\ delivered'[c] = Numbers(since[c], LastSent(p)')
      BY <1>1, <1>6, <3>1, <3>2, <3>3, <3>4
    <3> QED  BY <2>1, <3>5 DEF c
  <2>2. CASE q # p
    <3>1. LastSent(q)' = LastSent(q)
      BY <2>2, <1>2 DEF LastSent, Due
    <3>2. delivered'[registered[q]] = delivered[registered[q]]
      BY <2>2, <1>4, <1>5, <1>6
    <3> QED  BY <3>1, <3>2 DEF Delivered
  <2> QED  BY <2>1, <2>2
<1> QED  BY <1>7, <1>8

LEMMA StartBroadcastDelivers ==
  ASSUME TypeOK, BroadcastState, EventsInOrder, EntriesAreOwn, Delivered,
         NEW n \in 1..MaxBroadcasts, StartBroadcast(n)
  PROVE  EntriesAreOwn' /\ Delivered'
<1>1. /\ mode = "select" /\ todo' = Registered
      /\ UNCHANGED <<registered, failed, peerOf, since, delivered, emitted>>
  BY DEF StartBroadcast, Takes, connVars
<1>2. handled' = handled + 1
  BY EventsTake DEF StartBroadcast, BroadcastEvent
<1>3. todo = {} /\ failed = {} /\ handled \in Nat
  BY <1>1, ManagerAssumption DEF BroadcastState, TypeOK
<1>4. Registered' = Registered
  BY <1>1 DEF Registered
<1>5. EntriesAreOwn'
  BY <1>1, <1>4 DEF EntriesAreOwn
<1>6. \A q \in Registered : LastSent(q)' = LastSent(q)
  BY <1>1, <1>2, <1>3 DEF LastSent, Due
<1>7. Delivered'
  <2> SUFFICES ASSUME NEW q \in Registered
               PROVE  /\ since[registered[q]] <= LastSent(q)'
                      /\ delivered[registered[q]] = Numbers(since[registered[q]], LastSent(q)')
    BY <1>1, <1>4 DEF Delivered, Numbers
  <2> QED  BY <1>6 DEF Delivered
<1> QED  BY <1>5, <1>7

LEMMA DeliveredStep ==
  ASSUME IInv, DInv, [Next]_vars
  PROVE  EntriesAreOwn' /\ Delivered'
<1> USE DEF IInv, DInv
<1>u. ASSUME UNCHANGED <<registered, todo, failed, handled, peerOf, since, delivered>>
      PROVE  EntriesAreOwn' /\ Delivered'
  <2>1. \A q \in Peers : registered'[q] \in {None, registered[q]}
    BY <1>u
  <2>2. Due' = Due
    BY <1>u DEF Due
  <2> QED  BY <1>u, <2>1, <2>2, FewerEntries
<1>1. CASE UNCHANGED vars
  BY <1>1, <1>u DEF vars, managerVars, connVars
<1>2. CASE HandleEvent
  <2>1. ASSUME NEW r \in Reports, HandleTracker(r) PROVE EntriesAreOwn' /\ Delivered'
    BY <2>1, <1>u DEF HandleTracker, managerVars, connVars
  <2>2. ASSUME NEW p \in Peers, IgnoreConnection(p) PROVE EntriesAreOwn' /\ Delivered'
    BY <2>2, <1>u DEF IgnoreConnection, managerVars, connVars
  <2>3. ASSUME NEW p \in Peers, StartConnection(p) PROVE EntriesAreOwn' /\ Delivered'
    <3>1. /\ registered \in [Peers -> ConnIds \cup {None}]
          /\ \A q \in Peers : registered[q] \in {None, registered[q]}
      BY DEF TypeOK
    <3>2. mode = "select" /\ Connect(p, registered) /\ UNCHANGED <<todo, failed, handled>>
      BY <2>3 DEF StartConnection, Takes
    <3>3. p \notin Due' /\ Due' = Due
      BY <3>2 DEF BroadcastState, Due
    <3> QED  BY <3>1, <3>2, <3>3, NewEntry
  <2>4. ASSUME NEW p \in Peers, QueueConnection(p) PROVE EntriesAreOwn' /\ Delivered'
    BY <2>4, <1>u DEF QueueConnection, connVars
  <2>5. ASSUME NEW n \in 1..MaxBroadcasts, StartBroadcast(n) PROVE EntriesAreOwn' /\ Delivered'
    BY <2>5, StartBroadcastDelivers
  <2> QED  BY <1>2, <2>1, <2>2, <2>3, <2>4, <2>5 DEF HandleEvent
<1>3. CASE HandleDisconnect
  <2>1. /\ UNCHANGED <<peerOf, since, delivered, handled, todo, failed>>
        /\ registered' = [registered EXCEPT ![Head(disconnects)] = None]
    BY <1>3 DEF HandleDisconnect, connVars
  <2>2. \A q \in Peers : registered'[q] \in {None, registered[q]}
    BY <2>1 DEF TypeOK
  <2>3. Due' = Due
    BY <2>1 DEF Due
  <2> QED  BY <2>1, <2>2, <2>3, FewerEntries
<1>4. CASE BroadcastStep
  <2>1. ASSUME NEW p \in Peers, SendTo(p) PROVE EntriesAreOwn' /\ Delivered'
    BY <2>1, SendDelivers
  <2>2. ASSUME NEW p \in Peers, SendFails(p) PROVE EntriesAreOwn' /\ Delivered'
    <3>1. /\ UNCHANGED <<registered, peerOf, since, delivered, handled>>
          /\ p \in todo /\ todo' = todo \ {p} /\ failed' = failed \cup {p}
      BY <2>2 DEF SendFails, connVars
    <3>2. Due' = Due
      BY <3>1 DEF Due
    <3>3. \A q \in Peers : registered'[q] \in {None, registered[q]}
      BY <3>1
    <3> QED  BY <3>1, <3>2, <3>3, FewerEntries
  <2>3. ASSUME NEW p \in Peers, Replace(p) PROVE EntriesAreOwn' /\ Delivered'
    <3> DEFINE without == [registered EXCEPT ![p] = None]
    <3>1. /\ without \in [Peers -> ConnIds \cup {None}] /\ without[p] = None
          /\ \A q \in Peers : without[q] \in {None, registered[q]}
      BY DEF TypeOK
    <3>2. p \in failed /\ failed' = failed \ {p} /\ UNCHANGED <<todo, handled>>
      BY <2>3 DEF Replace
    <3>3. \/ registered' = without /\ UNCHANGED connVars
          \/ deque # <<>> /\ Connect(Head(deque), without)
      BY <2>3 DEF Replace
    <3>4. \A q : q # p => (q \in Due' <=> q \in Due)
      BY <3>2 DEF Due
    <3> HIDE DEF without
    <3>5. CASE registered' = without /\ UNCHANGED connVars
      <4>1. p \notin Registered'
        BY <3>1, <3>5 DEF Registered
      <4>2. UNCHANGED <<peerOf, since, delivered, handled>>
        BY <3>2, <3>5 DEF connVars
      <4> QED  BY <3>1, <3>4, <3>5, <4>1, <4>2, FewerEntries
    <3>6. CASE deque # <<>> /\ Connect(Head(deque), without)
      <4>1. deque \in Seq(Peers)
        BY DEF TypeOK
      <4>2. Head(deque) \in Peers /\ 1 \in DOMAIN deque /\ deque[1] = Head(deque)
        BY <4>1, <3>6
      <4>3. registered[Head(deque)] = None
        BY <4>2 DEF QueuedOnce
      <4>4. Head(deque) \notin Due'
        BY <3>2, <4>3 DEF BroadcastState, Due, Registered
      <4> QED  BY <3>1, <3>2, <3>4, <3>6, <4>2, <4>4, NewEntry
    <3> QED  BY <3>3, <3>5, <3>6
  <2>4. CASE EndBroadcast
    BY <2>4, <1>u DEF EndBroadcast, connVars
  <2> QED  BY <1>4, <2>1, <2>2, <2>3, <2>4 DEF BroadcastStep
<1>5. CASE Others
  BY <1>5, <1>u DEF Others, TrackerReports, EmitBroadcast, Forward, managerVars, connVars
<1>6. CASE Connections
  BY <1>6, <1>u
     DEF Connections, Open, Stall, Resume, Receive, BeginClose, Return, ConnectionPanics,
         SendDisconnect, DropReceiver, managerVars
<1> QED  BY <1>1, <1>2, <1>3, <1>4, <1>5, <1>6 DEF Next

LEMMA DeliveredIsEnough == TypeOK /\ Delivered => RegisteredMissNothing
  BY DEF TypeOK, Delivered, RegisteredMissNothing, LastSent, Due, Registered

(* The channel of every connection in the map, also of one whose task is    *)
(* gone, has got each broadcast since the connection started, once and in   *)
(* order, for any number of peers, broadcasts and connections and any size  *)
(* of the channels.                                                         *)
THEOREM NothingIsMissed == Spec => []RegisteredMissNothing
<1>1. Init => IInv /\ DInv
  BY InitIInv, InitDInv
<1>2. IInv /\ DInv /\ [Next]_vars => (IInv /\ DInv)'
  <2>1. IInv /\ [Next]_vars => IInv'
    BY TypeStep, ChannelStep, CoreStep DEF IInv, Core
  <2>2. IInv /\ DInv /\ [Next]_vars => DInv'
    BY EventsStep, DeliveredStep DEF IInv, DInv
  <2> QED  BY <2>1, <2>2
<1>3. IInv /\ DInv => RegisteredMissNothing
  BY DeliveredIsEnough DEF IInv, DInv
<1> QED  BY <1>1, <1>2, <1>3, PTL DEF Spec
=============================================================================
