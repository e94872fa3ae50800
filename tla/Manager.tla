------------------------------ MODULE Manager -------------------------------
(***************************************************************************)
(* The manager task (base/manager.rs): which peers are connected, which     *)
(* wait for a slot, and how the broadcasts of the download task reach the   *)
(* connections.  A connection is seen from the manager: a task that reads   *)
(* its bounded channel (or does not), and at its end drops the receiving    *)
(* end and reports the peer on the disconnect channel.                      *)
(***************************************************************************)
EXTENDS Integers, Sequences, FiniteSets

CONSTANTS
  Peers,         \* addresses that trackers may report
  MaxPeers,      \* 30: connections at one time
  IpcBuffer,     \* 10: buffer of a connection's channel
  Reports,       \* the peer lists that a tracker may report
  MaxReports,    \* bound: tracker reports
  MaxBroadcasts, \* bound: broadcasts of the download task
  MaxConns       \* bound: connections ever started

ASSUME ManagerAssumption ==
  /\ IsFiniteSet(Peers)
  /\ MaxPeers \in Nat
  /\ IpcBuffer \in Nat
  /\ Reports \subseteq Seq(Peers)
  /\ MaxReports \in Nat
  /\ MaxBroadcasts \in Nat
  /\ MaxConns \in Nat

None == 0
ConnIds == 1..MaxConns
ReportIds == 1..MaxReports

VARIABLES
  registered,  \* peers: the connection whose sender the map holds
  deque,       \* peers_deque: peers waiting for a slot
  events,      \* events_unbounded
  disconnects, \* disconnect_receiver
  forwards,    \* per report: what its forwarding task has still to send
  mode,        \* "select", "broadcast" or (the assertion failed) "panicked"
  todo,        \* during a broadcast: peers the loop has still to send to
  failed,      \* delete_keys
  parked,      \* the connection whose full channel the manager waits on
  handled,     \* broadcasts taken from events so far
  emitted,     \* broadcasts put into events so far
  reported,    \* tracker reports so far
  peerOf,      \* the peers of the connections started so far, in order
  phase,       \* per connection: where its task is
  waiting,     \* per connection: broadcasts in its channel
  since,       \* per connection: broadcasts handled before it started
  delivered    \* per connection: the broadcasts sent to its channel

managerVars == <<registered, deque, mode, todo, failed, parked, handled>>
queueVars == <<events, disconnects, forwards, emitted, reported>>
connVars == <<peerOf, phase, waiting, since, delivered>>
vars == <<managerVars, queueVars, connVars>>

TrackerEvent(r) == [type |-> "Tracker", peers |-> r]
ConnectionEvent(p) == [type |-> "Connection", peer |-> p]
BroadcastEvent(n) == [type |-> "Broadcast", number |-> n]
Events ==
  {TrackerEvent(r) : r \in Reports} \cup {ConnectionEvent(p) : p \in Peers}
    \cup {BroadcastEvent(n) : n \in 1..MaxBroadcasts}

Phases ==
  {"unused", "starting", "running", "stalled", "closing", "returned", "reported", "panicked"}

(* The receiving end exists until the connection's task returns or panics.  *)
IsOpen(c) == phase[c] \in {"starting", "running", "stalled", "closing"}

Registered == {p \in Peers : registered[p] # None}

Init ==
  /\ registered = [p \in Peers |-> None]
  /\ deque = <<>>
  /\ events = <<>>
  /\ disconnects = <<>>
  /\ forwards = [i \in ReportIds |-> <<>>]
  /\ mode = "select"
  /\ todo = {}
  /\ failed = {}
  /\ parked = None
  /\ handled = 0
  /\ emitted = 0
  /\ reported = 0
  /\ peerOf = <<>>
  /\ phase = [c \in ConnIds |-> "unused"]
  /\ waiting = [c \in ConnIds |-> 0]
  /\ since = [c \in ConnIds |-> 0]
  /\ delivered = [c \in ConnIds |-> <<>>]

-----------------------------------------------------------------------------
(* The tracker and download tasks put events into the unbounded channel.    *)
TrackerReports(r) ==
  /\ reported < MaxReports
  /\ reported' = reported + 1
  /\ events' = Append(events, TrackerEvent(r))
  /\ UNCHANGED <<managerVars, connVars, disconnects, forwards, emitted>>

EmitBroadcast ==
  /\ emitted < MaxBroadcasts
  /\ emitted' = emitted + 1
  /\ events' = Append(events, BroadcastEvent(emitted + 1))
  /\ UNCHANGED <<managerVars, connVars, disconnects, forwards, reported>>

(* The task spawned for a tracker report sends its next peer.               *)
Forward(i) ==
  /\ forwards[i] # <<>>
  /\ events' = Append(events, ConnectionEvent(Head(forwards[i])))
  /\ forwards' = [forwards EXCEPT ![i] = Tail(@)]
  /\ UNCHANGED <<managerVars, connVars, disconnects, emitted, reported>>

-----------------------------------------------------------------------------
(* manager_loop between events: select! takes from either channel.          *)
Takes(e) ==
  /\ mode = "select"
  /\ events # <<>>
  /\ Head(events) = e
  /\ events' = Tail(events)

(* Mutant of HandleDisconnect: peers.remove is left out.                    *)
HandleDisconnectOnly ==
  /\ mode = "select"
  /\ disconnects # <<>>
  /\ disconnects' = Tail(disconnects)
  /\ UNCHANGED <<managerVars, events, forwards, emitted, reported, connVars>>

HandleDisconnect ==
  /\ mode = "select"
  /\ disconnects # <<>>
  /\ registered' = [registered EXCEPT ![Head(disconnects)] = None]
  /\ disconnects' = Tail(disconnects)
  /\ UNCHANGED <<deque, mode, todo, failed, parked, handled, events, forwards, emitted,
                 reported, connVars>>

HandleTracker(r) ==
  /\ Takes(TrackerEvent(r))
  /\ \E i \in ReportIds :
       /\ forwards[i] = <<>>
       /\ forwards' = [forwards EXCEPT ![i] = r]
  /\ UNCHANGED <<managerVars, connVars, disconnects, emitted, reported>>

(* connect: an entry in the map and a task of its own.  map is the map      *)
(* before; the assertion says that it has no entry for p.                   *)
Connect(p, map) ==
  LET c == Len(peerOf) + 1
  IN  /\ c \in ConnIds
      /\ registered' = [map EXCEPT ![p] = c]
      /\ peerOf' = Append(peerOf, p)
      /\ phase' = [phase EXCEPT ![c] = "starting"]
      /\ since' = [since EXCEPT ![c] = handled]
      /\ mode' = IF map[p] = None THEN mode ELSE "panicked"
      /\ UNCHANGED <<waiting, delivered>>

Contains(q, p) == \E i \in DOMAIN q : q[i] = p

(* Mutant of Known: the deque is not looked at.                             *)
KnownByMap(p) == registered[p] # None

(* Mutant of HasSlot: one too many.                                         *)
HasSlotOrOne == Cardinality(Registered) <= MaxPeers

Known(p) == registered[p] # None \/ Contains(deque, p)
HasSlot == Cardinality(Registered) < MaxPeers

IgnoreConnection(p) ==
  /\ Takes(ConnectionEvent(p))
  /\ Known(p)
  /\ UNCHANGED <<managerVars, connVars, disconnects, forwards, emitted, reported>>

StartConnection(p) ==
  /\ Takes(ConnectionEvent(p))
  /\ ~Known(p)
  /\ HasSlot
  /\ Connect(p, registered)
  /\ UNCHANGED <<deque, todo, failed, parked, handled, disconnects, forwards, emitted,
                 reported>>

QueueConnection(p) ==
  /\ Takes(ConnectionEvent(p))
  /\ ~Known(p)
  /\ ~HasSlot
  /\ deque' = Append(deque, p)
  /\ UNCHANGED <<registered, mode, todo, failed, parked, handled, connVars, disconnects,
                 forwards, emitted, reported>>

-----------------------------------------------------------------------------
(* Broadcast: the loop awaits one send after the other, in the order of the *)
(* hash map, and then replaces the peers whose channel was closed.          *)
StartBroadcast(n) ==
  /\ Takes(BroadcastEvent(n))
  /\ mode' = "broadcast"
  /\ todo' = Registered
  /\ handled' = n
  /\ UNCHANGED <<registered, deque, failed, parked, connVars, disconnects, forwards,
                 emitted, reported>>

(* A message is always enqueued; the sender then waits if more messages     *)
(* than the buffer holds are in the channel.  After the handshake the read  *)
(* and write loops of the connection fill the same channel, so any send may *)
(* wait.                                                                    *)
MayWait(c) == phase[c] # "starting" \/ waiting[c] >= IpcBuffer

(* Mutant of MayPass: the channel is unbounded.                             *)
MayPassAlways(c) == TRUE

MayPass(c) == waiting[c] < IpcBuffer

(* Mutant of Enqueue: try_send, whose error for a full channel is ignored.  *)
EnqueueIfRoom(c) ==
  IF waiting[c] < IpcBuffer
  THEN /\ waiting' = [waiting EXCEPT ![c] = @ + 1]
       /\ delivered' = [delivered EXCEPT ![c] = Append(@, handled)]
  ELSE UNCHANGED <<waiting, delivered>>

Enqueue(c) ==
  /\ waiting' = [waiting EXCEPT ![c] = @ + 1]
  /\ delivered' = [delivered EXCEPT ![c] = Append(@, handled)]

SendTo(p) ==
  LET c == registered[p]
  IN  /\ mode = "broadcast"
      /\ parked = None
      /\ p \in todo
      /\ IsOpen(c)
      /\ todo' = todo \ {p}
      /\ Enqueue(c)
      /\ \/ MayWait(c) /\ parked' = c
         \/ MayPass(c) /\ parked' = None
      /\ UNCHANGED <<registered, deque, mode, failed, handled, queueVars, peerOf,
                     phase, since>>

(* Mutant of SendFails: the loop does not get past the closed channel.      *)
SendFailsAgain(p) ==
  /\ mode = "broadcast"
  /\ parked = None
  /\ p \in todo
  /\ ~IsOpen(registered[p])
  /\ failed' = failed \cup {p}
  /\ UNCHANGED <<registered, deque, mode, todo, parked, handled, queueVars, connVars>>

SendFails(p) ==
  /\ mode = "broadcast"
  /\ parked = None
  /\ p \in todo
  /\ ~IsOpen(registered[p])
  /\ todo' = todo \ {p}
  /\ failed' = failed \cup {p}
  /\ UNCHANGED <<registered, deque, mode, parked, handled, queueVars, connVars>>

(* One turn of the closure over delete_keys.                               *)
Replace(p) ==
  LET without == [registered EXCEPT ![p] = None]
  IN  /\ mode = "broadcast"
      /\ parked = None
      /\ todo = {}
      /\ p \in failed
      /\ failed' = failed \ {p}
      /\ \/ /\ deque = <<>>
            /\ registered' = without
            /\ UNCHANGED <<deque, mode, connVars>>
         \/ /\ deque # <<>>
            /\ deque' = Tail(deque)
            /\ Connect(Head(deque), without)
      /\ UNCHANGED <<todo, parked, handled, queueVars>>

EndBroadcast ==
  /\ mode = "broadcast"
  /\ parked = None
  /\ todo = {}
  /\ failed = {}
  /\ mode' = "select"
  /\ UNCHANGED <<registered, deque, todo, failed, parked, handled, queueVars, connVars>>

-----------------------------------------------------------------------------
(* The connection tasks (peer_conn_loop and the task that wraps it).  Until *)
(* the handshake is done nothing is read from the channel.                  *)
SetPhase(c, from, to) ==
  /\ phase[c] = from
  /\ phase' = [phase EXCEPT ![c] = to]

Open(c) ==
  /\ SetPhase(c, "starting", "running")
  /\ UNCHANGED <<managerVars, queueVars, peerOf, waiting, since, delivered>>

(* A handler of the peer loop waits for room in the writer channel, or for  *)
(* the download task, and nothing is read from the channel meanwhile.       *)
Stall(c) ==
  /\ SetPhase(c, "running", "stalled")
  /\ UNCHANGED <<managerVars, queueVars, peerOf, waiting, since, delivered>>

Resume(c) ==
  /\ SetPhase(c, "stalled", "running")
  /\ UNCHANGED <<managerVars, queueVars, peerOf, waiting, since, delivered>>

(* Each message taken wakes one parked sender, first come first served: the *)
(* manager, at the latest when the message it has just sent is taken.       *)
Receive(c) ==
  /\ phase[c] = "running"
  /\ waiting[c] > 0
  /\ waiting' = [waiting EXCEPT ![c] = @ - 1]
  /\ \/ parked = c /\ parked' = None
     \/ (parked # c \/ waiting[c] > 1) /\ UNCHANGED parked
  /\ UNCHANGED <<registered, deque, mode, todo, failed, handled, queueVars, peerOf,
                 phase, since, delivered>>

(* The remote side closes: the loop waits for the write loop, no longer     *)
(* reading its channel but still holding it.                                *)
BeginClose(c) ==
  /\ SetPhase(c, "running", "closing")
  /\ UNCHANGED <<managerVars, queueVars, peerOf, waiting, since, delivered>>

(* The receiving end is dropped: a parked sender goes on, later sends fail. *)
DropReceiver(c, to) ==
  /\ phase' = [phase EXCEPT ![c] = to]
  /\ waiting' = [waiting EXCEPT ![c] = 0]
  /\ parked' = IF parked = c THEN None ELSE parked
  /\ UNCHANGED <<registered, deque, mode, todo, failed, handled, queueVars, peerOf,
                 since, delivered>>

(* The loop returns, by an error or after BeginClose.                      *)
Return(c) == IsOpen(c) /\ DropReceiver(c, "returned")

(* An address that does not parse, or a message that indexes out of range.  *)
ConnectionPanics(c) == phase[c] \in {"starting", "running"} /\ DropReceiver(c, "panicked")

SendDisconnect(c) ==
  /\ c \in DOMAIN peerOf
  /\ SetPhase(c, "returned", "reported")
  /\ disconnects' = Append(disconnects, peerOf[c])
  /\ UNCHANGED <<managerVars, events, forwards, emitted, reported, peerOf, waiting,
                 since, delivered>>

-----------------------------------------------------------------------------
HandleEvent ==
  \/ \E r \in Reports : HandleTracker(r)
  \/ \E p \in Peers : IgnoreConnection(p) \/ StartConnection(p) \/ QueueConnection(p)
  \/ \E n \in 1..MaxBroadcasts : StartBroadcast(n)

BroadcastStep ==
  \/ \E p \in Peers : SendTo(p) \/ SendFails(p) \/ Replace(p)
  \/ EndBroadcast

Others ==
  \/ \E r \in Reports : TrackerReports(r)
  \/ EmitBroadcast
  \/ \E i \in ReportIds : Forward(i)

Connections ==
  \E c \in ConnIds :
    \/ Open(c) \/ Stall(c) \/ Resume(c) \/ Receive(c) \/ BeginClose(c) \/ Return(c)
    \/ ConnectionPanics(c) \/ SendDisconnect(c)

Next == HandleEvent \/ HandleDisconnect \/ BroadcastStep \/ Others \/ Connections

Spec == Init /\ [][Next]_vars

(* The executor polls every task that can go on, and select! picks at       *)
(* random between its two channels, so neither is passed over for ever.  A  *)
(* peer loop that comes back to its channel again and again takes what is   *)
(* there; that it comes back at all is not assumed.                         *)
FairSpec ==
  /\ Spec
  /\ WF_vars(HandleEvent)
  /\ SF_vars(HandleDisconnect)
  /\ WF_vars(BroadcastStep)
  /\ \A i \in ReportIds : WF_vars(Forward(i))
  /\ \A c \in ConnIds : SF_vars(Receive(c)) /\ WF_vars(SendDisconnect(c))

(* Not the code's doing, but the remote side's, which has to take what is   *)
(* written: handlers go on, and a closing connection ends.                  *)
HandlersEnd ==
  \A c \in ConnIds :
    WF_vars(phase[c] = "stalled" /\ Resume(c)) /\ WF_vars(phase[c] = "closing" /\ Return(c))

SilentSpec == FairSpec /\ HandlersEnd

-----------------------------------------------------------------------------
(* The type invariant.                                                     *)
TypeOK ==
  /\ registered \in [Peers -> ConnIds \cup {None}]
  /\ deque \in Seq(Peers)
  /\ events \in Seq(Events)
  /\ disconnects \in Seq(Peers)
  /\ forwards \in [ReportIds -> Seq(Peers)]
  /\ mode \in {"select", "broadcast", "panicked"}
  /\ todo \subseteq Peers
  /\ failed \subseteq Peers
  /\ parked \in ConnIds \cup {None}
  /\ handled \in 0..MaxBroadcasts
  /\ emitted \in 0..MaxBroadcasts
  /\ reported \in 0..MaxReports
  /\ peerOf \in Seq(Peers)
  /\ phase \in [ConnIds -> Phases]
  /\ waiting \in [ConnIds -> 0..(IpcBuffer + 1)]
  /\ since \in [ConnIds -> Nat]
  /\ delivered \in [ConnIds -> Seq(1..MaxBroadcasts)]

(* "assert!(manager.peers.insert(..).is_none())" (connect) never fails: no  *)
(* order of reports, failing sends and disconnects makes the manager start  *)
(* a connection to a peer that the map still holds.                         *)
NoDoubleInsert == mode # "panicked"

(* The map never holds more connections than the limit, replacements        *)
(* during a broadcast included.                                             *)
WithinLimit == Cardinality(Registered) <= MaxPeers

(* The memory of a slow connection is bounded ("mpsc::channel(10)" in       *)
(* connect): its channel goes over the buffer by one broadcast only, and    *)
(* only while the manager itself waits on it.                               *)
ChannelBound == \A c \in ConnIds : waiting[c] <= IpcBuffer \/ parked = c

(* A peer waits for a slot once, and not while it has one.                  *)
QueuedOnce ==
  /\ \A i, j \in DOMAIN deque : deque[i] = deque[j] => i = j
  /\ \A i \in DOMAIN deque : registered[deque[i]] = None

(* The broadcasts from one number up to another, in order.                  *)
Numbers(from, to) == [i \in 1..(to - from) |-> from + i]

(* The channel of each connection in the map gets every broadcast handled   *)
(* since the connection started, once and in order.  One whose task is gone *)
(* without a disconnect stays in the map until the next broadcast meets its *)
(* closed channel, and no longer than that broadcast.                       *)
RegisteredMissNothing ==
  \A p \in Peers :
    LET c == registered[p]
    IN  c # None =>
          delivered[c] =
            Numbers(since[c], IF p \in todo \cup failed THEN handled - 1 ELSE handled)

(* "notify peers that this block is complete", "notify peers if piece is    *)
(* complete" (store): between events, no connection that is still open      *)
(* lacks a broadcast handled since it started.                              *)
EveryConnectionIsNotified ==
  mode = "select" =>
    \A c \in ConnIds : IsOpen(c) => delivered[c] = Numbers(since[c], handled)

(* The manager waits for room in the channel of a connection that is not at *)
(* its channel: it answers no handshake, hangs in a handler or in teardown. *)
IsHeldUp == \E c \in ConnIds : parked = c /\ phase[c] # "running"

(* A broadcast under way comes to its end and the manager returns to its    *)
(* events.                                                                  *)
BroadcastsEnd == (mode = "broadcast") ~> (mode = "select")

(* Nothing but a connection that no longer reads its channel keeps the      *)
(* manager from its events for ever: neither channels that are closed under *)
(* way nor a queue of peers to be connected instead.                        *)
OnlyConnectionsHoldUp == (mode = "broadcast") ~> (mode = "select" \/ []IsHeldUp)

(* The slot of a connection that has reported its end is freed, unless the  *)
(* manager is held up.                                                      *)
EndedLeaveTheMap ==
  \A p \in Peers, c \in ConnIds :
    (registered[p] = c /\ phase[c] = "reported") ~> (registered[p] # c \/ []IsHeldUp)
=============================================================================
