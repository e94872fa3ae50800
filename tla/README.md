# A verification of rust-torrent-client

TLA+ models of the BitTorrent client in `bt/src`, the TLC runs that check them on
small instances, and theorems about them that TLAPS proves for every value of the
constants. Paths below are relative to the repository's `bt/src` unless they say
otherwise; `PROJECT.json` lists the runs, the mutants each property is tried
against, the source lines of every definition, the hazards, the findings and the
theorems.

## The system

The client is a set of async-std tasks that share nothing but `futures` channels.

    trackers --Tracker(peers)--> manager --Broadcast--> peer connections (<= 30)
                                   ^  |                   |  ^
             Broadcast, FileFinish |  | (other events)    |  | oneshot replies
                                   |  v                   v  |
                                   download task <--Piece, RequireData, ...

| Component | State | Operations | Correct when |
|---|---|---|---|
| Download task, `base/download.rs` | pieces with the flags of their blocks, files, their names | store a block (write, verify, rename finished files, announce), serve data, list incomplete blocks, list pieces | complete pieces are verified and stay so, failures can be retried, announcements and snapshots leave nothing out, files are finished when whole, every request is answered or cancelled |
| File layout, in `base/download.rs` | none: offsets, pieces, blocks | search_index, search_ptrs, create_pieces | ranges are cut at the right files |
| Manager, `base/manager.rs` | map of connected peers to channels, queue of waiting peers | connect, forward broadcasts, replace closed connections, take disconnects, pass on tracker reports | limit, no duplicate connection, every connection hears every broadcast, never stops |
| Peer connection, `peer/peer_connection.rs` | choke and interest of both sides, requests of both sides, blocks to request, upload in progress | handlers of ten messages and four broadcasts; read loop; write loop | request pipeline consistent, no lost Have, one upload at a time, no deadlock between its three tasks |
| Messages, `base/ipc.rs` | none | Message to bytes and back | frames keep their bounds, what is written is what is read |
| Handshake, in `peer/peer_connection.rs` | none | send and receive, in either order | peers of the same torrent connect, others do not |
| Tracker supervisor and trackers, `tracker/` | status per url | start trackers one after the other, report peers | another tracker is tried while none is active |
| Bencode, `bencode/` | none | decode to values or from a stream into records, encode | decode and encode are inverse |
| Meta info, `base/meta_info.rs` | none | read by way of a value or from the stream, write, info hash, urls | both readers agree, the hash is that of the file's bytes, no url is lost |
| Terminal, programs | print thread | logging, start | - |

What makes it hard: every `await` lets other tasks in; three of the channels are
bounded (10), so that sends wait for readers that may themselves be waiting; a
connection may end at any await, by an error or a panic, and is known to the rest
only by its peer's address; an error in the download task (`?`) ends it for all
connections; blocks arrive twice, late or wrong, of any length and at any offset; nothing
has a timeout except the start of trackers.

## Modules

| Module | Models | Checked by |
|---|---|---|
| `FileLayout` | the arithmetic of pieces, blocks, files: `create_pieces`, `Piece::new`, `search_index`, `search_ptrs`, the ranges in `verify_file` | the runs of `Download` |
| `Download` | `download_loop` and all it calls | `MCDownload` |
| `PieceStore` | what the download task promises to the others, without blocks, files, channels and errors: an abstract specification | `Download` implements it |
| `Manager` | `manager_loop`, `process_event`, `connect`, and connections as the manager sees them | `MCManager` |
| `PeerConnection` | `peer_conn_loop` after the handshake, `conn_read_loop`, `conn_write_loop`, and what they see of the manager and the download task | `MCPeerConnection` |
| `Trackers` | `TrackerSupervisor::run` and the tasks of the trackers | `MCTrackers` |
| `Bencode` | `Decoder`, `Encoder`, `Value` and its conversions, the readers of fields that the macro of `hash.rs` makes | `Session` |
| `MetaInfo` | the records of a torrent file, `parse`, `DecodeTo`, `FromValue`, `into_value`, `info_hash`, `get_urls` | `Session` |
| `TrackerResponse` | `TrackerResponse::parse` and the peers in it | `Session` |
| `Wire` | the handshake and the frames of messages as bytes on a stream; `WireSpec` is a connection on its own | `Session` |
| `Session` | `MetaInfo`, `TrackerResponse` and `Wire` put together: from the torrent file by a tracker's answer to the first messages of a connection | `MCSession` |
| `Induction` | two general lemmas: a set of numbers has a smallest element, a set that holds 0 and every successor holds every number | TLAPS |
| `FileLayoutProofs`, `DownloadProofs`, `ManagerProofs`, `PeerConnectionProofs`, `TrackersProofs`, `WireProofs`, `SessionProofs` | theorems | TLAPS |

Definitions whose comment starts with "Mutant of" are no part of a model. They are
plausible mistakes in the code; with one of them in place of the definition they
are named for, TLC finds the property that `PROJECT.json` pairs with it violated.

### Download

`rx` is the task's channel; each handler is one action from taking the event to the
last send, because the task owns its pieces and files and nobody sees them in
between. What others can see in between, its announcements, is the sequence `sent`.
A handler has one action per way to leave it: `StoreIgnored` (the early return),
`StorePanics` (a piece, block or position that does not exist), `StoreWriteFails`, `StoreReadFails` and `StoreVerifyFileFails` (the `?`s, which end
the loop with what was done up to there), `StoreInvalid` (the hash differs),
`StoreCompletes`. The end of the loop drops the events in the channel and with them
the oneshots, so the waiting peers see `cancelled`.

Nothing ties the offset and the length of what a remote side delivers to the blocks of a
piece. The code counts the data as the block that the offset falls in and writes all
of it from the start of that block on, over block, piece and file borders; so do the events of
the model (`Arrivals`), which carry a sequence of bits: whether a byte is the
torrent's at the place where it is written. `good` holds the positions where the files have the
torrent's byte. `spilled` is of the model only: the positions of complete pieces that data longer than its
own block has overrun. A requested range (`Ranges`) begins in a complete piece and
may run on into others. `search_ptrs` panics if a range is not all in the torrent, or if no file begins at or before
an offset at its end (`Outside`). At the start `good` is one of `Leftovers`, since `create_files` opens files without
truncating them. The hash of a piece is right exactly if all its bytes are good; hash collisions are
left out. `Faults` says what may go wrong: a failing write (after none, part or all
of the data), a failing read, a short read (`file.read` delivers fewer bytes and
the code does not look), a failing rename. A short read shows in the hash; in the
answer to a peer it is not told from a whole one, so `unverified` and `ServedIsVerified`
speak of what is in the file when it is read. Bytes count as written when `write_all`
returns; async-std's write buffer is left out.

Three properties state an exception for data that is longer than its block.
`CompletedIsFrozen` says that no other data changes a byte of a complete piece, and that such data must be for a block of
another piece, which is still incomplete; `SingleBlockIsVerified` and `ServedIsVerified` that bytes of a complete piece of one block
which have not been overrun in this way are the torrent's, in the files and in answers to requests. Of
the bytes that a request reads beyond its piece they say nothing, as the code does not.

`PieceStore` says what is left of this for the rest of the program: pieces become complete
once and for all and are announced in the same step, the download after the last of them, and
whoever asks is answered, until a crash, after which those that wait are cancelled and nothing
more happens. The piece that was being completed when the task ended may be complete and not
announced, which is what `StoreVerifyFileFails` leaves behind. `Promise` in `Download` maps
the pieces' flags, the announcements in `sent` and the oneshots to it; `ImplementsPieceStore`,
with the fairness of the answers, is checked by TLC, and `DownloadImplementsPieceStore` proves
the part without fairness.

`FileLayout` keeps the code's arithmetic, with the sizes as constants. Offsets have
64 bits and the sizes of a torrent do not come near 2^64, so widths are left out; the one
subtraction that does go below 0 (`file_offsets[i + 1] - 1` for a file of length 0
at offset 0, `download.rs:161`) is the second disjunct of `StopsAt`.

### Manager

`registered` is the hash map: the id of the connection whose sender it holds. Ids
exist in the model only; the code knows connections by address, which is what
`manager_stale` is about. The actions are those of the loop between two awaits:
taking an event, one send of a broadcast (`SendTo`, `SendFails`), one turn of the
replacement (`Replace`). A connection is a task with a `phase`: `starting` (connect
and handshake, its channel is not read), `running`, `closing` (it awaits its write
loop, its channel is not read but open), `returned` (the receiver is gone, the
disconnect not yet sent), `reported`, or `panicked`, after which no disconnect is
ever sent. A running connection may be `stalled`: a handler waits for room in the writer
channel, whose loop is behind a `write_all` that the remote side does not let end, or for the ipc
channel itself (`peer_narrow`), or for the download task, and nothing is read meanwhile. A
send puts its message into the channel and then waits while the channel
holds more than its buffer; as the read and write loops of a connection fill
the same channel, any send to it may wait.

Not modelled: `FileFinish` and `RequirePieceLength`, whose effects nobody reads;
events passed on to the download task (the default arm), which only the connections'
own sender is used for; a waiting `disconnect_sender`, whose task has nothing left to
do. `ManagerEvent::Connection` only ever carries `true`.

### PeerConnection

Three tasks and two channels. The peer loop is sequential, but each `send().await`
is a point where others go on, so a handler puts what it has still to do into
`steps` and each step is an action. A send always enqueues and then waits if there
are more messages than the buffer holds (`blocked` for the writer channel,
`ipcParked` for the senders into the ipc channel, in order); a message taken lets
one of them go on. `queue_blocks` is two steps, the answer of the download task and
its insertion, since stores happen between them. `EndLoop` is every `?`.

From outside come messages of the remote side (any of `RemoteMessages`, in any
order, up to `MaxReceived`), broadcasts by way of the manager (`pending`) and stores
that complete a piece (`StoreBlock`), as the download task does with the first block of
a piece. `he.has_pieces` is written and never read by a handler, and only in `Wire`.

`PipelineIsFilled` says when the loop may run short of requests: only by the handler of
`BlockCompleted`, which cancels a request and asks for no other block. Two more ways to stall
lie between the modules; like the first they break no statement of the code, so all three are listed as
hazards without a property: after a failed verification nobody queues the piece again
(`download.rs:127`), and Choke keeps `me.requests`, so that requests which the remote side has
dropped go on counting against the limit (`peer_connection.rs:446`).

### Trackers

The supervisor's `mode` is its place in `run`: `starting` and `waiting` are the two
halves of a turn of `loop_until_connected`, `recording` is the loop after it,
`listening` is `wait_on_tracker_msg`. `pending` and `states` are the two collections of
statuses; both are read only by url and last status, so a map stands for the vector
too, and the instants, which nobody reads, are left out. The timeout looks at the channel
first, so `TimeOut` needs it empty; when it fires is otherwise open.

A tracker's task is `announcing`, `telling` (its status is in the channel, and it may
wait there for room), `sleeping` or `ended`. What an announce leads to is one of four
statuses, `few` being `FoundPeers` of less than the two peers that `is_one_active` asks
for. A silent tracker stays `announcing`, for there is no timeout on a request. The
urls of an announce list may repeat, so `UrlList` is any sequence, and `TiersInOrder` speaks of
the first place of a url.

`try_another_tracker` takes the urls with a status for those that have been started. So
a tracker that has not answered yet is started again with every status that arrives, in
a task of its own, and no tracker behind it is started until it answers. That every
tracker is tried in the end (`EveryTrackerIsTried`) therefore needs an assumption: once
`PromptAfter` tasks were started, no tracker announces again while another one owes its first
answer. In the run that leaves room for a silent tracker to be started again with another
one behind it. The theorems do without it.

An announce may also end in a panic: `TrackerResponse::parse` takes chunks of 6 bytes from a compact answer, and
`from_bytes` indexes out of range in a last one that is shorter (`peer/peer_connection.rs:36`, by
`tracker.rs:157`; `Session` has this answer, too). The task then ends without a status (`Panics`), and
urls behind it may stay untried for ever. `NoneLeftUntried` and `EveryTrackerIsTried` exempt
such a search (`OwesStatus`): a task that panicked before its first status, or after one that said that
peers were found.

### Session and the formats

A stream of bencode is a sequence of tokens: the opening of a dict or of a list, an end, a number, and a
byte string together with its length. The digits of numbers and lengths are left out but for
`NotANumber`, a number that does not parse. A position is the number of the next token, or 0 for one
inside of a token, where a failed expectation leaves the cursor: the code takes single bytes away
before it looks at them. Byte strings are an ordered list `Words`, some of which are not UTF-8 (`Binary`),
for `Value` tells String from Bytes by that. Integers have `Width` bits and are cut by
conversions as `as` does. Reading is a recursive function over positions; results are `ok`, `missing`
or `malformed`, since nothing in the program tells other errors apart. Writing goes by the nesting of a value, and `Encode` is
bounded to the six levels of a torrent's: a word in the path of a file lies in a list in a dict in a list in a dict in
a dict. No operator is RECURSIVE, and `++`, which adds to a map what another has beyond it, stands in for `insert` and for that of the
modules on functions, since proofs are to reach it.

`MetaInfo` has both readers of a torrent file: from the stream (`DecodeTo`), which
the tests use, and by way of a `Value` (`FromValue`), which the program uses. `ReadersAgree` compares them on
each file whose keys are in order, whichever of them accepts it. If both do, they read the same record. The reader of the stream alone refuses an
empty announce-list and a negative length; the reader of values alone refuses hashes that happen to be a text,
numbers that are none or too large for an i64, under keys that nobody asks for too, and keys that are not UTF-8. SHA-1 is taken to be
injective: the info hash of a file is the tokens that were hashed.
`Sha1List` drops what follows the last full 20 bytes. `get_urls` drops urls that do not parse.

`Wire` is at the level of bytes, with the shift and mask operations of the code written as arithmetic.
The handshake has one byte for the hash and one for each peer id, and 2 reserved bytes for 8; the rest of
its layout is the code's. TCP delivers a prefix of what was written. `serialize` writes a Piece with id 6,
the id of a Request (`base/ipc.rs:82`): `ReadAs` says that a Piece is read as one, and
`FramesAreReadAsWritten` that all others are read as themselves. A Port is read and then ends the
reader's connection, which has no handler for it (`GoOnAfter`). `WireSpec` has the hashes that the two sides
know their torrents by as parameters; in `Session` they are fixed when the connection starts and its steps of the
connection are those of `WireSpec`. `WellFormed` says what connections write: numbers of unsigned types, and pieces that
the torrent has.

`Session` composes the three. A torrent file is given by its fields, each a key with any tokens, in any order; a tracker's answer
by its peers and their form, and by its other fields, any of which may be missing or of another type, of which `Answer` makes
the dict that is encoded and parsed. Its remote side has the same torrent and takes the bytes of the file's info
for its hash. That a client which hashes its own rewritten record agrees with it is not a matter of course:
`PlainInfo` says for which files it does, and `PeerOfTheTorrentConnects` that exactly then the
handshake succeeds. That the TCP connect succeeds and that the manager has a slot for the peer is assumed here: the first step of a
connection is that of `WireSpec`, and slots are what `Manager` is about.

## Runs

| Run | Question | Bounds |
|---|---|---|
| `download` | do flags, files, announcements and replies agree under all faults and orders, for data and ranges that are not cut as blocks are? | 2 pieces (2 blocks and 1), 4 files inside, empty, across and at the end, 13 kinds of data, 5 ranges, files that are new, old or half written, 2 peers, 2 waiting events |
| `manager` | do the map, the queue and the channels agree, and do the channels keep to their bound? | 3 peers, 2 slots, buffer 1, 2 reports, 2 broadcasts, 4 connections |
| `manager_progress` | is a connection that does not read its channel all that can stop a broadcast, or keep an ended connection in the map? | 2 peers, 1 slot, buffer 0, 2 reports, 2 broadcasts, 4 connections |
| `trackers` | is the order of the list kept, is a tracker left out when all others have ended, do found peers reach the manager, is every tracker tried? | 3 urls with one or two answers each, 7 tasks, no buffer, prompt answers once 3 tasks were started, 1 panic |
| `peer_download` | is the request pipeline consistent with handlers and broadcasts interleaved? | 2 pieces of 1 block, 1 request, buffers of 1, 3 messages |
| `session` | is a torrent file, a tracker's answer, a handshake, a message read as it was written, and do peers of the torrent connect? | 193 files: one plain and those that differ from it in one field, or two; 23 answers: peers and counts whole, missing, of another type, ragged or a text; 12 messages, of which 2 are written on a stream that breaks anywhere; integers of 8 bits |
| `peer_upload` | one upload at a time, every upload ends, and every teardown but those that wait for a full ipc channel | 1 piece of 2 blocks, buffers of 1 (ipc) and 10 (writer), 3 messages |

The bounds are enough for the cases that matter to meet. In `download`, data overruns the
next block of its piece, the next piece and the end of the torrent, is short, and begins inside of a block; every piece completes in every order, verification fails and is repeated, every fault strikes at
every place, and each file relation (inside a piece, empty and inside of one, across two, ending with the
torrent) occurs; `BlocksAreCutAtFiles` meets every block and piece of that layout; event numbers are bounded only by the channel. In `manager`, the
slots fill, peers queue, connections are replaced during a broadcast and come back,
and a full channel parks the manager. 30 slots and buffers of 10 behave like 2 and 1:
the code compares, it does not count otherwise. In `manager_progress` no more than
four connections are ever started, so `MaxConns` does not bind; its channels have no buffer, so that a send
waits unless it is taken at once. In `trackers`, seven tasks
are enough for a silent tracker to be started again, with another one behind it, and an eighth is never
started (with `MaxTasks` at 8 the states are the same), so that the bound cannot
be what stops a search. Each tracker has its own answers (`SomeAnswers`), all four statuses among them, and may be silent first. In `peer_upload` the ipc channel holds one message and fills up, so that teardowns meet a write loop
that waits for it, while the writer channel has room for all that a handler sends; with both full, see `peer_narrow`. In `session`, each field of a file is left out, moved, repeated,
unknown, of another type, not a number, negative or beyond 8 bits in turn, so that every
error path of the readers is taken; a connection that goes on to messages or is lost is followed for the
plain file only (`Talking`), since what is sent after the handshake does not depend on the file.
In `peer_download`, the
buffers are smaller than what one handler sends, so that every interleaving at an
await is met. Runs that end by their bounds, or because the task returned, turn
off the deadlock check and say so in their cfg.

### Disagreements

Five runs expect a violation. Each checks what a comment of the code says, and each
counterexample is a short story about the code.

- `download_unverified`: the first block of a piece of several blocks marks the piece
  complete without a hash (`base/download.rs:130`, against the comment in line 316).
  Later blocks of the piece are then dropped by the guard of `store`. With 16 KiB blocks nearly
  every real piece has several. The other properties of `Download` hold in spite of
  this, so they are stated where it does not matter, or for pieces of one block.
- `download_empty_last`: a file of length 0 at the end keeps its `.temp` suffix
  (against line 131).
- `manager_stale`: a late disconnect removes the live connection of a peer that was
  connected again, which then hears no broadcast (`base/manager.rs:225`, against
  `download.rs:134` and `137`).
- `manager_silent_peer`: a remote side that never answers the handshake stops the
  manager within a broadcast (`base/manager.rs:43`). `manager_progress` shows that only a connection that does not read
  its channel can do so (`OnlyConnectionsHoldUp`), here one whose handshake does not end.
- `peer_narrow`: the peer loop waits for room in the writer channel while the write
  loop waits for room in the ipc channel (`peer/peer_connection.rs:430`). The run has
  buffers and `MaxRequests` of 1; in the code, one Have for many blocks sends
  Interested and 10 Requests, again one more than the buffer of 10 holds. `peer_upload` shows
  that a full ipc channel alone does not hold up an upload: with room in the writer channel they finish.

### Fairness

- `Download`: weak fairness of the task, which the executor polls as long as it has
  an event. Nothing is assumed of the senders.
- `Manager`: weak fairness of each task that can go on. `select!` polls its two
  channels in random order, so a disconnect is not passed over for ever: strong
  fairness for `HandleDisconnect`. The loop of a connection may leave its channel alone, for a handler that waits, and come back
  to it again and again; what it finds there it takes, so strong fairness for `Receive`. That it comes back at all is not
  assumed, since nothing in the code sees to it, and the two properties of `manager_progress` except a manager that is held
  up for ever by a connection that is not at its channel (`IsHeldUp`). `manager_silent_peer` adds `HandlersEnd`, that handlers
  and teardowns end, and is violated by a handshake that does not.
- `Session`: weak fairness of the program's own steps, ours and those of the remote side, which runs the
  same code. That a tracker answers, that messages are written and that a connection is lost is
  not assumed.
- `PeerConnection`: weak fairness of the three tasks and the manager, and a socket that failed for writing ends for
  reading (`FairSpec`); the remote side may stay silent for ever. That a write to the socket ends is the remote side's doing, as the code sets no timeout on it, and is
  the conjunct `WritesEnd` of `WritingSpec`, under which `peer_upload` is checked. Teardowns end under it but for one case,
  which `ClosingEnds` names: the peer loop keeps the ipc channel while it awaits the write loop (lines 377 and 378), which waits for
  room there to report a block (line 430).
- `Trackers`: weak fairness of the supervisor and of every task, since clocks go on
  and the executor polls (`FairSpec`). That an announce ends, with a status or in a panic, is not the code's doing,
  which sets no timeout on a request, and is a conjunct of `AnsweringSpec` only.

## Theorems

TLAPS proves, from the assumptions named in the modules (`LayoutAssumption`,
`DownloadAssumption`, `ManagerAssumption`, `PeerConnectionAssumption`, `TrackersAssumption`, `WireAssumption`; and for the
session `BencodeAssumption`, that words are different, `MetaInfoAssumption` and `ResponseAssumption`, that the names of
fields are texts and a hash cut to full chunks is whole, `FilesAssumption`, that files consist of tokens, and `RepliesAssumption`, what an
answer is in each of its forms: a dict whose fields, but for its peers, and those of its listed peers are scalars) and nothing else:

- `ManagerProofs`: the type invariant, and four safety properties: the assertion of `connect`
  never fails, the map keeps to the limit, a peer waits at most once, and a channel holds
  no more than its buffer and the message that the manager waits with. (That a peer waits once, `QueuedOnce`, is stated by no run: it is part of the invariant,
  and the mutant that breaks it breaks the assertion too.) The first three are not
  inductive, and they need each other. `IInv` adds that the manager's local variables mean what
  they should: between broadcasts `todo` and `failed` are empty, during one they are
  disjoint sets of registered peers, so that a replacement removes an entry before it makes one. The proof has one
  step per action; actions of the environment leave the manager's part alone
  (the frame lemmas). The fifth, `NothingIsMissed`, is that every connection in the map has got each
  broadcast since it started, once and in order. Its invariant has the broadcasts in the event
  channel numbered without a gap from the last one handled (`EventsInOrder`), entries that belong to
  their peer (`EntriesAreOwn`), and for each entry the exact list it was sent, up to this broadcast or the
  one before according to `todo` (`Delivered`).
- `DownloadProofs`: the type invariant; complete pieces are frozen but where data overruns its block, an action property that
  follows from the first guard of `store` and from where a store writes
  (`StoreBlockEffect`, `StoreEffect`); complete pieces of one block are verified but where they were overrun, because for
  them the arriving block is the last; and what is read for peers inside of such pieces is
  verified with the same exception, which rests on the previous one. All of this is for data of any length at any offset. `PiecesStayRetriable`: an incomplete piece has a block left to
  ask for, since flags are only added with the piece's completion or the end of the loop, and a failed
  verification takes all of a piece's away. `SnapshotsAreAnnounced` and
  `AnnouncementsFollowProtocol` relate the flags to the announcements: whoever reads the pieces
  when connecting, and hears announcements from then on, misses none and hears none out of order; the
  lemma behind the second is that what is announced is complete (`AnnouncedIsComplete`). `FinishedAreWhole`: a file is renamed only when all pieces with a byte in it are
  complete, for every layout, because `verify_file` looks at those pieces itself, however it
  was led to the file. `DownloadImplementsPieceStore` is the refinement, one step per action of the
  task; the invariants it needs are that every oneshot in a request is awaited by its peer
  (`RequestsAreAwaited`), that the last announcement is made only when all pieces are complete
  (`DoneMeansAll`), and `SnapshotMatchesAnnouncements`.
- `PeerConnectionProofs`: the type invariant and every safety property of `peer_download` and
  `peer_upload`. `PipelineHolds` is inductive as it stands. `InterestHolds` and `RequestsAreFilledUp` rest on
  the shape of handlers: a handler that queues or inserts blocks ends with an update of the
  interest and a request (`Shaped`), and one that wants blocks without having said so has these two
  still to do (`Wanting`). `StoredLeave` widens "wanted" by the blocks in replies that
  are yet to be inserted (`SoughtAreTakenOut`), for a store may come between the reply and its
  insertion. `HavesAreNotLost` follows a message on its way from a handler's remaining steps through the
  channel to the socket (`OutgoingKept`). `HonestRequestsAreServed` goes the same
  way backwards (`OutgoingNew`): what the remote side has been told, is being told or hears of is complete, so
  what it asks for is (`Truthful`). `OneUploadAtATime` counts the blocks in the two channels.
- `TrackersProofs`: the type invariant; trackers are started in the order of the list; when
  all tasks have ended, no url is left without a status, unless a task panicked that owed one. The last one is a
  statement about the end of a long history, and its strengthening follows a status on
  its way: a task that has announced has left a status in the channel or in a map
  (`StatusState`); a status that says peers were found is either still true of a task,
  which then has not ended, or a later status of the same url is in the channel; and a
  supervisor that listens while urls are left knows of such a task, or has a status to
  take, or has started a task that has yet to announce (`SearchState`). As the message
  taken is the last chance to start another tracker, each step has to re-establish one of the three.

- `FileLayoutProofs`: `RangesAreExact`, that `search_ptrs` cuts a range of the torrent into parts of files so that
  each of its bytes is in one part, at its place in its file, whatever the files' lengths and empty ones
  among them included; and the lemma `TouchesFiles`, that the files `store` verifies after a piece include every file
  with a byte in the piece and every empty one inside of it. `search_index` and `search_ptrs` are recursive functions here. That such a function
  has, at every argument, the value that its equation states has to be proved by induction, and the library's theorems for it
  take operators. `Induction` therefore states induction for sets in place of predicates
  (from the library's well-foundedness of the order of the numbers), and the proof gives the approximations up to each
  argument and shows that they agree.
- `DownloadProofs` has from this `BlocksAreExact`, which is `RangesAreExact` for the ranges that events name, and `AllFilesFinish`: when everything is complete and announced, every file
  has its final name. Its hypothesis `EmptyFilesAreVisited` is a condition on the layout: a file of length 0 comes before the end of the
  torrent and, where a piece begins with it, `search_index` does not come to a file behind it. It allows empty files inside of pieces and, as far as the
  search finds them, at their borders; it is
  so of the layout of `download` and not of that of `download_empty_last`, whose run shows that the property
  needs it. The invariant (`CoveredAreFinished`) says of every moment what the property says of the last: a file whose
  pieces are all complete is renamed, because the block that completed the last of them led `verify_file` to it.
- `WireProofs`: on a connection between any two hashes, `WireTypesCorrect`, `FramesAreKept` (what is read are the messages
  written, in order, and the pieces noted are those announced) and `OpensForOneHash`. `FramesAreKept` is not
  inductive: it says nothing of the bytes under way. `WireInv` adds that these are the frames
  of the messages not yet read or, once the connection is lost, a beginning of them (`Stream`, by the sequence of what remains to be read
  after each message), that nothing is written before the handshakes have ended, so
  that no handshake is taken for a frame (`Order`), that a handshake under way is a beginning of the one sent (`Greeting`),
  and that an answer on its way comes from a side with the same hash (`Agreed`). Under it are the lemmas on
  encodings: four bytes give back the number they were cut from (for every natural number, as the model leaves the
  highest byte whole, which for a u32 is a byte); a frame has the length that it begins with; every message parses to `ReadAs` of
  itself; and `BitfieldIsKept`, that the masks by which a Bitfield is written and read give back the set of pieces, for every number of
  pieces, the multiples of 8 included.

- `SessionProofs`: for files of any tokens whatever, any answers and any number of words, the type invariant, `WrittenIsReadBack`, `EachUrlIsTaken`,
  `PeersInEitherForm` and `FramesAreReadAsWritten`, and that a connection opens only between equal hashes. The invariant, `SessionInv`, has of the
  parsed torrent that it is of its type, of the trackers that they are those of the torrent, of the connection that it has not
  begun or is in `WireInv` with the two hashes; what the steps need of the formats are theorems of their own:
  - `ValueIsReadBack`: from_value undoes into_value, field by field; for numbers because the sign that `as i64` gives is
    taken off again modulo `2^Width`, for any width.
  - `ParseType`: what parse accepts has the fields of its type. A conversion alone does not say so: it takes a list of whatever
    values the decoder returned. So the decoder's results are typed first, and to be typed they have to exist: a recursive function
    has the value of its equation only where each call is of a later position. `ReadValue` asks the decoder for later positions
    only, as every reader that succeeds has consumed a token, and functions that agree from there on are read alike (the lemmas on
    locality); from this the decoder is built position by position from the end of the stream backwards, as the functions of `FileLayoutProofs` are from 0 upwards.
  - `BytesAreReadBack`: a value that is encoded in the midst of any stream is decoded there, up to its end. This is shown
    for one level given that it holds for the values inside, and used six times, so that the nesting of values is no
    induction; over the items of a list and the entries of a dict there is one. Its hypothesis, that the
    hashes are not a text, is the code's: they are Bytes when written and String when read otherwise.
  - `AnswerIsParsed`: the same for an answer, and from it which answers `TrackerResponse::parse` takes: those that name peers by an ip and a
    port, or in whole chunks that are no text, and have an integer for the interval and both counts. A ragged compact form is a
    panic whatever else the answer has, because the peers are read first; every other answer is refused.
  - `UrlsAreTaken`: each url is taken as often as it is listed, by counting the places in the sequence of all tiers
    against the pairs of a tier and a place in it, one tier after the other.

Only model-checked: liveness, with the fairness in `ImplementsPieceStore` and `PeerOfTheTorrentConnects`, as ENABLED is beyond
the provers; and `HashIsOfTheFile` and `ReadersAgree`. Both compare what is parsed with the fields a file was put together from, where
the tokens of a field are arbitrary: they may close the dict they stand in, or hold the next key. For every file they say
something about how a stream falls apart into items, which a proof would have to show unique at any depth. TLC checks them on files whose fields
are items. What follows from the other theorems without them is that the connection opens for equal hashes only (`SessionOpensForOneHash`);
that the hashes are equal exactly for a plain info is `HashIsOfTheFile`.

## Not modelled

- In the formats: the characters of tokens (digits, lengths, the hexadecimal form of hashes), `read_last_field`,
  which nothing calls, and the sums and fields that `length`, `pieces`, `num_pieces` and `piece_length`
  return, which are constants of `FileLayout`.
- `announce_loop` and `announce_list_loop` of the supervisor, which nothing calls.
- The terminal and the binaries, but for the order in which `main` reads the file and starts the tasks.
- The UDP tracker, which is commented out but for its constructor and not reachable: `try_announce`
  answers with `UnsupportedScheme`.
- `FileFinish` and `RequirePieceLength` in the manager, whose effects nobody reads.
- A first file of length 0: the slice that `download.rs:161` takes is then out of range and the panic
  ends the task. It is in `StopsAt`; no run has such a layout, for nothing in the code promises to survive it.
- Panics on indices out of range in messages of the remote side: in `Manager` they are
  `ConnectionPanics`, in `Download` `StorePanics` and `RequireDataFails`, in `PeerConnection` they are not there.
- Errors of logging (`print_log(..)?`), which occur only when the print thread has died.

## Plan

What would add most from here:

1. `Client`: `Manager`, `PieceStore` and connections composed, on an instance of two connections and two
   pieces, for what no part shows alone: is a piece requested again after a failed verification, do
   requests resume after Choke or a Cancel by broadcast, does a download complete. The answers of the parts
   (`PipelineIsFilled`, `IncompletePieceIsRetriable`, the hazards without a property) say that
   it does only if the remote side keeps sending Have or blocks. `PieceStore` can stand for the
   download task there, and `StoredLeave` and `NothingIsMissed` for the two ends of a broadcast.
2. `HashIsOfTheFile` as a theorem for files whose fields are single items, `Encode(v)` of some value of the six levels: decoding a
   file is then `EncodedIsDecoded` for each of its fields, repeated and unordered keys included, and what is left is that two
   sequences of fields with equal encodings are equal.
