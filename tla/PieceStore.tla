----------------------------- MODULE PieceStore -----------------------------
(***************************************************************************)
(* What the download task promises to the rest of the program, without      *)
(* blocks, files, channels or errors: pieces become complete once and for   *)
(* all and are announced with it, the download after its last piece, and    *)
(* whoever asks is answered, until a crash that cancels all that wait.      *)
(***************************************************************************)
CONSTANTS Pieces, Peers

VARIABLES
  running,       \* requests are answered
  complete,      \* the complete pieces
  announced,     \* the pieces announced as complete
  allAnnounced,  \* the download is announced as complete
  reply          \* per peer: "none", "waiting", "answered" or "cancelled"

vars == <<running, complete, announced, allAnnounced, reply>>

Init ==
  /\ running = TRUE
  /\ complete = {}
  /\ announced = {}
  /\ allAnnounced = FALSE
  /\ reply = [q \in Peers |-> "none"]

Complete(p) ==
  /\ running
  /\ p \notin complete
  /\ complete' = complete \cup {p}
  /\ announced' = announced \cup {p}
  /\ allAnnounced' = (complete' = Pieces)
  /\ UNCHANGED <<running, reply>>

Change(q, from, to) ==
  /\ reply[q] = from
  /\ reply' = [reply EXCEPT ![q] = to]
  /\ UNCHANGED <<running, complete, announced, allAnnounced>>

Ask(q) == running /\ Change(q, "none", "waiting")
Answer(q) == running /\ Change(q, "waiting", "answered")
Collect(q) == Change(q, "answered", "none")

(* The piece that was being completed may be complete and not announced.    *)
Crash ==
  /\ running
  /\ running' = FALSE
  /\ complete' \in {complete} \cup {complete \cup {p} : p \in Pieces}
  /\ reply' = [q \in Peers |-> IF reply[q] = "waiting" THEN "cancelled" ELSE reply[q]]
  /\ UNCHANGED <<announced, allAnnounced>>

Next ==
  \/ \E p \in Pieces : Complete(p)
  \/ \E q \in Peers : Ask(q) \/ Answer(q) \/ Collect(q)
  \/ Crash

Spec == Init /\ [][Next]_vars

FairSpec == Spec /\ \A q \in Peers : WF_vars(Answer(q) \/ (reply[q] = "waiting" /\ Crash))
=============================================================================
