----------------------------- MODULE MCManager ------------------------------
(***************************************************************************)
(* Values with which TLC checks Manager.                                    *)
(***************************************************************************)
EXTENDS Manager, TLC

CONSTANTS p1, p2

(* Every report is possible, so that the peers are interchangeable.         *)
OneByOne == {<<p>> : p \in Peers}
TwoByTwo == {<<p, q>> : p, q \in Peers} \ {<<p, p>> : p \in Peers}
Symmetry == Permutations(Peers)

(* Reports of one and of two peers, so that forwarding tasks interleave.    *)
InTurn == {<<p1, p2>>, <<p1>>}
=============================================================================
