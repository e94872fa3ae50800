----------------------------- MODULE MCTrackers -----------------------------
(***************************************************************************)
(* Values with which TLC checks Trackers.                                   *)
(***************************************************************************)
EXTENDS Trackers

CONSTANTS a, b, c

Three == <<a, b, c>>

(* The first tracker has peers until it fails for good, the second one too  *)
(* few of them or none for a while, the third one only fails; each of them  *)
(* may be silent first.                                                     *)
SomeAnswers ==
  {<<a, "many">>, <<a, "error">>, <<b, "few">>, <<b, "unresolved">>, <<c, "error">>}
=============================================================================
