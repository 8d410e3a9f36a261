----------------------------- MODULE MCSupervisor -----------------------------
(* The supervisor for TLC.                                                  *)
EXTENDS Supervisor

(* A bound: what happens after a stop met a start under way is followed     *)
(* only if the app quits.                                                   *)
Quitting == \E t \in Calls : task[t].at = "quit" \/ task[t].then = "quit"
Followed == overtaken => Quitting
=============================================================================
