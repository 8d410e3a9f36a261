----------------------------- MODULE MCMixSolver -----------------------------
(***************************************************************************)
(* Values of the constants of SolverPromise for TLC: every list of cues up   *)
(* to a length.                                                              *)
(***************************************************************************)
EXTENDS SolverPromise

CONSTANTS
  Gone,         \* a camera that is not connected
  MaxFree,      \* length of the lists without pins
  MaxPinned     \* length of the lists with pins

(* Angles of the shots, as in the solver's own test, where 3 and 4 are     *)
(* close; the first camera sees 1 and 2 further apart.  No pose is known of *)
(* a cue that holds its framing.                                            *)
Angle == <<90, 180, 270, 275>>
Abs(x) == IF x < 0 THEN -x ELSE x
MCPanCost(c, a, b) ==
  IF {a, b} \subseteq DOMAIN Angle
  THEN Abs(Angle[a] - Angle[b]) + (IF c = Cameras[1] /\ {a, b} = {1, 2} THEN 10 ELSE 0)
  ELSE 1000000
MCCameras == <<"A", "B", "C">>

FreeCues   == [shot : {1, 2, 4, Hold}, enabled : {TRUE}, pin : {None}]
PinnedCues == [shot : {1}, enabled : {TRUE}, pin : {None, Gone, Cameras[1], Cameras[2]}]
                \cup [shot : {1}, enabled : {FALSE}, pin : {Cameras[1]}]

UpTo(S, n) == UNION {[1..k -> S] : k \in 0..n}

MCLists == UpTo(FreeCues, MaxFree) \cup UpTo(PinnedCues, MaxPinned)

=============================================================================
