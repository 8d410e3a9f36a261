----------------------------- MODULE MCMixEngine -----------------------------
(* Values of the constants of MixEngine for TLC.                            *)
EXTENDS MixEngine

MCCameras == <<"A", "B">>
MCPanCost(c, a, b) == IF a < b THEN b - a ELSE a - b

Cue(s)     == [shot |-> s, enabled |-> TRUE, pin |-> None]
Off(s)     == [shot |-> s, enabled |-> FALSE, pin |-> None]

(* An odd list, a shorter one with a disabled cue, and a single cue that is *)
(* pinned, in a mode each.                                                  *)
Three == <<Cue(1), Cue(2), Cue(3)>>
Two   == <<Off(1), Cue(2), Cue(1)>>
One   == <<[Cue(1) EXCEPT !.pin = "B"]>>
MCEdits == {[cues |-> Three, mode |-> "ping_pong"], [cues |-> Two, mode |-> "forward"],
            [cues |-> One, mode |-> "once"]}
=============================================================================
