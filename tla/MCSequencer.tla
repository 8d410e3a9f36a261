----------------------------- MODULE MCSequencer -----------------------------
(* Values of the constants of Sequencer for TLC.                            *)
EXTENDS Sequencer

(* A list of one and one of three steps, so that an edit of a running        *)
(* sequence can shorten or lengthen it, and ping_pong has a middle.         *)
Short == [list |-> <<"slow">>, mode |-> "once"]
Long  == [list |-> <<"slow", "instant", "slow">>, mode |-> "ping_pong"]
MCEdits == {Short, Long}
MCSaved == {Short, Long}

(* An edit that clears the list and one that fills it again.                *)
MCClearing == {[list |-> <<>>, mode |-> "once"], [list |-> <<"instant">>, mode |-> "once"]}

MCNone == {}
=============================================================================
