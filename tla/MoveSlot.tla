------------------------------ MODULE MoveSlot ------------------------------
(***************************************************************************)
(* What the motion planner of a device session promises its callers        *)
(* (docs/SLOW_MOTION_DESIGN.md, "At most one target at a time; new starts   *)
(* cancel any in-flight one"), with no threads, locks or condition          *)
(* variables: one slot for the requested move, one move being driven, and   *)
(* a quota that says how many SDK commands the driven move may still send.  *)
(* MotionPlanner is shown to implement it.                                  *)
(***************************************************************************)
EXTENDS Naturals

CONSTANT MaxMoves      \* bound on the number of moves ever requested

Moves  == 1..MaxMoves  \* moves are numbered in the order they are requested
NoMove == 0

(* How many commands the driven move may still send.  A preempted move has  *)
(* at most the gimbal and the zoom command of the waypoint whose cancel     *)
(* check it had already passed.                                             *)
Unlimited == 3

VARIABLES
  requested,   \* the move waiting to be driven, or NoMove
  driving,     \* the move being driven, or NoMove
  quota,       \* what the driven move may still send
  aim          \* the move whose command the motors received last, or NoMove

slotVars == <<requested, driving, quota, aim>>

Init ==
  /\ requested = NoMove
  /\ driving = NoMove
  /\ quota = Unlimited
  /\ aim = NoMove

Preempted == IF driving # NoMove /\ quota = Unlimited THEN 2 ELSE quota

(* A caller asks for a move: it replaces the requested one and preempts the *)
(* driven one.                                                              *)
Request(m) ==
  /\ m > requested /\ m > driving
  /\ requested' = m
  /\ quota' = Preempted
  /\ UNCHANGED <<driving, aim>>

(* A caller cancels: only the driven move is affected.                      *)
Cancel ==
  /\ quota' = Preempted
  /\ UNCHANGED <<requested, driving, aim>>

Take ==
  /\ requested # NoMove
  /\ driving = NoMove
  /\ driving' = requested
  /\ requested' = NoMove
  /\ quota' = Unlimited
  /\ UNCHANGED aim

Command ==
  /\ driving # NoMove
  /\ quota # 0
  /\ aim' = driving
  /\ quota' = IF quota = Unlimited THEN quota ELSE quota - 1
  /\ UNCHANGED <<requested, driving>>

Finish ==
  /\ driving # NoMove
  /\ driving' = NoMove
  /\ quota' = Unlimited
  /\ UNCHANGED <<requested, aim>>

Next ==
  \/ \E m \in Moves : Request(m)
  \/ Cancel \/ Take \/ Command \/ Finish

Spec == Init /\ [][Next]_slotVars

=============================================================================
