---------------------------- MODULE SolverPromise ----------------------------
(***************************************************************************)
(* What solve promises of the plan it makes of a list of cues: a run solves  *)
(* one list, any of Lists, for the first of the cameras.                     *)
(***************************************************************************)
EXTENDS MixSolver, FiniteSets, FiniteSetsExt

CONSTANTS
  Cameras,      \* all cameras, a sequence in serial order
  Lists         \* the lists of cues

VARIABLES
  list, cams, is_cycle,   \* authored, cams and is_cycle of mix::solve
  solved                  \* what it returns

solverVars == <<list, cams, is_cycle, solved>>

NotSolved == [cues |-> <<>>]

(* Cameras differ; a pan has a cost, whatever the camera and the shots.     *)
ASSUME SolverAssumption ==
  /\ Len(Cameras) \in Nat
  /\ \A k, l \in 1..Len(Cameras) : Cameras[k] = Cameras[l] => k = l
  /\ None \notin {Cameras[k] : k \in 1..Len(Cameras)}
  /\ \A cues \in Lists :
       /\ Len(cues) \in Nat
       /\ \A i, j \in 1..Len(cues), k \in 1..Len(Cameras) :
            PanCost(Cameras[k], cues[i].shot, cues[j].shot) \in Nat

SolverInit ==
  /\ list \in Lists
  /\ \E k \in 0..Len(Cameras) : cams = [l \in 1..k |-> Cameras[l]]
  /\ is_cycle \in BOOLEAN
  /\ solved = NotSolved

SolverNext ==
  /\ solved = NotSolved
  /\ solved' = solve(list, cams, is_cycle)
  /\ UNCHANGED <<list, cams, is_cycle>>

SolverSpec == SolverInit /\ [][SolverNext]_solverVars

-----------------------------------------------------------------------------
Solved  == solved # NotSolved
Here    == {cams[k] : k \in 1..Len(cams)}
N       == Len(solved.cues)
Chosen  == [i \in 1..N |-> solved.cues[i].camera]
Authored(i) == list[solved.cues[i].cue_index]
Pinned(i)   == Authored(i).pin \in Here

(* The transitions of the run, and those that a choice of cameras, one per  *)
(* cue, shows on air.                                                       *)
Edges      == {e \in (1..N) \X (1..N) : N > 1 /\ e[1] = prev_of(e[2], N, is_cycle)}
Visible(f) == {e \in Edges : f[e[1]] = f[e[2]]}
Pan(f)     == MapThenSumSet(LAMBDA e : PanCost(f[e[1]], solved.cues[e[1]].shot, solved.cues[e[2]].shot),
                            Visible(f))

(* A plan has the enabled cues in order, on cameras that are there.         *)
PlanOfCues ==
  Solved =>
    /\ N = IF Here = {} THEN 0 ELSE Cardinality({i \in 1..Len(list) : list[i].enabled})
    /\ \A i \in 1..N : Chosen[i] \in Here /\ Authored(i).enabled
    /\ \A i, j \in 1..N : i < j => solved.cues[i].cue_index < solved.cues[j].cue_index

(* Without pins no choice of cameras shows fewer moves on air, and none     *)
(* that shows as few shows a shorter pan: paths, even rings and rings of    *)
(* three cameras are clean, an odd ring of two is cut at the cheapest edge. *)
LeastVisible ==
  (Solved /\ \A i \in 1..N : ~Pinned(i)) =>
    \A f \in [1..N -> Here] :
      LET mine == Cardinality(Visible(Chosen))
      IN  mine < Cardinality(Visible(f))
            \/ (mine = Cardinality(Visible(f)) /\ Pan(Chosen) <= Pan(f))

(* A move on air that the operator did not ask for, by pinning both of its  *)
(* cues, is announced; and what is announced happens.                       *)
MovesAnnounced ==
  Solved =>
    LET Says(about, i) == [about |-> about, cue |-> solved.cues[i].cue_index] \in solved.warnings
        One == [about |-> "one camera", cue |-> 0] \in solved.warnings
    IN  /\ \A e \in Visible(Chosen) :
             \/ One \/ Says("forced", e[2]) \/ Says("boxed", e[1])
             \/ Pinned(e[1]) /\ Pinned(e[2])
        /\ \A e \in Edges : Says("forced", e[2]) \/ Says("boxed", e[1]) => e \in Visible(Chosen)
        /\ One => Visible(Chosen) = Edges

(* Pins of cameras that are there are kept, and the solver's own on_air_move *)
(* marks exactly the visible transitions.                                    *)
PinsKept ==
  Solved =>
    /\ \A i \in 1..N : Pinned(i) => Chosen[i] = Authored(i).pin
    /\ {i \in 1..N : solved.cues[i].on_air_move} = {e[2] : e \in Visible(Chosen)}

(* What the plan shows the operator as the meanwhile of a cue is what the   *)
(* engine, which computes it anew, does in a forward or a once run.         *)
ShownIsRun ==
  Solved =>
    \A i \in 1..N :
      solved.cues[i].meanwhile =
        meanwhile_at(solved, i, 1, IF is_cycle THEN "forward" ELSE "once")

(* The plan is what it says: it is of the enabled cues and the cameras that *)
(* are there, pins hold, every move on air that the operator did not pin is *)
(* announced, and the meanwhile shown is the one run.                       *)
PlanHonest == PlanOfCues /\ MovesAnnounced /\ PinsKept /\ ShownIsRun

(* docs/PROTOCOL.md, Solver semantics: a cue is boxed in by pins "so that   *)
(* no clean camera exists".  It is reported so only if no choice of cameras *)
(* that keeps the pins is clean.                                            *)
BoxedOnlyIfForced ==
  (Solved /\ \E w \in solved.warnings : w.about = "boxed") =>
    \A f \in [1..N -> Here] :
      (\A i \in 1..N : Pinned(i) => f[i] = Authored(i).pin) => Visible(f) # {}

=============================================================================
