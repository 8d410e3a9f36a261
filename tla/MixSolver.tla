------------------------------ MODULE MixSolver ------------------------------
(***************************************************************************)
(* The camera assignment of a mix: mix_solver.cpp, and meanwhile_at of the   *)
(* engine.  The operator authors shots; solve gives each enabled cue a       *)
(* camera so that, where possible, no two consecutive cues use the same one: *)
(* a camera that stays live has to pan on air.                               *)
(*                                                                          *)
(* A cue is [shot, enabled, pin], pin = None if the camera is to be derived; *)
(* shot Hold keeps the framing.  A list of cameras is in serial order.       *)
(* Abstracted: hold, fade and pan durations (an on-air pan has no fade and a *)
(* duration; nothing here depends on them); texts of warnings.               *)
(***************************************************************************)
EXTENDS Integers, Sequences

CONSTANTS
  None,
  PanCost(_, _, _)   \* degrees camera c pans from one shot to another

Hold == -1

(* The members of S among 1..n, in order.                                   *)
InOrder(S, n) ==
  LET upto[k \in 0..n] ==
        IF k = 0 THEN <<>> ELSE IF k \in S THEN Append(upto[k - 1], k) ELSE upto[k - 1]
  IN  upto[n]

(* The cues that take part, as indices of the authored list.                *)
Live(cues) == InOrder({i \in 1..Len(cues) : cues[i].enabled}, Len(cues))

(* The neighbours of i among n cues, 0 at the ends of a path.               *)
prev_of(i, n, is_cycle) == IF i > 1 THEN i - 1 ELSE IF is_cycle THEN n ELSE 0
next_of(i, n, is_cycle) == IF i < n THEN i + 1 ELSE IF is_cycle THEN 1 ELSE 0

(* The colour, an index into cams, that each pin fixes; 0 where the camera  *)
(* is to be derived or is not there.                                        *)
Pins(cues, live, cams) ==
  [i \in 1..Len(live) |->
     LET at == {k \in 1..Len(cams) : cams[k] = cues[live[i]].pin}
     IN  IF at = {} THEN 0 ELSE CHOOSE k \in at : TRUE]

-----------------------------------------------------------------------------
(* No pins: alternate.  An odd ring takes the third camera once; with two   *)
(* cameras it is cut where the pan is shortest, the first such cut.         *)

Alternate(i) == 1 + ((i - 1) % 2)

(* A fault: the cut is made at the dearest pan.                             *)
DearestCut(shots, cams) ==
  LET n == Len(shots)
      Cost(c) == PanCost(cams[c[2]], shots[c[1]], shots[next_of(c[1], n, TRUE)])
  IN  CHOOSE c \in (1..n) \X {1, 2} : \A d \in (1..n) \X {1, 2} : Cost(c) >= Cost(d)

(* Where the ring is cut, and the colour of both ends of the cut.           *)
BestCut(shots, cams) ==
  LET n == Len(shots)
      Cuts == (1..n) \X {1, 2}
      Cost(c) == PanCost(cams[c[2]], shots[c[1]], shots[next_of(c[1], n, TRUE)])
      First(c, d) == c[1] < d[1] \/ (c[1] = d[1] /\ c[2] <= d[2])
  IN  CHOOSE c \in Cuts : \A d \in Cuts :
        Cost(c) < Cost(d) \/ (Cost(c) = Cost(d) /\ First(c, d))

Unpinned(shots, cams, is_cycle) ==
  LET n   == Len(shots)
      odd == is_cycle /\ n > 1 /\ n % 2 = 1
      cut == BestCut(shots, cams)
  IN  [i \in 1..n |->
         IF odd /\ Len(cams) = 2 THEN 1 + ((cut[2] - 1 + ((i - cut[1] - 1) % n)) % 2)
         ELSE IF odd /\ i = n THEN 3
         ELSE Alternate(i)]

-----------------------------------------------------------------------------
(* Pins: kept, and the gaps filled from the left.                           *)

(* The colours next to cue i when it is reached: what is left of it has     *)
(* one, what is right of it only if it is pinned.                           *)
Around(i, colour, pins, is_cycle) ==
  LET n == Len(pins)
  IN  {IF i > 1 THEN colour[i - 1] ELSE IF is_cycle THEN pins[n] ELSE 0,
       IF i < n THEN pins[i + 1] ELSE IF is_cycle THEN colour[1] ELSE 0}

Before(i, colour, pins, is_cycle) ==
  IF i > 1 THEN colour[i - 1] ELSE IF is_cycle THEN pins[Len(pins)] ELSE 0

(* Cue i, with colour as it is when the cue is reached.                     *)
Fill(i, colour, pins, K, is_cycle) ==
  LET free == (1..K) \ Around(i, colour, pins, is_cycle)
  IN  IF pins[i] # 0 THEN pins[i]
      ELSE IF free # {} THEN CHOOSE k \in free : \A l \in free : k <= l
      ELSE IF Before(i, colour, pins, is_cycle) = 1 THEN 2 ELSE 1

Filled(pins, K, is_cycle) ==
  LET colour[i \in 1..Len(pins)] == Fill(i, colour, pins, K, is_cycle)
  IN  colour

(* The gaps that had no colour left.                                        *)
Boxed(colour, pins, K, is_cycle) ==
  {i \in 1..Len(pins) : pins[i] = 0 /\ (1..K) \subseteq Around(i, colour, pins, is_cycle)}

-----------------------------------------------------------------------------
Colours(cues, live, cams, is_cycle) ==
  LET pins == Pins(cues, live, cams)
  IN  IF Len(cams) = 1 THEN [i \in 1..Len(live) |-> 1]
      ELSE IF \A i \in 1..Len(live) : pins[i] = 0
      THEN Unpinned([i \in 1..Len(live) |-> cues[live[i]].shot], cams, is_cycle)
      ELSE Filled(pins, Len(cams), is_cycle)

(* While cue i is live: each idle camera and the shot it is live on next.   *)
Meanwhile(i, colour, shots, cams, is_cycle) ==
  LET n        == Len(shots)
      After(s) == IF is_cycle THEN ((i + s - 1) % n) + 1 ELSE i + s
      Within   == {s \in 0..(n - 1) : After(s) <= n}
      First    == {s \in Within : \A r \in 0..(s - 1) : colour[After(r)] # colour[After(s)]}
  IN  {[camera |-> cams[colour[After(s)]], shot |-> shots[After(s)]] : s \in First \ {0}}

NoPlan(warnings) == [cues |-> <<>>, forced_move_at |-> 0, forced_reason |-> FALSE,
                     warnings |-> warnings]

(* A fault: nothing is said of a cue that pins have boxed in.               *)
SaysNothingOfBoxes(colour, pins, K, is_cycle) == {}

(* A visible move is announced: what was boxed in, where a ring was cut,    *)
(* that there is one camera.                                                *)
BoxWarnings(colour, pins, K, is_cycle) ==
  IF K = 1 \/ \A i \in 1..Len(pins) : pins[i] = 0 THEN {}
  ELSE Boxed(colour, pins, K, is_cycle)

solve(cues, cams, is_cycle) ==
  LET live   == Live(cues)
      n      == Len(live)
      K      == Len(cams)
      pins   == Pins(cues, live, cams)
      shots  == [i \in 1..n |-> cues[live[i]].shot]
      colour == Colours(cues, live, cams, is_cycle)
      OnAir(i) == LET p == prev_of(i, n, is_cycle)
                  IN  n > 1 /\ p # 0 /\ colour[p] = colour[i]
      moves  == {i \in 1..n : OnAir(i)}
      forced == IF moves = {} THEN 0 ELSE CHOOSE i \in moves : \A j \in moves : i <= j
      reason == /\ forced # 0 /\ K = 2 /\ is_cycle /\ n % 2 = 1
                /\ \A i \in 1..n : pins[i] = 0
  IN  IF n = 0 THEN NoPlan({})
      ELSE IF K = 0 THEN NoPlan({[about |-> "no camera", cue |-> 0]})
      ELSE [cues |-> [i \in 1..n |->
                        [cue_index |-> live[i], camera |-> cams[colour[i]], shot |-> shots[i],
                         on_air_move |-> OnAir(i),
                         meanwhile |-> Meanwhile(i, colour, shots, cams, is_cycle)]],
            forced_move_at |-> forced,
            forced_reason |-> reason,
            warnings |->
              (IF K = 1 /\ n > 1 THEN {[about |-> "one camera", cue |-> 0]} ELSE {})
              \cup {[about |-> "boxed", cue |-> live[i]] : i \in BoxWarnings(colour, pins, K, is_cycle)}
              \cup (IF reason THEN {[about |-> "forced", cue |-> live[forced]]} ELSE {})]

-----------------------------------------------------------------------------
(* meanwhile_at: the run order of a mode, from cue i in direction dir.      *)

(* The cue after cur, <<0, d>> if there is none.                            *)
Turned(cur, d, n, mode) ==
  IF mode = "forward" THEN <<(cur % n) + 1, d>>
  ELSE IF mode = "once" THEN <<IF cur < n THEN cur + 1 ELSE 0, d>>
  ELSE IF cur + d > n THEN <<cur - 1, -1>>
  ELSE IF cur + d < 1 THEN <<cur + 1, 1>>
  ELSE <<cur + d, d>>

(* The cues from i on, as far as two rounds go: each with the direction it  *)
(* is left in.                                                              *)
RunFrom(i, dir, n, mode) ==
  LET walk[k \in 0..(2 * n)] ==
        IF k = 0 THEN <<i, dir>>
        ELSE IF walk[k - 1][1] = 0 THEN <<0, dir>>
        ELSE Turned(walk[k - 1][1], walk[k - 1][2], n, mode)
  IN  walk

(* A fault: the direction of travel is forgotten.                           *)
meanwhile_forward(plan, i, dir, mode) ==
  IF i \in DOMAIN plan.cues THEN plan.cues[i].meanwhile ELSE {}

(* Every idle camera of the plan with the shot it is live on next, before   *)
(* cue i comes round again.                                                 *)
meanwhile_at(plan, i, dir, mode) ==
  LET n        == Len(plan.cues)
      walk     == RunFrom(i, dir, n, mode)
      Going(k) == \A j \in 1..k : walk[j][1] \notin {0, i}
      Cue(k)   == plan.cues[walk[k][1]]
      Reached  == {k \in 1..(2 * n) : Going(k)}
      First    == {k \in Reached : \A j \in 1..(k - 1) : Cue(j).camera # Cue(k).camera}
  IN  IF n <= 1 \/ i \notin 1..n THEN {}
      ELSE {[camera |-> Cue(k).camera, shot |-> Cue(k).shot] :
              k \in {k \in First : Cue(k).camera # plan.cues[i].camera}}

=============================================================================
