------------------------------- MODULE Spiral -------------------------------
(***************************************************************************)
(* What the navigation loop of main_algo.ino promises, without sensors,    *)
(* motors or program points: the rover goes round and round, one quarter   *)
(* turn to the right after each leg, counts the legs of each heading, and  *)
(* after a leg stands on the corner marked x in the diagrams of the map    *)
(* that main_algo.ino draws beside its four branches.  A restart of the    *)
(* processor puts everything back to the start.                            *)
(***************************************************************************)
EXTENDS Integers

VARIABLES
    heading, \* the heading of the leg being driven
    laps,    \* the legs completed so far, for each heading
    corner   \* row and column of the last corner

spiralVars == <<heading, laps, corner>>

UP == 0
RIGHT == 1
DOWN == 2
LEFT == 3
Orientation == {UP, RIGHT, DOWN, LEFT}

Clockwise(h) == (h + 1) % 4

(* The corner reached by the leg with heading h when n of them are done:   *)
(* "5,0" and then x at [4][1] for LEFT, x at [1][1], [1][4] and [3][4] for *)
(* the others in their second lap, each lap one tile further inside.       *)
CornerAfter(h, n) ==
    CASE h = LEFT  -> <<5 - n, n>>
      [] h = UP    -> <<n, n>>
      [] h = RIGHT -> <<n, 5 - n>>
      [] h = DOWN  -> <<4 - n, 5 - n>>

SpiralInit ==
    /\ heading = LEFT
    /\ laps = [h \in Orientation |-> 0]
    /\ corner = <<5, 4>>

Turn ==
    /\ heading' = Clockwise(heading)
    /\ laps' = [laps EXCEPT ![heading] = @ + 1]
    /\ corner' = CornerAfter(heading, laps[heading])

Restart == heading' = LEFT /\ laps' = [h \in Orientation |-> 0] /\ corner' = <<5, 4>>

SpiralNext == Turn \/ Restart

SpiralSpec == SpiralInit /\ [][SpiralNext]_spiralVars
=============================================================================
