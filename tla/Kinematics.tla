----------------------------- MODULE Kinematics -----------------------------
(***************************************************************************)
(* The motion arithmetic of collision-detector and mutate on an integer    *)
(* grid: a motion is [x, y, alt, speed, dir, vs] with four compass         *)
(* headings, distances are Euclidean on the grid where the code has        *)
(* haversine on degrees, and a change of direction is one heading to       *)
(* either side.                                                            *)
(***************************************************************************)
EXTENDS Integers

CONSTANTS
    NumSteps,   \* NUM_STEPS: the positions predicted, one per TIME_INTERVAL
    HSep,       \* HORIZONTAL_SEPARATION
    VSep,       \* VERTICAL_SEPARATION
    Over        \* what the climb adds to VERTICAL_SEPARATION

\* 0 north, 1 east, 2 south, 3 west.
Heading == 0 .. 3
Dx == [d \in Heading |-> CASE d = 1 -> 1 [] d = 3 -> -1 [] OTHER -> 0]
Dy == [d \in Heading |-> CASE d = 0 -> 1 [] d = 2 -> -1 [] OTHER -> 0]

\* The first predicted position is the current one (future_time = 0).
PredictFuturePositions(k) ==
    [step \in 0 .. NumSteps - 1 |->
        [x   |-> k.x + k.speed * step * Dx[k.dir],
         y   |-> k.y + k.speed * step * Dy[k.dir],
         alt |-> k.alt + k.vs * step]]

Gap(a, b) == IF a < b THEN b - a ELSE a - b

\* Both separations are strict.
TooClose(p, q) ==
    /\ (p.x - q.x) * (p.x - q.x) + (p.y - q.y) * (p.y - q.y) < HSep * HSep
    /\ Gap(p.alt, q.alt) < VSep

\* The same step of both predictions: the paths may cross at different times.
CheckForConflict(k, l) ==
    \E step \in 0 .. NumSteps - 1 :
        TooClose(PredictFuturePositions(k)[step], PredictFuturePositions(l)[step])

\* speed * 0.75, rounded down to the grid.
Slower(k) == [k EXCEPT !.speed = (3 * @) \div 4]

\* A change of direction to the left or to the right, modulo 360 degrees.
Turned(k) == {[k EXCEPT !.dir = (@ + 3) % 4], [k EXCEPT !.dir = (@ + 1) % 4]}

\* Above any aircraft at the old altitude.
Climbed(k) == [k EXCEPT !.alt = @ + VSep + Over]

=============================================================================
