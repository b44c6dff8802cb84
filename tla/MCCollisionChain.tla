-------------------------- MODULE MCCollisionChain --------------------------
(***************************************************************************)
(* CollisionChain with the motions of Kinematics, for two UAVs whose       *)
(* encounters reach every mutation case.  UAV 1 flies east; UAV 2 crosses  *)
(* its path (slowing down is enough), meets it head-on (it has to turn),   *)
(* hovers next to it (it has to climb), or hovers just below, where the    *)
(* climb ends too close above and nothing helps.                           *)
(***************************************************************************)
EXTENDS CollisionChain, TLC

Motion == INSTANCE Kinematics
    WITH NumSteps <- 10, HSep <- 40, VSep <- 30, Over <- 1

Start(x, y, alt, speed, dir) ==
    [x |-> x, y |-> y, alt |-> alt, speed |-> speed, dir |-> dir, vs |-> 0]

East == Start(0, 0, 100, 64, 1)
Crossing == Start(320, -320, 100, 64, 0)
HeadOn == Start(640, 0, 100, 64, 3)
Beside == Start(10, 0, 100, 64, 1)
Below == Start(10, 0, 80, 64, 1)
Aside == Start(0, 10, 100, 64, 1)

MCReportKin(u) == IF u = 1 THEN {East} ELSE {Crossing, HeadOn, Beside, Below}

\* Every speed, heading and altitude that MaxReports chains can lead to.
MCKin ==
    {[s EXCEPT !.speed = v, !.dir = d, !.alt = s.alt + 31 * c] :
        s \in {East, Crossing, HeadOn, Beside, Below, Aside}, v \in {64, 48, 36, 27},
        d \in 0 .. 3, c \in 0 .. MaxReports}

\* Outside MCKin (never reached with MaxReports chains) a mutation is a no-op.
MCSlowDown(k) == IF Motion!Slower(k) \in MCKin THEN Motion!Slower(k) ELSE k
MCTurn(k) == Motion!Turned(k)
MCClimb(k) == IF Motion!Climbed(k) \in MCKin THEN Motion!Climbed(k) ELSE k
\* check_for_conflict, tabulated once for the motions of the model.
Conflicting == {p \in MCKin \X MCKin : Motion!CheckForConflict(p[1], p[2])}
MCConflict(k, l) == <<k, l>> \in Conflicting

\* Three UAVs that report one after the other: UAV 2 and 3 can each be resolved
\* against UAV 1 only by climbing, or UAV 3 meets it head-on.
SuccessiveReportKin(u) ==
    CASE u = 1 -> {East} [] u = 2 -> {Beside} [] u = 3 -> {Aside, HeadOn}

=============================================================================
