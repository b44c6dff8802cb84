----------------------------- MODULE RequestLife -----------------------------
(***************************************************************************)
(* What the function chain promises about one reported trajectory: the     *)
(* request it starts is checked, re-planned a bounded number of times, and *)
(* then publishes at most one release, and only one that a re-plan         *)
(* preceded; or it ends without a release.  CollisionChain implements this *)
(* specification.                                                          *)
(***************************************************************************)
EXTENDS Naturals

CONSTANTS
    Request,    \* the requests
    MaxRounds   \* how often a request may be re-planned

VARIABLES
    phase,      \* [Request -> Phase]
    rounds      \* re-plans so far of a request that is being checked

lifeVars == <<phase, rounds>>

Phase == {"none", "checking", "released", "closed"}

LifeInit ==
    /\ phase = [id \in Request |-> "none"]
    /\ rounds = [id \in Request |-> 0]

Submit(id) ==
    /\ phase[id] = "none"
    /\ phase' = [phase EXCEPT ![id] = "checking"]
    /\ UNCHANGED rounds

Replan(id) ==
    /\ phase[id] = "checking"
    /\ rounds[id] < MaxRounds
    /\ rounds' = [rounds EXCEPT ![id] = @ + 1]
    /\ UNCHANGED phase

Publish(id) ==
    /\ phase[id] = "checking"
    /\ rounds[id] > 0
    /\ phase' = [phase EXCEPT ![id] = "released"]
    /\ rounds' = [rounds EXCEPT ![id] = 0]

Close(id) ==
    /\ phase[id] = "checking"
    /\ phase' = [phase EXCEPT ![id] = "closed"]
    /\ rounds' = [rounds EXCEPT ![id] = 0]

LifeNext == \E id \in Request : Submit(id) \/ Replan(id) \/ Publish(id) \/ Close(id)

LifeSpec == LifeInit /\ [][LifeNext]_lifeVars

=============================================================================
