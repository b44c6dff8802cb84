------------------------------ MODULE Detection ------------------------------
(***************************************************************************)
(* What the pair scan of collision_detector.py computes, in closed form.   *)
(* A scan is described by its hits: the pairs <<a, b>> of positions, a < b, *)
(* whose aircraft are in conflict.  The inner loop breaks at the first     *)
(* partner it finds for an aircraft, so of the pairs that share their      *)
(* first member only the one with the nearest second member is marked.     *)
(* Module DetectLoop shows that the loop computes exactly this; module     *)
(* CollisionChain uses it as the detector's result.                        *)
(***************************************************************************)
EXTENDS Integers

\* The pairs at which the inner loop stops.
FirstHits(hits) ==
    {p \in hits : \A q \in hits : q[1] = p[1] => p[2] <= q[2]}

\* The positions whose aircraft get "collision": True.
FlaggedIn(hits) ==
    {p[1] : p \in FirstHits(hits)} \union {p[2] : p \in FirstHits(hits)}

=============================================================================
