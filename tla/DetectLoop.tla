----------------------------- MODULE DetectLoop -----------------------------
(***************************************************************************)
(* detect_collisions of collision-detector/collision_detector.py, loop     *)
(* step by loop step.  The aircraft are the positions 1 .. N of the list;  *)
(* which pairs check_for_conflict reports is an arbitrary set of pairs, so *)
(* the results hold for every traffic situation.  A trajectory may come    *)
(* from the database with "collision" already set (stale): the function    *)
(* sets the key and never clears it.                                       *)
(***************************************************************************)
EXTENDS Detection

CONSTANT N    \* length of aircraft_list

ASSUME NAssumption == N \in Nat

VARIABLES
    hits,       \* the pairs <<a, b>>, a < b, that check_for_conflict reports
    stale,      \* positions whose aircraft carry the flag when the call begins
    i,          \* position of aircraft1 in the outer loop
    j,          \* position of aircraft2 in the inner loop
    flag,       \* positions whose aircraft carry "collision": True
    collision,  \* the Boolean the function returns
    done        \* the function has returned

vars == <<hits, stale, i, j, flag, collision, done>>

Position == 1 .. N
Pairs == {p \in Position \X Position : p[1] < p[2]}

Init ==
    /\ hits \in SUBSET Pairs
    /\ stale \in SUBSET Position
    /\ i = 1
    /\ j = 1
    /\ flag = stale
    /\ collision = FALSE
    /\ done = FALSE

\* Defective variant of FlagAndBreak (see "Sensitivity" in the README): the
\* second aircraft of the pair is not flagged.
FlagFirstOnly ==
    /\ i <= N
    /\ j <= N
    /\ <<i, j>> \in hits
    /\ collision' = TRUE
    /\ flag' = flag \union {i}
    /\ i' = i + 1
    /\ j' = 1
    /\ UNCHANGED <<hits, stale, done>>

\* Defective variant of FlagAndBreak: the break leaves both loops.
BreakOuter ==
    /\ i <= N
    /\ j <= N
    /\ <<i, j>> \in hits
    /\ collision' = TRUE
    /\ flag' = flag \union {i, j}
    /\ i' = N + 1
    /\ j' = 1
    /\ UNCHANGED <<hits, stale, done>>

\* Defective variant of Pass: the inner index runs past the end of the list.
PassTooFar ==
    /\ i <= N
    /\ <<i, j>> \notin hits
    /\ j' = j + 1
    /\ UNCHANGED <<hits, stale, i, flag, collision, done>>

\* The guard "i < j" is false, or the pair is not in conflict.
Pass ==
    /\ i <= N
    /\ j <= N
    /\ <<i, j>> \notin hits
    /\ j' = j + 1
    /\ UNCHANGED <<hits, stale, i, flag, collision, done>>

\* A conflict: both aircraft are flagged in place and the inner loop is left.
FlagAndBreak ==
    /\ i <= N
    /\ j <= N
    /\ <<i, j>> \in hits
    /\ collision' = TRUE
    /\ flag' = flag \union {i, j}
    /\ i' = i + 1
    /\ j' = 1
    /\ UNCHANGED <<hits, stale, done>>

\* The inner loop is exhausted without a break.
NextAircraft ==
    /\ i <= N
    /\ j > N
    /\ i' = i + 1
    /\ j' = 1
    /\ UNCHANGED <<hits, stale, flag, collision, done>>

Return ==
    /\ i > N
    /\ ~done
    /\ done' = TRUE
    /\ UNCHANGED <<hits, stale, i, j, flag, collision>>

Next == Pass \/ FlagAndBreak \/ NextAircraft \/ Return

Spec == Init /\ [][Next]_vars

FairSpec == Spec /\ WF_vars(Next)

-----------------------------------------------------------------------------
(***************************************************************************)
(* Properties                                                              *)
(***************************************************************************)

\* The loop variables keep their ranges: the scan never indexes past the list
\* and flags nothing that is not on it.
TypeOK ==
    /\ hits \subseteq Pairs
    /\ stale \subseteq Position
    /\ i \in 1 .. N + 1
    /\ j \in 1 .. N + 1
    /\ flag \subseteq Position
    /\ collision \in BOOLEAN
    /\ done \in BOOLEAN

\* What the scan has flagged so far: everything the closed form flags for the
\* aircraft already finished, and of the current aircraft the partners before
\* j are known not to be in conflict with it.
LoopInv ==
    /\ flag = stale \union FlaggedIn({p \in hits : p[1] < i})
    /\ collision = (\E p \in hits : p[1] < i)
    /\ \A p \in hits : p[1] = i => p[2] >= j
    /\ done => i > N

\* When detect_collisions returns, its Boolean says whether any pair is in
\* conflict and the flags are those of the closed form that CollisionChain uses
\* as the detector's answer (collision_detector.py:52-64).
ReturnsClosedForm ==
    done => /\ collision = (hits # {})
            /\ flag = stale \union FlaggedIn(hits)

\* Despite the break, no conflict goes unnoticed and no flag is invented: the
\* first member of every conflicting pair is flagged, every aircraft flagged by
\* this call is in some conflict, and a conflict always yields two different
\* flagged aircraft, which mutate.py:12 and mutate.py:45 rely on.
FlagsCoverConflicts ==
    done => /\ \A p \in hits : p[1] \in flag
            /\ \A a \in flag \ stale : \E p \in hits : a \in {p[1], p[2]}
            /\ collision => \E a, b \in flag : a # b

\* What the docstring of detect_collisions says: the flag is added to aircraft1
\* and to aircraft2 of every pair where a conflict is detected
\* (collision_detector.py:36 and :49).  The break makes it false.
EveryConflictFlagged ==
    done => \A p \in hits : {p[1], p[2]} \subseteq flag

=============================================================================
