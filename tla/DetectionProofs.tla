-------------------------- MODULE DetectionProofs --------------------------
(***************************************************************************)
(* Facts about the closed form of the pair scan, for any set of hits.      *)
(***************************************************************************)
EXTENDS Detection, TLAPS, WellFoundedInduction

\* An aircraft that is the first member of some hit is the first member of a
\* first hit: the inner loop stops somewhere for it.
LEMMA FirstHitExists ==
  ASSUME NEW hits, hits \subseteq Nat \X Nat, NEW p \in hits
  PROVE  \E q \in FirstHits(hits) : q[1] = p[1]
<1> DEFINE T == {q[2] : q \in {r \in hits : r[1] = p[1]}}
           Less == OpToRel(<, Nat)
<1>0. \A q \in hits : q[1] \in Nat /\ q[2] \in Nat
  OBVIOUS
<1>1. T \subseteq Nat /\ T # {}
  BY <1>0
<1>2. IsWellFoundedOn(Less, Nat)
  BY NatLessThanWellFounded
<1>3. \A x, y \in Nat : <<y, x>> \in Less <=> y < x
  BY DEF OpToRel
<1> HIDE DEF Less
<1>4. PICK m \in T : \A n \in T : <<n, m>> \notin Less
  <2> HIDE DEF T
  <2> QED
    BY <1>1, <1>2, WFMin
<1>5. \A n \in T : m <= n
  <2> SUFFICES ASSUME NEW n \in T PROVE m <= n
    OBVIOUS
  <2> HIDE DEF T
  <2>1. m \in Nat /\ n \in Nat
    BY <1>1
  <2>2. ~(n < m)
    BY <1>3, <1>4, <2>1
  <2> QED
    BY <2>1, <2>2
<1>6. PICK q \in hits : q[1] = p[1] /\ q[2] = m
  BY <1>4
<1>7. \A r \in hits : r[1] = q[1] => q[2] <= r[2]
  BY <1>5, <1>6
<1> QED
  BY <1>6, <1>7 DEF FirstHits

\* If there is a conflict at all, two different positions are flagged.
LEMMA TwoFlagged ==
  ASSUME NEW hits, hits \subseteq Nat \X Nat, hits # {},
         \A p \in hits : p[1] < p[2]
  PROVE  \E a, b \in FlaggedIn(hits) : a < b
<1>1. PICK p \in hits : TRUE
  OBVIOUS
<1>2. PICK q \in FirstHits(hits) : q[1] = p[1]
  BY <1>1, FirstHitExists
<1>3. q[1] \in FlaggedIn(hits) /\ q[2] \in FlaggedIn(hits)
  BY <1>2 DEF FlaggedIn
<1>4. q[1] < q[2]
  BY <1>2 DEF FirstHits
<1> QED
  BY <1>3, <1>4

\* The first member of every hit is flagged, and nothing is flagged without a
\* hit.
LEMMA FlaggedSound ==
  ASSUME NEW hits, hits \subseteq Nat \X Nat
  PROVE  /\ \A p \in hits : p[1] \in FlaggedIn(hits)
         /\ \A a \in FlaggedIn(hits) : \E p \in hits : a = p[1] \/ a = p[2]
<1>1. ASSUME NEW p \in hits PROVE p[1] \in FlaggedIn(hits)
  BY FirstHitExists DEF FlaggedIn
<1>2. ASSUME NEW a \in FlaggedIn(hits) PROVE \E p \in hits : a = p[1] \/ a = p[2]
  BY DEF FlaggedIn, FirstHits
<1> QED
  BY <1>1, <1>2

=============================================================================
