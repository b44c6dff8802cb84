-------------------------- MODULE DetectLoopProofs --------------------------
(***************************************************************************)
(* The detection loop computes its closed form for a list of any length    *)
(* and any set of conflicting pairs.  The conflicts of the modelled        *)
(* motions, and what the three changes of motion do to it, come last.      *)
(***************************************************************************)
EXTENDS DetectLoop, DetectionProofs, Kinematics

\* Every step of the scan keeps its variables in range.
THEOREM TypeInvariant == Spec => []TypeOK
<1>1. Init => TypeOK
  <2>1. 1 \in 1 .. N + 1
    BY NAssumption
  <2> QED
    BY <2>1, Zenon DEF Init, TypeOK
<1>2. TypeOK /\ [Next]_vars => TypeOK'
  <2> SUFFICES ASSUME TypeOK, [Next]_vars PROVE TypeOK'
    OBVIOUS
  <2> USE NAssumption DEF TypeOK, Position, Pairs
  <2>1. CASE Pass
    BY <2>1 DEF Pass
  <2>2. CASE FlagAndBreak
    BY <2>2 DEF FlagAndBreak
  <2>3. CASE NextAircraft
    BY <2>3 DEF NextAircraft
  <2>4. CASE Return
    BY <2>4 DEF Return
  <2>5. CASE UNCHANGED vars
    BY <2>5 DEF vars
  <2> QED
    BY <2>1, <2>2, <2>3, <2>4, <2>5 DEF Next
<1> QED
  BY <1>1, <1>2, PTL DEF Spec

\* Adding the hits of one aircraft leaves the first hits of the earlier ones
\* alone, and of its own hits only the nearest is a first hit.
LEMMA FirstHitsStep ==
  ASSUME TypeOK, i \in Nat
  PROVE  /\ \A p \in hits : p[1] = i /\ (\A q \in hits : q[1] = i => q[2] >= p[2]) =>
              FlaggedIn({q \in hits : q[1] < i + 1})
                = FlaggedIn({q \in hits : q[1] < i}) \union {i, p[2]}
         /\ (\A q \in hits : q[1] # i) =>
              {q \in hits : q[1] < i + 1} = {q \in hits : q[1] < i}
<1> DEFINE Before(k) == {q \in hits : q[1] < k}
<1>0. \A q \in hits : q[1] \in Nat /\ q[2] \in Nat /\ q = <<q[1], q[2]>>
  BY NAssumption DEF TypeOK, Pairs, Position
<1>1. ASSUME NEW p \in hits, p[1] = i, \A q \in hits : q[1] = i => q[2] >= p[2]
      PROVE  FlaggedIn(Before(i + 1)) = FlaggedIn(Before(i)) \union {i, p[2]}
  <2>1. FirstHits(Before(i + 1)) = FirstHits(Before(i)) \union {p}
    <3>1. ASSUME NEW q \in FirstHits(Before(i + 1)), q \notin FirstHits(Before(i))
          PROVE  q = p
      <4>1. q \in hits /\ q[1] < i + 1 /\ \A r \in Before(i + 1) : r[1] = q[1] => q[2] <= r[2]
        BY <3>1 DEF FirstHits
      <4>2. ~(q[1] < i)
        <5> SUFFICES ASSUME q[1] < i PROVE FALSE
          OBVIOUS
        <5>1. \A r \in Before(i) : r \in Before(i + 1)
          BY <1>0
        <5> QED
          BY <3>1, <4>1, <5>1 DEF FirstHits
      <4>3. q[1] = i
        BY <4>1, <4>2, <1>0
      <4>4. p \in Before(i + 1)
        BY <1>1
      <4>5. q[2] <= p[2] /\ p[2] <= q[2]
        BY <4>1, <4>3, <4>4, <1>1, <1>0
      <4>6. q[2] = p[2]
        BY <4>5, <4>1, <1>0
      <4> QED
        BY <4>1, <4>3, <4>6, <1>1, <1>0
    <3>2. p \in FirstHits(Before(i + 1))
      BY <1>1, <1>0 DEF FirstHits
    <3>3. ASSUME NEW q \in FirstHits(Before(i)) PROVE q \in FirstHits(Before(i + 1))
      BY <3>3, <1>0 DEF FirstHits
    <3> QED
      BY <3>1, <3>2, <3>3
  <2> HIDE DEF Before
  <2> QED
    BY <2>1, <1>1 DEF FlaggedIn
<1>2. (\A q \in hits : q[1] # i) => Before(i + 1) = Before(i)
  BY <1>0
<1> QED
  BY <1>1, <1>2

\* LoopInv holds in every reachable state.
LEMMA LoopInvariant == Spec => []LoopInv
<1>1. Init => LoopInv
  <2> SUFFICES ASSUME Init PROVE LoopInv
    OBVIOUS
  <2>1. \A p \in hits : p[1] \in 1 .. N /\ p[2] \in 1 .. N
    BY DEF Init, Pairs, Position
  <2>2. {p \in hits : p[1] < 1} = {}
    BY <2>1, NAssumption
  <2>3. FlaggedIn({}) = {}
    BY DEF FlaggedIn, FirstHits
  <2>4. flag = stale \union FlaggedIn({p \in hits : p[1] < i})
    BY <2>2, <2>3 DEF Init
  <2>5. \A p \in hits : ~(p[1] < i) /\ p[2] >= j
    BY <2>1, NAssumption DEF Init
  <2>6. collision = (\E p \in hits : p[1] < i)
    BY <2>5, Zenon DEF Init
  <2>7. done => i > N
    BY Zenon DEF Init
  <2> QED
    BY <2>4, <2>5, <2>6, <2>7, Zenon DEF LoopInv
<1>2. TypeOK /\ LoopInv /\ [Next]_vars => LoopInv'
  <2> SUFFICES ASSUME TypeOK, LoopInv, [Next]_vars PROVE LoopInv'
    OBVIOUS
  <2>0. /\ i \in Nat /\ j \in Nat
        /\ \A p \in hits : p[1] \in 1 .. N /\ p[2] \in 1 .. N /\ p = <<p[1], p[2]>>
    BY NAssumption DEF TypeOK, Pairs, Position
  <2>1. CASE Pass
    BY <2>0, <2>1, NAssumption DEF Pass, LoopInv
  <2>2. CASE FlagAndBreak
    <3> DEFINE p == <<i, j>>
    <3>1. p \in hits /\ p[1] = i /\ p[2] = j
      BY <2>2 DEF FlagAndBreak
    <3>2. \A q \in hits : q[1] = i => q[2] >= p[2]
      BY DEF LoopInv
    <3>3. FlaggedIn({q \in hits : q[1] < i + 1})
            = FlaggedIn({q \in hits : q[1] < i}) \union {i, j}
      BY <3>1, <3>2, <2>0, FirstHitsStep
    <3>4. flag' = stale' \union FlaggedIn({q \in hits' : q[1] < i'})
      BY <3>3, <2>2 DEF FlagAndBreak, LoopInv
    <3>5. collision' = (\E q \in hits' : q[1] < i')
      BY <3>1, <2>0, <2>2 DEF FlagAndBreak
    <3>6. \A q \in hits' : q[1] = i' => q[2] >= j'
      BY <2>0, <2>2, NAssumption DEF FlagAndBreak
    <3>7. done' => i' > N
      BY <2>0, <2>2, NAssumption DEF FlagAndBreak, LoopInv
    <3> QED
      BY <3>4, <3>5, <3>6, <3>7 DEF LoopInv
  <2>3. CASE NextAircraft
    <3>1. \A q \in hits : q[1] # i
      BY <2>0, <2>3, NAssumption DEF NextAircraft, LoopInv
    <3>2. {q \in hits : q[1] < i + 1} = {q \in hits : q[1] < i}
      BY <3>1, <2>0, FirstHitsStep
    <3>3. (\E q \in hits : q[1] < i + 1) = (\E q \in hits : q[1] < i)
      BY <3>2
    <3>4. \A q \in hits' : q[1] = i' => q[2] >= j'
      BY <2>0, <2>3, NAssumption DEF NextAircraft
    <3> QED
      BY <2>0, <2>3, <3>2, <3>3, <3>4, NAssumption DEF NextAircraft, LoopInv
  <2>4. CASE Return
    BY <2>4, <2>0, NAssumption DEF Return, LoopInv
  <2>5. CASE UNCHANGED vars
    BY <2>5 DEF vars, LoopInv
  <2> QED
    BY <2>1, <2>2, <2>3, <2>4, <2>5 DEF Next
<1> QED
  BY <1>1, <1>2, TypeInvariant, PTL DEF Spec

\* When the function returns, every pair has been scanned.
LEMMA AllScanned ==
  ASSUME TypeOK, LoopInv, done
  PROVE  {p \in hits : p[1] < i} = hits
<1>1. \A p \in hits : p[1] \in 1 .. N
  BY DEF TypeOK, Pairs, Position
<1>2. i > N /\ i \in Nat
  BY NAssumption DEF TypeOK, LoopInv
<1> QED
  BY <1>1, <1>2, NAssumption

\* For every list length and every set of conflicts, detect_collisions returns
\* the closed form.
THEOREM LoopComputesClosedForm == Spec => []ReturnsClosedForm
<1>1. TypeOK /\ LoopInv => ReturnsClosedForm
  <2> SUFFICES ASSUME TypeOK, LoopInv, done
               PROVE  collision = (hits # {}) /\ flag = stale \union FlaggedIn(hits)
    BY DEF ReturnsClosedForm
  <2>1. {p \in hits : p[1] < i} = hits
    BY AllScanned
  <2>2. (\E p \in hits : p[1] < i) = (hits # {})
    BY <2>1
  <2> QED
    BY <2>1, <2>2 DEF LoopInv
<1> QED
  BY <1>1, TypeInvariant, LoopInvariant, PTL

\* For every list length: no conflict goes unnoticed, no flag is invented, and
\* a conflict always leaves at least two aircraft flagged.
THEOREM LoopFlagsCoverConflicts == Spec => []FlagsCoverConflicts
<1>1. TypeOK /\ ReturnsClosedForm => FlagsCoverConflicts
  <2> SUFFICES ASSUME TypeOK, ReturnsClosedForm, done
               PROVE  /\ \A p \in hits : p[1] \in flag
                      /\ \A a \in flag \ stale : \E p \in hits : a \in {p[1], p[2]}
                      /\ collision => \E a, b \in flag : a # b
    BY DEF FlagsCoverConflicts
  <2>1. collision = (hits # {}) /\ flag = stale \union FlaggedIn(hits)
    BY DEF ReturnsClosedForm
  <2>2. hits \subseteq Nat \X Nat /\ \A p \in hits : p[1] < p[2]
    BY NAssumption DEF TypeOK, Pairs, Position
  <2>3. \A p \in hits : p[1] \in flag
    BY <2>1, <2>2, FlaggedSound
  <2>4. ASSUME NEW a \in flag \ stale PROVE \E p \in hits : a \in {p[1], p[2]}
    BY <2>1, <2>2, <2>4, FlaggedSound
  <2>5. ASSUME collision PROVE \E a, b \in flag : a # b
    <3>1. hits # {}
      BY <2>1, <2>5
    <3>2. PICK a \in FlaggedIn(hits), b \in FlaggedIn(hits) : a < b
      BY <3>1, <2>2, TwoFlagged
    <3>3. \A k \in FlaggedIn(hits) : k \in Nat
      BY <2>2 DEF FlaggedIn, FirstHits
    <3>4. a # b
      BY <3>2, <3>3
    <3> QED
      BY <2>1, <3>2, <3>4
  <2> QED
    BY <2>3, <2>4, <2>5
<1> QED
  BY <1>1, TypeInvariant, LoopComputesClosedForm, PTL

-----------------------------------------------------------------------------
(***************************************************************************)
(* The motion arithmetic of Kinematics                                     *)
(***************************************************************************)

\* The motions the functions read.
Motions == [x : Int, y : Int, alt : Int, speed : Nat, dir : Heading, vs : Int]

LEMMA PredictType ==
  ASSUME NumSteps \in Nat, NEW k \in Motions, NEW step \in 0 .. NumSteps - 1
  PROVE  /\ PredictFuturePositions(k)[step].x \in Int
         /\ PredictFuturePositions(k)[step].y \in Int
         /\ PredictFuturePositions(k)[step].alt = k.alt + k.vs * step
         /\ PredictFuturePositions(k)[step].alt \in Int
<1>1. /\ k.x \in Int /\ k.y \in Int /\ k.alt \in Int /\ k.vs \in Int
      /\ k.speed \in Int /\ k.dir \in Heading /\ step \in Int
  BY DEF Motions
<1>2. Dx[k.dir] \in Int /\ Dy[k.dir] \in Int
  BY <1>1 DEF Dx, Dy, Heading
<1>3. /\ k.x + k.speed * step * Dx[k.dir] \in Int
      /\ k.y + k.speed * step * Dy[k.dir] \in Int
      /\ k.alt + k.vs * step \in Int
  BY <1>1, <1>2
<1> QED
  BY <1>3 DEF PredictFuturePositions

\* Positions that are too close are so in either order.
LEMMA TooCloseSymmetric ==
  ASSUME NEW p, NEW q, TooClose(p, q),
         p.x \in Int, p.y \in Int, p.alt \in Int, q.x \in Int, q.y \in Int, q.alt \in Int
  PROVE  TooClose(q, p)
<1>1. \A a, b \in Int : (a - b) * (a - b) = (b - a) * (b - a)
  OBVIOUS
<1>2. /\ (p.x - q.x) * (p.x - q.x) = (q.x - p.x) * (q.x - p.x)
      /\ (p.y - q.y) * (p.y - q.y) = (q.y - p.y) * (q.y - p.y)
  BY <1>1
<1>3. Gap(p.alt, q.alt) = Gap(q.alt, p.alt)
  BY DEF Gap
<1> QED
  BY <1>2, <1>3 DEF TooClose

\* check_for_conflict does not depend on the order of its aircraft
\* (collision_detector.py:17), for any separations and any horizon: what
\* CollisionChain assumes of its conflict relation (ConflictAssumption).
THEOREM ConflictIsSymmetric ==
  ASSUME NumSteps \in Nat
  PROVE  \A k, l \in Motions :
            /\ CheckForConflict(k, l) \in BOOLEAN
            /\ CheckForConflict(k, l) => CheckForConflict(l, k)
<1> SUFFICES ASSUME NEW k \in Motions, NEW l \in Motions
             PROVE  /\ CheckForConflict(k, l) \in BOOLEAN
                    /\ CheckForConflict(k, l) => CheckForConflict(l, k)
  OBVIOUS
<1>1. CheckForConflict(k, l) \in BOOLEAN
  BY DEF CheckForConflict
<1>2. ASSUME NEW step \in 0 .. NumSteps - 1,
             TooClose(PredictFuturePositions(k)[step], PredictFuturePositions(l)[step])
      PROVE  TooClose(PredictFuturePositions(l)[step], PredictFuturePositions(k)[step])
  BY <1>2, PredictType, TooCloseSymmetric
<1> QED
  BY <1>1, <1>2 DEF CheckForConflict

\* The three changes of motion make motions of motions, whatever was changed
\* before: what CollisionChain assumes of them (KinAssumption).
THEOREM MutationsStayMotions ==
  ASSUME VSep \in Int, Over \in Int
  PROVE  \A k \in Motions :
            Slower(k) \in Motions /\ Turned(k) \subseteq Motions /\ Climbed(k) \in Motions
<1> SUFFICES ASSUME NEW k \in Motions
             PROVE  Slower(k) \in Motions /\ Turned(k) \subseteq Motions /\ Climbed(k) \in Motions
  OBVIOUS
<1>1. k.speed \in Nat /\ k.dir \in 0 .. 3 /\ k.alt \in Int
  BY DEF Motions, Heading
<1>2. (3 * k.speed) \div 4 \in Nat
  BY <1>1
<1>3. (k.dir + 3) % 4 \in 0 .. 3 /\ (k.dir + 1) % 4 \in 0 .. 3
  BY <1>1
<1>4. k.alt + VSep + Over \in Int
  BY <1>1
<1>5. Slower(k) \in Motions
  BY <1>2 DEF Slower, Motions
<1>6. Turned(k) \subseteq Motions
  BY <1>3 DEF Turned, Motions, Heading
<1>7. Climbed(k) \in Motions
  BY <1>4 DEF Climbed, Motions
<1> QED
  BY <1>5, <1>6, <1>7

\* The climb (mutate.py, case 3) clears every aircraft that is not above the one
\* that climbs and does not climb faster, for the whole horizon.
THEOREM ClimbClears ==
  ASSUME NumSteps \in Nat, VSep \in Nat, Over \in Nat
  PROVE  \A k, l \in Motions :
            l.alt <= k.alt /\ l.vs <= k.vs => ~CheckForConflict(Climbed(k), l)
<1> SUFFICES ASSUME NEW k \in Motions, NEW l \in Motions, l.alt <= k.alt, l.vs <= k.vs,
                    NEW step \in 0 .. NumSteps - 1
             PROVE  ~TooClose(PredictFuturePositions(Climbed(k))[step],
                              PredictFuturePositions(l)[step])
  BY DEF CheckForConflict
<1> DEFINE p == PredictFuturePositions(Climbed(k))[step]
           q == PredictFuturePositions(l)[step]
<1>1. Climbed(k) \in Motions /\ Climbed(k).alt = k.alt + VSep + Over /\ Climbed(k).vs = k.vs
  BY MutationsStayMotions DEF Climbed, Motions
<1>2. p.alt = k.alt + VSep + Over + k.vs * step /\ q.alt = l.alt + l.vs * step
  BY <1>1, PredictType
<1>3. k.alt \in Int /\ l.alt \in Int /\ k.vs \in Int /\ l.vs \in Int /\ step \in Nat
  BY DEF Motions
<1>4. l.vs * step <= k.vs * step
  <2>1. \A a, b \in Int : \A s \in Nat : a <= b => a * s <= b * s
    OBVIOUS
  <2> QED
    BY <1>3, <2>1
<1>5. l.vs * step \in Int /\ k.vs * step \in Int
  BY <1>3
<1>6. p.alt >= q.alt + VSep
  BY <1>2, <1>3, <1>4, <1>5
<1>7. p.alt \in Int /\ q.alt \in Int
  BY <1>2, <1>3, <1>5
<1>8. ~(Gap(p.alt, q.alt) < VSep)
  <2> HIDE DEF p, q
  <2> QED
    BY <1>6, <1>7 DEF Gap
<1> QED
  BY <1>8 DEF TooClose

\* A conflict of the present positions (future_time = 0, utility.py:31) outlasts
\* slowing down and turning (cases 1 and 2): only the climb can end it.
THEOREM PresentConflictStays ==
  ASSUME NumSteps \in Nat \ {0}
  PROVE  \A k, l \in Motions :
            TooClose(PredictFuturePositions(k)[0], PredictFuturePositions(l)[0]) =>
                \A c \in {Slower(k)} \union Turned(k) : CheckForConflict(c, l)
<1> SUFFICES ASSUME NEW k \in Motions, NEW l \in Motions,
                    TooClose(PredictFuturePositions(k)[0], PredictFuturePositions(l)[0]),
                    NEW c \in {Slower(k)} \union Turned(k)
             PROVE  CheckForConflict(c, l)
  OBVIOUS
<1>1. 0 \in 0 .. NumSteps - 1
  OBVIOUS
<1>2. ASSUME NEW m, m.x \in Int, m.y \in Int, m.alt \in Int, m.vs \in Int,
             m.speed \in Int, m.dir \in Heading
      PROVE  PredictFuturePositions(m)[0] = [x |-> m.x, y |-> m.y, alt |-> m.alt]
  <2>1. Dx[m.dir] \in Int /\ Dy[m.dir] \in Int
    BY <1>2 DEF Dx, Dy, Heading
  <2>2. m.speed * 0 * Dx[m.dir] = 0 /\ m.speed * 0 * Dy[m.dir] = 0 /\ m.vs * 0 = 0
    BY <1>2, <2>1
  <2> QED
    BY <1>1, <1>2, <2>2 DEF PredictFuturePositions
<1>3. /\ k.x \in Int /\ k.y \in Int /\ k.alt \in Int /\ k.vs \in Int /\ k.speed \in Int
      /\ k.speed \in Nat /\ k.dir \in 0 .. 3
  BY DEF Motions, Heading
<1>4. /\ c.x = k.x /\ c.y = k.y /\ c.alt = k.alt /\ c.vs = k.vs
      /\ c.speed \in Int /\ c.dir \in Heading
  <2>1. (3 * k.speed) \div 4 \in Int
    BY <1>3
  <2>2. (k.dir + 3) % 4 \in 0 .. 3 /\ (k.dir + 1) % 4 \in 0 .. 3
    BY <1>3
  <2> QED
    BY <1>3, <2>1, <2>2 DEF Slower, Turned, Motions, Heading
<1>5. k.dir \in Heading
  BY <1>3 DEF Heading
<1>6. PredictFuturePositions(k)[0] = [x |-> k.x, y |-> k.y, alt |-> k.alt]
  BY <1>2, <1>3, <1>5
<1>7. c.x \in Int /\ c.y \in Int /\ c.alt \in Int /\ c.vs \in Int
  BY <1>3, <1>4
<1>8. PredictFuturePositions(c)[0] = [x |-> c.x, y |-> c.y, alt |-> c.alt]
  BY <1>2, <1>4, <1>7
<1>9. PredictFuturePositions(c)[0] = PredictFuturePositions(k)[0]
  BY <1>4, <1>6, <1>8
<1> QED
  BY <1>1, <1>9 DEF CheckForConflict

=============================================================================
