------------------------ MODULE CollisionChainProofs ------------------------
(***************************************************************************)
(* Theorems about the function chain for any number of UAVs, any motions,  *)
(* any conflict relation that is symmetric, any budget and any bounds.     *)
(***************************************************************************)
EXTENDS CollisionChain, DetectionProofs, FiniteSetTheorems, SequenceTheorems

USE BoundsAssumption

-----------------------------------------------------------------------------
(***************************************************************************)
(* What the helpers of the handlers return                                 *)
(***************************************************************************)

\* A snapshot is a list of trajectories.
LEMMA SnapshotsType ==
  ASSUME db \subseteq Doc
  PROVE  \A s \in Snapshots : s \in Seq(Traj)
<1>1. RecentUav \subseteq 1 .. NUav
  BY DEF RecentUav, Recent, Doc, Traj, Uav
<1>2. IsFiniteSet(RecentUav)
  <2>1. IsFiniteSet(1 .. NUav)
    BY FS_Interval
  <2> QED
    BY <1>1, <2>1, FS_Subset
<1>3. Cardinality(RecentUav) \in Nat
  BY <1>2, FS_CardinalityType
<1>4. Latest \subseteq Traj
  BY DEF Latest, Recent, Doc
<1>5. ASSUME NEW s \in Snapshots PROVE s \in Seq(Traj)
  <2>1. s \in [1 .. Cardinality(RecentUav) -> Traj]
    BY <1>4 DEF Snapshots
  <2> QED
    BY <2>1, <1>3
<1> QED
  BY <1>5

\* Detection keeps the list a list of trajectories.
LEMMA DetectType ==
  ASSUME NEW data \in Seq(Traj)
  PROVE  DetectCollisions(data) \in Seq(Traj)
<1>1. \A k \in DOMAIN data : data[k] \in Traj
  OBVIOUS
<1>2. \A k \in DOMAIN data :
        [data[k] EXCEPT !.collision = @ \/ k \in FlaggedIn(Hits(data))] \in Traj
  BY <1>1 DEF Traj
<1>3. DOMAIN data = 1 .. Len(data) /\ Len(data) \in Nat
  OBVIOUS
<1> QED
  BY <1>2, <1>3 DEF DetectCollisions

\* A new motion and a request id for one of its items keep it so, too.
LEMMA RewriteType ==
  ASSUME NEW data \in Seq(Traj), NEW v \in DOMAIN data, NEW k \in Kin, NEW id \in Request
  PROVE  /\ Rewrite(data, v, k, id) \in Seq(Traj)
         /\ ClearFlags(Rewrite(data, v, k, id)) \in Seq(Traj)
<1> DEFINE d == Rewrite(data, v, k, id)
<1>1. DOMAIN data = 1 .. Len(data) /\ Len(data) \in Nat
  OBVIOUS
<1>2. [data[v] EXCEPT !.kin = k, !.mut = id] \in Traj
  <2>1. data[v] \in Traj
    OBVIOUS
  <2>2. id \in 0 .. MaxReports
    BY DEF Request
  <2> QED
    BY <2>1, <2>2 DEF Traj
<1>3. d = [data EXCEPT ![v] = [data[v] EXCEPT !.kin = k, !.mut = id]]
  BY DEF Rewrite
<1>4. d \in [1 .. Len(data) -> Traj]
  BY <1>1, <1>2, <1>3
<1>5. \A i \in 1 .. Len(data) : [d[i] EXCEPT !.collision = FALSE] \in Traj
  BY <1>4 DEF Traj
<1>6. ClearFlags(d) \in [1 .. Len(data) -> Traj]
  BY <1>4, <1>5 DEF ClearFlags
<1> QED
  BY <1>1, <1>4, <1>6

\* Whatever mutate does, it passes a list of trajectories on.
LEMMA MutationsType ==
  ASSUME NEW m \in Message
  PROVE  \A data \in Mutations(m) : data \in Seq(Traj)
<1>1. m.data \in Seq(Traj) /\ m.id \in Request /\ m.cases \in {0, 1, 3, 7}
  BY DEF Message, Cases
<1>2. ASSUME NEW v \in Victims(m.data)
      PROVE  v \in DOMAIN m.data /\ m.data[v].kin \in Kin
  <2>1. v \in DOMAIN m.data
    BY DEF Victims, FlaggedPositions
  <2>2. m.data[v] \in Traj
    BY <1>1, <2>1
  <2> QED
    BY <2>1, <2>2 DEF Traj
<1>3. ASSUME NEW v \in Victims(m.data)
      PROVE  /\ SlowDown(m.data[v].kin) \in Kin
             /\ Turn(m.data[v].kin) \subseteq Kin
             /\ Climb(m.data[v].kin) \in Kin
  BY <1>2, KinAssumption
<1>4. CASE m.cases = 0
  BY <1>1, <1>2, <1>3, <1>4, RewriteType DEF Mutations
<1>5. CASE m.cases = 1
  <2> SUFFICES ASSUME NEW data \in Mutations(m) PROVE data \in Seq(Traj)
    OBVIOUS
  <2>1. PICK v \in Victims(m.data) : \E k \in Turn(m.data[v].kin) :
          data = ClearFlags(Rewrite(m.data, v, k, m.id))
    BY <1>5 DEF Mutations
  <2>2. PICK k \in Turn(m.data[v].kin) : data = ClearFlags(Rewrite(m.data, v, k, m.id))
    BY <2>1
  <2>3. k \in Kin
    BY <1>3
  <2> QED
    BY <1>1, <1>2, <2>2, <2>3, RewriteType
<1>6. CASE m.cases = 3
  BY <1>1, <1>2, <1>3, <1>6, RewriteType DEF Mutations
<1>7. CASE m.cases = 7
  BY <1>1, <1>7 DEF Mutations
<1> QED
  BY <1>1, <1>4, <1>5, <1>6, <1>7

\* The released list consists of mutated items of the snapshot, at different
\* positions.
LEMMA MutatedDataItems ==
  ASSUME NEW data \in Seq(Traj), NEW cmds \in MutatedData(data)
  PROVE  /\ cmds \in Seq(Traj)
         /\ \E pos \in [DOMAIN cmds -> MutatedPositions(data)] :
              /\ \A a \in DOMAIN cmds : cmds[a] = data[pos[a]]
              /\ \A a, b \in DOMAIN cmds : a # b => pos[a] # pos[b]
         /\ DOMAIN cmds = 1 .. Cardinality(MutatedPositions(data))
<1> DEFINE M == MutatedPositions(data)
<1>1. M \subseteq 1 .. Len(data) /\ Len(data) \in Nat
  BY DEF MutatedPositions
<1>2. Cardinality(M) \in Nat
  <2>1. IsFiniteSet(1 .. Len(data))
    BY <1>1, FS_Interval
  <2> QED
    BY <1>1, <2>1, FS_Subset, FS_CardinalityType
<1>3. PICK pos \in [1 .. Cardinality(M) -> M] :
        /\ \A a, b \in DOMAIN pos : a < b => pos[a] < pos[b]
        /\ cmds = [k \in DOMAIN pos |-> data[pos[k]]]
  BY DEF MutatedData
<1>4. DOMAIN cmds = 1 .. Cardinality(M) /\ DOMAIN pos = 1 .. Cardinality(M)
  BY <1>3
<1>5. \A a \in DOMAIN cmds : cmds[a] = data[pos[a]] /\ pos[a] \in M /\ pos[a] \in Nat
  BY <1>1, <1>3, <1>4
<1>6. ASSUME NEW a \in DOMAIN cmds, NEW b \in DOMAIN cmds, a # b
      PROVE  pos[a] # pos[b]
  <2>1. a \in Nat /\ b \in Nat /\ (a < b \/ b < a)
    BY <1>2, <1>4, <1>6
  <2>2. pos[a] < pos[b] \/ pos[b] < pos[a]
    BY <2>1, <1>3, <1>4
  <2> QED
    BY <2>2, <1>5
<1>7. \A a \in DOMAIN cmds : cmds[a] \in Traj
  BY <1>1, <1>5
<1>8. cmds \in Seq(Traj)
  <2>1. cmds \in [1 .. Cardinality(M) -> Traj]
    BY <1>3, <1>4, <1>7
  <2> QED
    BY <2>1, <1>2
<1>9. pos \in [DOMAIN cmds -> M]
  BY <1>3, <1>4
<1> QED
  BY <1>4, <1>5, <1>6, <1>8, <1>9

-----------------------------------------------------------------------------
(***************************************************************************)
(* Types                                                                   *)
(***************************************************************************)

\* A post that replaces another keeps the network a set of messages.
LEMMA ConsumeType ==
  ASSUME net \subseteq Message, NEW m \in net, NEW posts \in SUBSET Message,
         Consume(m, posts)
  PROVE  net' \subseteq Message
BY DEF Consume

LEMMA UpdateType ==
  ASSUME TypeOK, NEW m \in net, HandleUpdate(m)
  PROVE  TypeOK'
<1>1. m \in Message
  BY DEF TypeOK
<1>2. [m EXCEPT !.to = "trigger", !.data = <<>>] \in Message
  <2>1. <<>> \in Seq(Traj)
    OBVIOUS
  <2> QED
    BY <1>1, <2>1 DEF Message, Stage
<1>3. net' \subseteq Message
  BY <1>2, ConsumeType DEF HandleUpdate, PostTrigger, TypeOK
<1>4. db' \subseteq Doc
  <2>1. PICK n \in 0 .. Len(m.data) :
          db' = db \union {[traj |-> m.data[k], created |-> now] : k \in 1 .. n}
    BY DEF HandleUpdate, PostTrigger, StoreUpdate
  <2>2. m.data \in Seq(Traj)
    BY <1>1 DEF Message
  <2>3. ASSUME NEW k \in 1 .. n PROVE [traj |-> m.data[k], created |-> now] \in Doc
    <3>1. m.data[k] \in Traj
      BY <2>1, <2>2
    <3> QED
      BY <3>1 DEF Doc, TypeOK
  <2> QED
    BY <2>1, <2>3 DEF TypeOK
<1> QED
  BY <1>3, <1>4 DEF HandleUpdate, PostTrigger, TypeOK

LEMMA TriggerType ==
  ASSUME TypeOK, NEW m \in net, HandleTrigger(m)
  PROVE  TypeOK'
<1>1. m \in Message
  BY DEF TypeOK
<1>2. ASSUME NEW s \in Snapshots
      PROVE  [m EXCEPT !.to = "collisiondetector", !.data = s] \in Message
  <2>1. s \in Seq(Traj)
    BY SnapshotsType DEF TypeOK
  <2> QED
    BY <1>1, <2>1 DEF Message, Stage
<1>3. net' \subseteq Message
  <2>1. CASE Consume(m, {})
    BY <2>1, ConsumeType DEF TypeOK
  <2>2. CASE \E s \in Snapshots :
               Consume(m, {[m EXCEPT !.to = "collisiondetector", !.data = s]})
    BY <1>2, <2>2, ConsumeType DEF TypeOK
  <2> QED
    BY <2>1, <2>2 DEF HandleTrigger
<1> QED
  BY <1>3 DEF HandleTrigger, TypeOK

LEMMA DetectorType ==
  ASSUME TypeOK, NEW m \in net, HandleDetector(m)
  PROVE  TypeOK'
<1>1. m \in Message /\ m.data \in Seq(Traj)
  BY DEF TypeOK, Message
<1>2. [m EXCEPT !.to = "mutate", !.data = DetectCollisions(m.data)] \in Message
  <2>1. DetectCollisions(m.data) \in Seq(Traj)
    BY <1>1, DetectType
  <2> QED
    BY <1>1, <2>1 DEF Message, Stage
<1>3. [m EXCEPT !.to = "release"] \in Message
  BY <1>1 DEF Message, Stage
<1>4. net' \subseteq Message
  BY <1>2, <1>3, ConsumeType DEF HandleDetector, PostMutate, PostRelease, TypeOK
<1> QED
  BY <1>4 DEF HandleDetector, PostMutate, PostRelease, TypeOK

\* What mutate posts, for any count, case bits and data.
LEMMA MutatedMessageType ==
  ASSUME NEW m \in Message, NEW n \in Nat, NEW c \in Cases, NEW d \in Seq(Traj)
  PROVE  [m EXCEPT !.to = "collisiondetector", !.origin = "system",
                   !.mutations = n, !.cases = c, !.data = d] \in Message
BY DEF Message, Stage

LEMMA MutateType ==
  ASSUME TypeOK, NEW m \in net, HandleMutate(m)
  PROVE  TypeOK'
<1>1. m \in Message
  BY DEF TypeOK
<1>2. NextCases(m.cases) \in Cases
  BY <1>1 DEF Message, Cases, NextCases
<1>3. ASSUME NEW data \in Mutations(m)
      PROVE  [m EXCEPT !.to = "collisiondetector", !.origin = "system",
                       !.mutations = @ + 1, !.cases = NextCases(@),
                       !.data = data] \in Message
  <2>1. data \in Seq(Traj)
    BY <1>1, MutationsType
  <2>2. m.mutations + 1 \in Nat
    BY <1>1 DEF Message
  <2> QED
    BY <1>1, <1>2, <2>1, <2>2, MutatedMessageType
<1>4. net' \subseteq Message
  <2>1. CASE Consume(m, {})
    BY <2>1, ConsumeType DEF TypeOK
  <2>2. CASE \E data \in Mutations(m) :
               Consume(m, {[m EXCEPT !.to = "collisiondetector", !.origin = "system",
                                     !.mutations = @ + 1, !.cases = NextCases(@),
                                     !.data = data]})
    BY <1>3, <2>2, ConsumeType DEF TypeOK
  <2> QED
    BY <2>1, <2>2 DEF HandleMutate
<1> QED
  BY <1>4 DEF HandleMutate, TypeOK

\* What is handed over is added to the lists, published or not.
LEMMA HandedOver ==
  ASSUME released \in Seq(Handover), NEW id \in Request, NEW cmds \in Seq(Traj),
         HandOver(id, cmds)
  PROVE  \E new \in Handover :
            /\ new.id = id /\ new.cmds = cmds
            /\ released' = Append(released, new)
            /\ Len(released') = Len(released) + 1 /\ Len(released) \in Nat
            /\ \A r \in 1 .. Len(released) : released'[r] = released[r]
            /\ released'[Len(released) + 1] = new
<1>1. PICK published \in BOOLEAN :
        released' = Append(released, [id |-> id, cmds |-> cmds, published |-> published])
  BY DEF HandOver
<1> DEFINE new == [id |-> id, cmds |-> cmds, published |-> published]
<1>2. new \in Handover /\ new.id = id /\ new.cmds = cmds
  BY DEF Handover
<1>3. released' = Append(released, new)
  BY <1>1
<1> HIDE DEF new
<1>4. /\ Len(released') = Len(released) + 1 /\ Len(released) \in Nat
      /\ \A r \in 1 .. Len(released) : released'[r] = released[r]
      /\ released'[Len(released) + 1] = new
  BY <1>2, <1>3
<1> QED
  BY <1>2, <1>3, <1>4

LEMMA ReleaseType ==
  ASSUME TypeOK, NEW m \in net, HandleRelease(m)
  PROVE  TypeOK'
<1>1. m \in Message /\ m.data \in Seq(Traj) /\ m.id \in Request
  BY DEF TypeOK, Message
<1>2. PICK data \in MutatedData(m.data) :
        /\ HandOver(m.id, data)
        /\ Consume(m, {[m EXCEPT !.to = "update", !.data = data]})
  BY DEF HandleRelease, PostUpdate
<1>3. data \in Seq(Traj)
  BY <1>1, MutatedDataItems
<1>4. [m EXCEPT !.to = "update", !.data = data] \in Message
  BY <1>1, <1>3 DEF Message, Stage
<1>5. net' \subseteq Message
  BY <1>2, <1>4, ConsumeType DEF TypeOK
<1>6. released' \in Seq(Handover)
  <2>1. released \in Seq(Handover)
    BY DEF TypeOK
  <2>2. PICK new \in Handover : released' = Append(released, new)
    BY <1>1, <1>2, <1>3, <2>1, HandedOver
  <2> QED
    BY <2>1, <2>2
<1> QED
  BY <1>5, <1>6 DEF HandleRelease, PostUpdate, TypeOK

LEMMA ReportType ==
  ASSUME TypeOK, NEW u \in Uav, NEW k \in ReportKin(u), Report(u, k)
  PROVE  TypeOK'
<1> DEFINE item == [uav |-> u, kin |-> k, collision |-> FALSE, mut |-> 0]
           post == [to |-> "update", id |-> Len(reported) + 1,
                    origin |-> "self_report", mutations |-> 0, cases |-> 0,
                    data |-> <<item>>]
<1>1. Len(reported) \in Nat /\ Len(reported) + 1 \in Request
  BY DEF Report, Request, TypeOK
<1>2. item \in Traj
  BY KinAssumption DEF Traj
<1>3. post \in Message
  <2>1. <<item>> \in Seq(Traj)
    BY <1>2
  <2> HIDE DEF item
  <2> QED
    BY <1>1, <2>1 DEF Message, Stage, Cases
<1>4. net' \subseteq Message
  BY <1>3 DEF Report, TypeOK
<1>5. reported' \in Seq(Uav) /\ Len(reported') <= MaxReports
  BY <1>1 DEF Report, TypeOK
<1> QED
  BY <1>4, <1>5 DEF Report, TypeOK

\* The functions always understand each other's messages, whatever is lost and
\* however the requests interleave.
THEOREM TypeInvariant == Spec => []TypeOK
<1>1. Init => TypeOK
  BY DEF Init, TypeOK
<1>2. TypeOK /\ [Next]_vars => TypeOK'
  <2> SUFFICES ASSUME TypeOK, [Next]_vars PROVE TypeOK'
    OBVIOUS
  <2>1. CASE \E u \in Uav : \E k \in ReportKin(u) : Report(u, k)
    BY <2>1, ReportType
  <2>2. CASE \E m \in net : Handle(m)
    BY <2>2, UpdateType, TriggerType, DetectorType, MutateType, ReleaseType DEF Handle
  <2>3. CASE \E m \in net : Lose(m)
    BY <2>3 DEF Lose, Consume, TypeOK
  <2>4. CASE Tick
    BY <2>4 DEF Tick, TypeOK
  <2>5. CASE UNCHANGED vars
    BY <2>5 DEF vars, TypeOK
  <2> QED
    BY <2>1, <2>2, <2>3, <2>4, <2>5 DEF Next
<1> QED
  BY <1>1, <1>2, PTL DEF Spec

-----------------------------------------------------------------------------
(***************************************************************************)
(* One thread of control per request, and its meta                         *)
(***************************************************************************)

\* How a handler hands the meta of m on to the post p.
Passes(m, p) ==
    /\ p.id = m.id
    /\ \/ /\ p.origin = m.origin
          /\ p.mutations = m.mutations
          /\ p.cases = m.cases
       \/ /\ ~Refused(m)
          /\ p.origin = "system"
          /\ p.mutations = m.mutations + 1
          /\ p.cases = NextCases(m.cases)

\* Every handler consumes its post and sends at most one other on.
LEMMA HandlerPosts ==
  ASSUME TypeOK, NEW m \in net, Handle(m)
  PROVE  /\ \/ Consume(m, {})
            \/ \E p : Consume(m, {p}) /\ Passes(m, p)
         /\ reported' = reported
<1>0. m \in Message
  BY DEF TypeOK
<1>1. CASE HandleUpdate(m)
  BY <1>0, <1>1 DEF HandleUpdate, PostTrigger, Passes, Message
<1>2. CASE HandleTrigger(m)
  <2>1. CASE Consume(m, {})
    BY <1>2, <2>1 DEF HandleTrigger
  <2>2. CASE \E s \in Snapshots :
               Consume(m, {[m EXCEPT !.to = "collisiondetector", !.data = s]})
    <3>1. PICK s \in Snapshots :
            Consume(m, {[m EXCEPT !.to = "collisiondetector", !.data = s]})
      BY <2>2
    <3>2. Passes(m, [m EXCEPT !.to = "collisiondetector", !.data = s])
      BY <1>0 DEF Passes, Message
    <3> QED
      BY <1>2, <3>1, <3>2 DEF HandleTrigger
  <2> QED
    BY <1>2, <2>1, <2>2 DEF HandleTrigger
<1>3. CASE HandleDetector(m)
  <2>1. Passes(m, [m EXCEPT !.to = "mutate", !.data = DetectCollisions(m.data)])
    BY <1>0 DEF Passes, Message
  <2>2. Passes(m, [m EXCEPT !.to = "release"])
    BY <1>0 DEF Passes, Message
  <2> QED
    BY <1>3, <2>1, <2>2 DEF HandleDetector, PostMutate, PostRelease
<1>4. CASE HandleMutate(m)
  <2>1. CASE Refused(m)
    BY <1>4, <2>1 DEF HandleMutate
  <2>2. CASE ~Refused(m)
    <3>1. PICK data \in Mutations(m) :
            Consume(m, {[m EXCEPT !.to = "collisiondetector", !.origin = "system",
                                  !.mutations = @ + 1, !.cases = NextCases(@),
                                  !.data = data]})
      BY <1>4, <2>2 DEF HandleMutate
    <3>2. Passes(m, [m EXCEPT !.to = "collisiondetector", !.origin = "system",
                              !.mutations = @ + 1, !.cases = NextCases(@),
                              !.data = data])
      <4> DEFINE n == m.mutations + 1
                 c == NextCases(m.cases)
      <4>1. ASSUME NEW q, q = [m EXCEPT !.to = "collisiondetector", !.origin = "system",
                                        !.mutations = n, !.cases = c, !.data = data]
            PROVE  q.id = m.id /\ q.origin = "system" /\ q.mutations = n /\ q.cases = c
        <5> HIDE DEF n, c
        <5> QED
          BY <1>0, <4>1 DEF Message
      <4> QED
        BY <2>2, <4>1 DEF Passes
    <3> QED
      BY <1>4, <3>1, <3>2 DEF HandleMutate
  <2> QED
    BY <2>1, <2>2
<1>5. CASE HandleRelease(m)
  <2>1. PICK data \in MutatedData(m.data) :
          Consume(m, {[m EXCEPT !.to = "update", !.data = data]})
    BY <1>5 DEF HandleRelease, PostUpdate
  <2>2. Passes(m, [m EXCEPT !.to = "update", !.data = data])
    BY <1>0 DEF Passes, Message
  <2> QED
    BY <1>5, <2>1, <2>2 DEF HandleRelease, PostUpdate
<1> QED
  BY <1>1, <1>2, <1>3, <1>4, <1>5 DEF Handle

\* No post is ahead of the reports, so a new report's id is not in use.
IdsInUse == \A m \in net : m.id <= Len(reported)

\* A request never forks, whatever is lost and however requests interleave.
THEOREM NoFork == Spec => []OnePostPerRequest
<1> DEFINE Inv == OnePostPerRequest /\ IdsInUse
<1>1. Init => Inv
  BY DEF Init, OnePostPerRequest, IdsInUse
<1>2. TypeOK /\ Inv /\ [Next]_vars => Inv'
  <2> SUFFICES ASSUME TypeOK, Inv, [Next]_vars PROVE Inv'
    OBVIOUS
  <2>1. CASE \E u \in Uav : \E k \in ReportKin(u) : Report(u, k)
    <3>1. PICK u \in Uav, k \in Kin : Report(u, k)
      BY <2>1, KinAssumption
    <3> DEFINE post == [to |-> "update", id |-> Len(reported) + 1,
                        origin |-> "self_report", mutations |-> 0, cases |-> 0,
                        data |-> <<[uav |-> u, kin |-> k, collision |-> FALSE, mut |-> 0]>>]
    <3>2. net' = net \union {post} /\ reported' = Append(reported, u)
      BY <3>1 DEF Report
    <3>3. Len(reported) \in Nat /\ Len(reported') = Len(reported) + 1
      BY <3>2 DEF TypeOK
    <3>4. post.id = Len(reported) + 1
      OBVIOUS
    <3>5. \A m \in net : m.id \in Nat /\ m.id <= Len(reported)
      BY DEF TypeOK, Message, Request, IdsInUse
    <3> HIDE DEF post
    <3>6. OnePostPerRequest'
      BY <3>2, <3>3, <3>4, <3>5 DEF OnePostPerRequest
    <3>7. IdsInUse'
      BY <3>2, <3>3, <3>4, <3>5 DEF IdsInUse
    <3> QED
      BY <3>6, <3>7
  <2>2. CASE \E m \in net : Handle(m)
    BY <2>2, HandlerPosts DEF Consume, Passes, OnePostPerRequest, IdsInUse
  <2>3. CASE \E m \in net : Lose(m)
    BY <2>3 DEF Lose, Consume, OnePostPerRequest, IdsInUse
  <2>4. CASE Tick
    BY <2>4 DEF Tick, OnePostPerRequest, IdsInUse
  <2>5. CASE UNCHANGED vars
    BY <2>5 DEF vars, OnePostPerRequest, IdsInUse
  <2> QED
    BY <2>1, <2>2, <2>3, <2>4, <2>5 DEF Next
<1> QED
  BY <1>1, <1>2, TypeInvariant, PTL DEF Spec

\* The meta of one message, the conjunct of MetaAgrees.
MetaFits(m) ==
    /\ m.mutations <= MaxMutations + 1
    /\ (m.origin = "system") = (m.mutations > 0)
    /\ m.cases = (CASE m.mutations = 0 -> 0
                    [] m.mutations = 1 -> 1
                    [] m.mutations = 2 -> 3
                    [] OTHER -> 7)

LEMMA PassesKeepsMeta ==
  ASSUME NEW m \in Message, NEW p, Passes(m, p), MetaFits(m)
  PROVE  MetaFits(p)
<1>1. CASE p.origin = m.origin /\ p.mutations = m.mutations /\ p.cases = m.cases
  BY <1>1 DEF MetaFits
<1>2. CASE ~Refused(m) /\ p.origin = "system" /\ p.mutations = m.mutations + 1
             /\ p.cases = NextCases(m.cases)
  <2>1. m.mutations \in Nat
    BY DEF Message
  <2>2. p.mutations <= MaxMutations + 1
    BY <1>2, <2>1 DEF Refused, MetaFits
  <2>3. p.cases = (CASE p.mutations = 0 -> 0
                     [] p.mutations = 1 -> 1
                     [] p.mutations = 2 -> 3
                     [] OTHER -> 7)
    BY <1>2, <2>1 DEF MetaFits, NextCases
  <2> QED
    BY <1>2, <2>1, <2>2, <2>3 DEF MetaFits
<1> QED
  BY <1>1, <1>2 DEF Passes

\* The mutation budget and the case bits agree in every message of every
\* request, for any budget.
THEOREM MetaInvariant == Spec => []MetaAgrees
<1>0. MetaAgrees <=> \A m \in net : MetaFits(m)
  BY DEF MetaAgrees, MetaFits
<1>1. Init => MetaAgrees
  BY DEF Init, MetaAgrees
<1>2. TypeOK /\ MetaAgrees /\ [Next]_vars => MetaAgrees'
  <2> SUFFICES ASSUME TypeOK, \A m \in net : MetaFits(m), [Next]_vars
               PROVE  \A m \in net' : MetaFits(m)
    BY DEF MetaAgrees, MetaFits
  <2>1. CASE \E u \in Uav : \E k \in ReportKin(u) : Report(u, k)
    BY <2>1 DEF Report, MetaFits
  <2>2. CASE \E m \in net : Handle(m)
    BY <2>2, HandlerPosts, PassesKeepsMeta DEF Consume, TypeOK
  <2>3. CASE \E m \in net : Lose(m)
    BY <2>3 DEF Lose, Consume
  <2>4. CASE Tick
    BY <2>4 DEF Tick
  <2>5. CASE UNCHANGED vars
    BY <2>5 DEF vars
  <2> QED
    BY <2>1, <2>2, <2>3, <2>4, <2>5 DEF Next
<1> QED
  BY <1>1, <1>2, TypeInvariant, PTL DEF Spec

-----------------------------------------------------------------------------
(***************************************************************************)
(* Flags, marks and the clean re-check before a release                    *)
(***************************************************************************)

\* What each function relies on in the data it is sent.
TwoColliders(m) ==
    m.to = "mutate" => \E a, b \in FlaggedPositions(m.data) : a # b
OwnMark(m) ==
    m.origin = "system" /\ m.to # "update" =>
        \E i \in DOMAIN m.data : m.data[i].mut = m.id
CleanRelease(m) ==
    m.to = "release" => m.origin = "system" /\ Hits(m.data) = {}

DataFits(m) == TwoColliders(m) /\ OwnMark(m) /\ CleanRelease(m)

\* What the list of one release promises.
SeparatedList(cmds) ==
    \A a, b \in DOMAIN cmds : a # b => ~Conflict(cmds[a].kin, cmds[b].kin)
OwnList(r) == \E a \in DOMAIN r.cmds : r.cmds[a].mut = r.id

\* Detection flags two aircraft when it finds a conflict, and keeps the marks.
LEMMA DetectFlags ==
  ASSUME NEW data \in Seq(Traj)
  PROVE  /\ Hits(data) # {} =>
              \E a, b \in FlaggedPositions(DetectCollisions(data)) : a # b
         /\ DOMAIN DetectCollisions(data) = DOMAIN data
         /\ \A k \in DOMAIN data : DetectCollisions(data)[k].mut = data[k].mut
<1>1. \A k \in DOMAIN data : data[k] \in Traj /\ k \in Nat
  OBVIOUS
<1>2. DOMAIN DetectCollisions(data) = DOMAIN data
  BY DEF DetectCollisions
<1>3. ASSUME NEW k \in DOMAIN data
      PROVE  /\ DetectCollisions(data)[k].mut = data[k].mut
             /\ k \in FlaggedIn(Hits(data)) => DetectCollisions(data)[k].collision
  <2>1. DetectCollisions(data)[k] =
          [data[k] EXCEPT !.collision = data[k].collision \/ k \in FlaggedIn(Hits(data))]
    BY DEF DetectCollisions
  <2>2. data[k] \in Traj
    BY <1>1
  <2> QED
    BY <2>1, <2>2 DEF Traj
<1>4. ASSUME Hits(data) # {}
      PROVE  \E a, b \in FlaggedPositions(DetectCollisions(data)) : a # b
  <2>1. Hits(data) \subseteq Nat \X Nat /\ \A p \in Hits(data) : p[1] < p[2]
    BY <1>1 DEF Hits
  <2>2. PICK a \in FlaggedIn(Hits(data)), b \in FlaggedIn(Hits(data)) : a < b
    BY <1>4, <2>1, TwoFlagged
  <2>3. a \in DOMAIN data /\ b \in DOMAIN data
    BY DEF FlaggedIn, FirstHits, Hits
  <2>4. a # b
    BY <1>1, <2>2, <2>3
  <2>5. a \in FlaggedPositions(DetectCollisions(data))
    BY <1>2, <1>3, <2>3 DEF FlaggedPositions
  <2>6. b \in FlaggedPositions(DetectCollisions(data))
    BY <1>2, <1>3, <2>3 DEF FlaggedPositions
  <2> QED
    BY <2>4, <2>5, <2>6
<1> QED
  BY <1>2, <1>3, <1>4

\* Rewriting an item marks it, and clearing the flags keeps the marks.
LEMMA RewriteMarks ==
  ASSUME NEW data \in Seq(Traj), NEW v \in DOMAIN data, NEW k, NEW id
  PROVE  /\ v \in DOMAIN Rewrite(data, v, k, id)
         /\ Rewrite(data, v, k, id)[v].mut = id
         /\ v \in DOMAIN ClearFlags(Rewrite(data, v, k, id))
         /\ ClearFlags(Rewrite(data, v, k, id))[v].mut = id
<1> DEFINE d == Rewrite(data, v, k, id)
<1>1. data[v] \in Traj
  OBVIOUS
<1>2. d = [data EXCEPT ![v] = [data[v] EXCEPT !.kin = k, !.mut = id]]
  BY DEF Rewrite
<1>3. v \in DOMAIN d /\ d[v] = [data[v] EXCEPT !.kin = k, !.mut = id]
  BY <1>2
<1>4. d[v].mut = id
  BY <1>1, <1>3 DEF Traj
<1>5. v \in DOMAIN ClearFlags(d) /\ ClearFlags(d)[v] = [d[v] EXCEPT !.collision = FALSE]
  BY <1>3 DEF ClearFlags
<1>6. ClearFlags(d)[v].mut = id
  <2>1. d[v] = [data[v] EXCEPT !.kin = k, !.mut = id]
    BY <1>3
  <2>2. ClearFlags(d)[v] = [[data[v] EXCEPT !.kin = k, !.mut = id] EXCEPT !.collision = FALSE]
    BY <1>5, <2>1
  <2> QED
    BY <1>1, <2>2 DEF Traj
<1> QED
  BY <1>3, <1>4, <1>5, <1>6

\* After mutate, some item carries the request's own mark.
LEMMA MutationsMark ==
  ASSUME NEW m \in Message, m.to = "mutate", MetaFits(m), OwnMark(m),
         NEW data \in Mutations(m)
  PROVE  \E k \in DOMAIN data : data[k].mut = m.id
<1>1. m.data \in Seq(Traj) /\ m.cases \in {0, 1, 3, 7} /\ m.mutations \in Nat
  BY DEF Message, Cases
<1>2. \A v \in Victims(m.data) : v \in DOMAIN m.data
  BY DEF Victims, FlaggedPositions
<1>3. CASE m.cases = 0
  BY <1>1, <1>2, <1>3, RewriteMarks DEF Mutations
<1>4. CASE m.cases = 1
  <2>1. PICK v \in Victims(m.data) : \E k \in Turn(m.data[v].kin) :
          data = ClearFlags(Rewrite(m.data, v, k, m.id))
    BY <1>4 DEF Mutations
  <2>2. PICK k \in Turn(m.data[v].kin) : data = ClearFlags(Rewrite(m.data, v, k, m.id))
    BY <2>1
  <2> QED
    BY <1>1, <1>2, <2>2, RewriteMarks
<1>5. CASE m.cases = 3
  BY <1>1, <1>2, <1>5, RewriteMarks DEF Mutations
<1>6. CASE m.cases = 7
  <2>1. data = m.data
    BY <1>6 DEF Mutations
  <2>2. m.mutations > 0
    BY <1>1, <1>6 DEF MetaFits
  <2> QED
    BY <2>1, <2>2 DEF MetaFits, OwnMark
<1> QED
  BY <1>1, <1>3, <1>4, <1>5, <1>6

\* No mutated item is left out of the released list.
LEMMA MutatedDataAll ==
  ASSUME NEW data \in Seq(Traj), NEW cmds \in MutatedData(data),
         NEW i \in MutatedPositions(data)
  PROVE  \E a \in DOMAIN cmds : cmds[a] = data[i]
<1> DEFINE M == MutatedPositions(data)
<1>1. PICK pos \in [DOMAIN cmds -> M] :
        /\ \A a \in DOMAIN cmds : cmds[a] = data[pos[a]]
        /\ \A a, b \in DOMAIN cmds : a # b => pos[a] # pos[b]
  BY MutatedDataItems
<1>2. DOMAIN cmds = 1 .. Cardinality(M)
  BY MutatedDataItems
<1>3. IsFiniteSet(M)
  <2>1. Len(data) \in Nat /\ M \subseteq 1 .. Len(data)
    BY DEF MutatedPositions
  <2>2. IsFiniteSet(1 .. Len(data))
    BY <2>1, FS_Interval
  <2> QED
    BY <2>1, <2>2, FS_Subset
<1>4. Cardinality(M) \in Nat
  BY <1>3, FS_CardinalityType
<1>5. Cardinality(DOMAIN cmds) = Cardinality(M)
  BY <1>2, <1>4, FS_Interval
<1>6. pos \in Injection(DOMAIN cmds, M)
  BY <1>1 DEF Injection, IsInjective
<1>7. pos \in Surjection(DOMAIN cmds, M)
  BY <1>3, <1>5, <1>6, FS_Injection
<1>8. PICK a \in DOMAIN cmds : pos[a] = i
  BY <1>7 DEF Surjection
<1> QED
  BY <1>1, <1>8

\* Two different items of a list without hits are in no conflict.
LEMMA CleanList ==
  ASSUME NEW data \in Seq(Traj), Hits(data) = {},
         NEW i \in DOMAIN data, NEW j \in DOMAIN data, i # j
  PROVE  ~Conflict(data[i].kin, data[j].kin)
<1>1. data[i].kin \in Kin /\ data[j].kin \in Kin
  <2>1. data[i] \in Traj /\ data[j] \in Traj
    OBVIOUS
  <2> QED
    BY <2>1 DEF Traj
<1>2. Conflict(data[i].kin, data[j].kin) => Conflict(data[j].kin, data[i].kin)
  BY <1>1, ConflictAssumption
<1>3. i < j \/ j < i
  <2>1. i \in Nat /\ j \in Nat
    OBVIOUS
  <2> QED
    BY <2>1
<1>4. i < j => ~Conflict(data[i].kin, data[j].kin)
  <2>1. i < j /\ Conflict(data[i].kin, data[j].kin) => <<i, j>> \in Hits(data)
    BY DEF Hits
  <2> QED
    BY <2>1
<1>5. j < i => ~Conflict(data[j].kin, data[i].kin)
  <2>1. j < i /\ Conflict(data[j].kin, data[i].kin) => <<j, i>> \in Hits(data)
    BY DEF Hits
  <2> QED
    BY <2>1
<1> QED
  BY <1>2, <1>3, <1>4, <1>5

\* The released list is separated if its snapshot is free of conflicts, and
\* carries the request's own mark if its snapshot does.
LEMMA ReleasedList ==
  ASSUME NEW m \in Message, m.to = "release", DataFits(m),
         NEW cmds \in MutatedData(m.data)
  PROVE  SeparatedList(cmds) /\ \E a \in DOMAIN cmds : cmds[a].mut = m.id
<1> DEFINE M == MutatedPositions(m.data)
<1>1. m.data \in Seq(Traj) /\ m.id \in Request
  BY DEF Message
<1>2. PICK pos \in [DOMAIN cmds -> M] :
        /\ \A a \in DOMAIN cmds : cmds[a] = m.data[pos[a]]
        /\ \A a, b \in DOMAIN cmds : a # b => pos[a] # pos[b]
  BY <1>1, MutatedDataItems
<1>3. SeparatedList(cmds)
  <2> SUFFICES ASSUME NEW a \in DOMAIN cmds, NEW b \in DOMAIN cmds, a # b
               PROVE  ~Conflict(cmds[a].kin, cmds[b].kin)
    BY DEF SeparatedList
  <2>1. /\ pos[a] \in DOMAIN m.data /\ cmds[a] = m.data[pos[a]]
        /\ pos[b] \in DOMAIN m.data /\ cmds[b] = m.data[pos[b]]
        /\ pos[a] # pos[b]
    BY <1>2 DEF MutatedPositions
  <2>2. Hits(m.data) = {}
    BY DEF DataFits, CleanRelease
  <2> QED
    BY <1>1, <2>1, <2>2, CleanList
<1>4. \E a \in DOMAIN cmds : cmds[a].mut = m.id
  <2>1. PICK i \in DOMAIN m.data : m.data[i].mut = m.id
    BY DEF DataFits, CleanRelease, OwnMark
  <2>2. i \in M
    BY <1>1, <2>1 DEF Request, MutatedPositions
  <2> QED
    BY <1>1, <2>1, <2>2, MutatedDataAll
<1> QED
  BY <1>3, <1>4

\* Every handler sends on data that fits, and hands over only lists that keep
\* the promises of a release.
LEMMA HandlerData ==
  ASSUME TypeOK, NEW m \in net, Handle(m), MetaFits(m), DataFits(m)
  PROVE  /\ \/ Consume(m, {})
            \/ \E p : Consume(m, {p}) /\ DataFits(p)
         /\ \/ released' = released
            \/ \E new \in Handover :
                         /\ released' = Append(released, new)
                         /\ SeparatedList(new.cmds)
                         /\ OwnList(new)
<1>0. m \in Message /\ m.data \in Seq(Traj)
  BY DEF TypeOK, Message
<1>1. CASE HandleUpdate(m)
  <2>1. ASSUME m.origin = "self_report"
        PROVE  DataFits([m EXCEPT !.to = "trigger", !.data = <<>>])
    BY <1>0, <2>1 DEF DataFits, TwoColliders, OwnMark, CleanRelease, Message
  <2> QED
    BY <1>1, <2>1 DEF HandleUpdate, PostTrigger
<1>2. CASE HandleTrigger(m)
  <2>1. CASE Consume(m, {})
    BY <1>2, <2>1 DEF HandleTrigger
  <2>2. CASE m.origin = "self_report"
             /\ \E s \in Snapshots :
                   Consume(m, {[m EXCEPT !.to = "collisiondetector", !.data = s]})
    <3>1. PICK s \in Snapshots :
            Consume(m, {[m EXCEPT !.to = "collisiondetector", !.data = s]})
      BY <2>2
    <3>2. DataFits([m EXCEPT !.to = "collisiondetector", !.data = s])
      BY <1>0, <2>2 DEF DataFits, TwoColliders, OwnMark, CleanRelease, Message
    <3> QED
      BY <1>2, <3>1, <3>2 DEF HandleTrigger
  <2> QED
    BY <1>2, <2>1, <2>2 DEF HandleTrigger
<1>3. CASE HandleDetector(m)
  <2>1. released' = released
    BY <1>3 DEF HandleDetector, PostMutate, PostRelease
  <2>2. CASE Hits(m.data) # {}
    <3> DEFINE p == [m EXCEPT !.to = "mutate", !.data = DetectCollisions(m.data)]
    <3>1. Consume(m, {p})
      BY <1>3, <2>2 DEF HandleDetector, PostMutate, PostRelease
    <3>2. p.to = "mutate" /\ p.data = DetectCollisions(m.data)
          /\ p.origin = m.origin /\ p.id = m.id
      BY <1>0 DEF Message
    <3>3. OwnMark(p)
      <4>1. m.to # "update"
        BY <1>3 DEF HandleDetector, PostMutate, PostRelease
      <4> HIDE DEF p
      <4> QED
        BY <1>0, <3>2, <4>1, DetectFlags DEF DataFits, OwnMark
    <3>4. TwoColliders(p) /\ CleanRelease(p)
      <4> HIDE DEF p
      <4> QED
        BY <1>0, <2>2, <3>2, DetectFlags DEF TwoColliders, CleanRelease
    <3> HIDE DEF p
    <3> QED
      BY <2>1, <3>1, <3>3, <3>4 DEF DataFits
  <2>3. CASE Hits(m.data) = {} /\ m.origin = "system"
    <3> DEFINE p == [m EXCEPT !.to = "release"]
    <3>1. Consume(m, {p})
      BY <1>3, <2>3, <1>0 DEF HandleDetector, PostMutate, PostRelease
    <3>2. p.to = "release" /\ p.data = m.data /\ p.origin = m.origin /\ p.id = m.id
      BY <1>0 DEF Message
    <3>3. DataFits(p)
      <4>1. m.to # "update"
        BY <1>3 DEF HandleDetector, PostMutate, PostRelease
      <4> HIDE DEF p
      <4> QED
        BY <2>3, <3>2, <4>1 DEF DataFits, TwoColliders, OwnMark, CleanRelease
    <3> QED
      BY <2>1, <3>1, <3>3
  <2>4. CASE Hits(m.data) = {} /\ m.origin = "self_report"
    BY <1>3, <2>1, <2>4 DEF HandleDetector, PostMutate, PostRelease
  <2>5. m.origin \in {"self_report", "system"}
    BY <1>0 DEF Message
  <2> QED
    BY <2>2, <2>3, <2>4, <2>5
<1>4. CASE HandleMutate(m)
  <2>1. released' = released
    BY <1>4 DEF HandleMutate
  <2>2. CASE Refused(m)
    BY <1>4, <2>1, <2>2 DEF HandleMutate
  <2>3. CASE ~Refused(m)
    <3> DEFINE n == m.mutations + 1
               c == NextCases(m.cases)
    <3>1. PICK data \in Mutations(m) :
            Consume(m, {[m EXCEPT !.to = "collisiondetector", !.origin = "system",
                                  !.mutations = n, !.cases = c, !.data = data]})
      BY <1>4, <2>3 DEF HandleMutate
    <3>2. \E k \in DOMAIN data : data[k].mut = m.id
      BY <1>0, <1>4, MutationsMark DEF HandleMutate, DataFits
    <3>3. ASSUME NEW q, q = [m EXCEPT !.to = "collisiondetector", !.origin = "system",
                                      !.mutations = n, !.cases = c, !.data = data]
          PROVE  DataFits(q)
      <4>1. q.to = "collisiondetector" /\ q.data = data /\ q.id = m.id
        <5> HIDE DEF n, c
        <5> QED
          BY <1>0, <3>3 DEF Message
      <4> QED
        BY <3>2, <4>1 DEF DataFits, TwoColliders, OwnMark, CleanRelease
    <3> QED
      BY <2>1, <3>1, <3>3
  <2> QED
    BY <2>2, <2>3
<1>5. CASE HandleRelease(m)
  <2>1. PICK cmds \in MutatedData(m.data) :
          /\ HandOver(m.id, cmds)
          /\ Consume(m, {[m EXCEPT !.to = "update", !.data = cmds]})
    BY <1>5 DEF HandleRelease, PostUpdate
  <2>2. DataFits([m EXCEPT !.to = "update", !.data = cmds])
    BY <1>0 DEF DataFits, TwoColliders, OwnMark, CleanRelease, Message
  <2>3. SeparatedList(cmds) /\ \E a \in DOMAIN cmds : cmds[a].mut = m.id
    BY <1>0, <1>5, ReleasedList DEF HandleRelease, PostUpdate
  <2>4. cmds \in Seq(Traj) /\ m.id \in Request
    BY <1>0, MutatedDataItems DEF Message
  <2>5. PICK new \in Handover :
          new.id = m.id /\ new.cmds = cmds /\ released' = Append(released, new)
    BY <2>1, <2>4, HandedOver DEF TypeOK
  <2>6. SeparatedList(new.cmds) /\ OwnList(new)
    BY <2>3, <2>5 DEF OwnList
  <2> QED
    BY <2>1, <2>2, <2>5, <2>6
<1> QED
  BY <1>1, <1>2, <1>3, <1>4, <1>5 DEF Handle

ReleasedFit ==
    \A r \in 1 .. Len(released) :
        SeparatedList(released[r].cmds) /\ OwnList(released[r])

\* The inductive invariant behind the three theorems below.
LEMMA DataInvariant == Spec => []((\A m \in net : DataFits(m)) /\ ReleasedFit)
<1> DEFINE Inv == (\A m \in net : DataFits(m)) /\ ReleasedFit
<1>1. Init => Inv
  BY DEF Init, ReleasedFit
<1>2. TypeOK /\ MetaAgrees /\ Inv /\ [Next]_vars => Inv'
  <2> SUFFICES ASSUME TypeOK, MetaAgrees, Inv, [Next]_vars
               PROVE  (\A m \in net' : DataFits(m)) /\ ReleasedFit'
    OBVIOUS
  <2>0. \A m \in net : MetaFits(m)
    BY DEF MetaAgrees, MetaFits
  <2>1. CASE \E u \in Uav : \E k \in ReportKin(u) : Report(u, k)
    <3>1. ReleasedFit'
      BY <2>1 DEF Report, ReleasedFit
    <3>2. PICK u \in Uav, k \in Kin : Report(u, k)
      BY <2>1, KinAssumption
    <3> DEFINE post == [to |-> "update", id |-> Len(reported) + 1,
                        origin |-> "self_report", mutations |-> 0, cases |-> 0,
                        data |-> <<[uav |-> u, kin |-> k, collision |-> FALSE, mut |-> 0]>>]
    <3>3. net' = net \union {post}
      BY <3>2 DEF Report
    <3>4. post.to = "update"
      OBVIOUS
    <3> HIDE DEF post
    <3>5. DataFits(post)
      BY <3>4 DEF DataFits, TwoColliders, OwnMark, CleanRelease
    <3>6. \A m \in net' : DataFits(m)
      BY <3>3, <3>5
    <3> QED
      BY <3>1, <3>6
  <2>2. CASE \E m \in net : Handle(m)
    <3>1. PICK m \in net : Handle(m)
      BY <2>2
    <3>2. \A p \in net' : DataFits(p)
      <4>1. MetaFits(m) /\ \A p \in net : DataFits(p)
        BY <2>0
      <4>2. Consume(m, {}) \/ \E p : Consume(m, {p}) /\ DataFits(p)
        BY <3>1, <4>1, HandlerData
      <4> QED
        BY <4>1, <4>2 DEF Consume
    <3>3. CASE released' = released
      BY <3>2, <3>3 DEF ReleasedFit
    <3>4. CASE \E new \in Handover :
                 /\ released' = Append(released, new)
                 /\ SeparatedList(new.cmds)
                 /\ OwnList(new)
      <4>2. PICK new \in Handover :
                 SeparatedList(new.cmds) /\ OwnList(new) /\ released' = Append(released, new)
        BY <3>4
      <4>4. /\ Len(released') = Len(released) + 1 /\ Len(released) \in Nat
            /\ \A r \in 1 .. Len(released) : released'[r] = released[r]
            /\ released'[Len(released) + 1] = new
        BY <4>2 DEF TypeOK
      <4>5. \A r \in 1 .. Len(released') :
              SeparatedList(released'[r].cmds) /\ OwnList(released'[r])
        BY <4>2, <4>4 DEF ReleasedFit
      <4> QED
        BY <3>2, <4>5 DEF ReleasedFit
    <3> QED
      BY <2>0, <3>1, <3>2, <3>3, <3>4, HandlerData
  <2>3. CASE \E m \in net : Lose(m)
    BY <2>3 DEF Lose, Consume, ReleasedFit
  <2>4. CASE Tick
    BY <2>4 DEF Tick, ReleasedFit
  <2>5. CASE UNCHANGED vars
    BY <2>5 DEF vars, ReleasedFit
  <2> QED
    BY <2>1, <2>2, <2>3, <2>4, <2>5 DEF Next
<1> QED
  BY <1>1, <1>2, TypeInvariant, MetaInvariant, PTL DEF Spec

\* No two commands of one release put their UAVs in conflict, for any number of
\* UAVs and any conflict relation that is symmetric.
THEOREM ReleasesAreSeparated == Spec => []ReleasedSeparated
<1>1. ReleasedFit => ReleasedSeparated
  BY DEF ReleasedFit, SeparatedList, ReleasedSeparated
<1> QED
  BY <1>1, DataInvariant, PTL

\* Every release carries a command of its own request.
THEOREM ReleasesOwnCommand == Spec => []OwnCommandReleased
<1>1. ReleasedFit => OwnCommandReleased
  BY DEF ReleasedFit, OwnList, OwnCommandReleased
<1> QED
  BY <1>1, DataInvariant, PTL

\* The error returns of mutate are unreachable: only the budget refuses.
THEOREM ErrorReturnsUnreachable == Spec => []OnlyBudgetRefuses
<1>1. TypeOK /\ MetaAgrees /\ (\A m \in net : DataFits(m)) => OnlyBudgetRefuses
  <2> SUFFICES ASSUME TypeOK, MetaAgrees, \A m \in net : DataFits(m),
                      NEW m \in net, m.to = "mutate", Refused(m)
               PROVE  m.mutations > MaxMutations
    BY DEF OnlyBudgetRefuses
  <2> DEFINE F == FlaggedPositions(m.data)
  <2>1. m \in Message /\ m.data \in Seq(Traj) /\ m.mutations \in Nat
    BY DEF TypeOK, Message
  <2>2. PICK a \in F, b \in F : a # b
    BY DEF DataFits, TwoColliders
  <2>3. IsFiniteSet(F)
    <3>1. DOMAIN m.data = 1 .. Len(m.data) /\ Len(m.data) \in Nat
      BY <2>1
    <3>2. IsFiniteSet(1 .. Len(m.data))
      BY <3>1, FS_Interval
    <3>3. F \subseteq 1 .. Len(m.data)
      BY <3>1 DEF FlaggedPositions
    <3> QED
      BY <3>2, <3>3, FS_Subset
  <2>4. Cardinality(F) \in Nat /\ Cardinality(F) # 0 /\ Cardinality(F) # 1
    <3> HIDE DEF F
    <3>1. Cardinality(F) \in Nat
      BY <2>3, FS_CardinalityType
    <3>2. Cardinality(F) # 0
      BY <2>2, <2>3, FS_EmptySet
    <3>3. Cardinality(F) # 1
      BY <2>2, <2>3, FS_Singleton
    <3> QED
      BY <3>1, <3>2, <3>3
  <2>5. ~(Cardinality(F) <= 1) /\ F # {}
    <3> HIDE DEF F
    <3> QED
      BY <2>2, <2>4
  <2>6. (m.origin = "system") = (m.mutations > 0)
    BY DEF MetaAgrees
  <2> QED
    BY <2>1, <2>5, <2>6 DEF Refused
<1> QED
  BY <1>1, TypeInvariant, MetaInvariant, DataInvariant, PTL

(***************************************************************************)
(* What the database holds                                                 *)
(***************************************************************************)

Reports(t) == t.mut = 0 /\ ~t.collision /\ t.kin \in ReportKin(t.uav)

HandedOn(t) ==
    \E r \in 1 .. Len(released) : \E a \in DOMAIN released[r].cmds : released[r].cmds[a] = t

Known(t) == Reports(t) \/ HandedOn(t)

\* What is stored, and what is on its way to be, is known.
ProvInv ==
    /\ \A d \in db : Known(d.traj)
    /\ \A m \in net : m.to = "update" => \A k \in DOMAIN m.data : Known(m.data[k])

\* What was handed over stays in the lists.
LEMMA KnownStays ==
  ASSUME TypeOK, TypeOK', NEW t, Known(t),
         \/ released' = released
         \/ \E x \in Handover : released' = Append(released, x)
  PROVE  Known(t)'
<1>1. CASE released' = released
  BY <1>1 DEF Known, Reports, HandedOn
<1>2. CASE \E x \in Handover : released' = Append(released, x)
  <2>1. PICK x \in Handover : released' = Append(released, x)
    BY <1>2
  <2>2. /\ Len(released') = Len(released) + 1 /\ Len(released) \in Nat
        /\ \A r \in 1 .. Len(released) : released'[r] = released[r]
    BY <2>1 DEF TypeOK
  <2>3. HandedOn(t) => HandedOn(t)'
    BY <2>2 DEF HandedOn
  <2> QED
    BY <2>3 DEF Known, Reports
<1> QED
  BY <1>1, <1>2

\* Every handler posts to update only what it has just handed over.
LEMMA HandlerProv ==
  ASSUME TypeOK, TypeOK', ProvInv, NEW m \in net, Handle(m)
  PROVE  ProvInv'
<1>0. m \in Message /\ m.data \in Seq(Traj) /\ m.id \in Request
  BY DEF TypeOK, Message
<1>1. CASE HandleUpdate(m)
  <2>1. released' = released
    BY <1>1 DEF HandleUpdate
  <2>2. \A t : Known(t) => Known(t)'
    BY <2>1 DEF Known, Reports, HandedOn
  <2>3. \A d \in db' : Known(d.traj)
    <3>1. PICK n \in 0 .. Len(m.data) :
            db' = db \union {[traj |-> m.data[k], created |-> now] : k \in 1 .. n}
      BY <1>1 DEF HandleUpdate, StoreUpdate
    <3>2. \A k \in 1 .. n : Known(m.data[k])
      BY <1>0, <1>1 DEF HandleUpdate, ProvInv
    <3> QED
      BY <3>1, <3>2 DEF ProvInv
  <2>4. \A p \in net' : p \in net \/ p.to # "update"
    BY <1>0, <1>1 DEF HandleUpdate, PostTrigger, Consume, Message
  <2> QED
    BY <2>2, <2>3, <2>4 DEF ProvInv
<1>2. CASE HandleTrigger(m) \/ HandleDetector(m) \/ HandleMutate(m)
  <2>1. released' = released /\ db' = db
    BY <1>2 DEF HandleTrigger, HandleDetector, HandleMutate
  <2>2. \A t : Known(t) => Known(t)'
    BY <2>1 DEF Known, Reports, HandedOn
  <2>3. CASE HandleTrigger(m)
    <3>1. \A p \in net' : p \in net \/ p.to # "update"
      BY <1>0, <2>3 DEF HandleTrigger, Consume, Message
    <3> QED
      BY <2>1, <2>2, <3>1 DEF ProvInv
  <2>4. CASE HandleDetector(m)
    <3>1. \A p \in net' : p \in net \/ p.to # "update"
      BY <1>0, <2>4 DEF HandleDetector, PostMutate, PostRelease, Consume, Message
    <3> QED
      BY <2>1, <2>2, <3>1 DEF ProvInv
  <2>5. CASE HandleMutate(m)
    <3>1. \A p \in net' : p \in net \/ p.to # "update"
      BY <1>0, <2>5 DEF HandleMutate, Consume, Message
    <3> QED
      BY <2>1, <2>2, <3>1 DEF ProvInv
  <2> QED
    BY <1>2, <2>3, <2>4, <2>5
<1>3. CASE HandleRelease(m)
  <2>1. PICK cmds \in MutatedData(m.data) :
          /\ HandOver(m.id, cmds)
          /\ Consume(m, {PostUpdate(m, cmds)})
          /\ db' = db
    BY <1>3 DEF HandleRelease
  <2>2. cmds \in Seq(Traj)
    BY <1>0, MutatedDataItems
  <2>3. PICK new \in Handover :
          /\ new.cmds = cmds
          /\ released' = Append(released, new)
          /\ Len(released') = Len(released) + 1 /\ Len(released) \in Nat
          /\ released'[Len(released) + 1] = new
    BY <1>0, <2>1, <2>2, HandedOver DEF TypeOK
  <2>5. \A t : Known(t) => Known(t)'
    BY <2>3, KnownStays
  <2>6. \A a \in DOMAIN cmds : HandedOn(cmds[a])'
    BY <2>3 DEF HandedOn
  <2>7. \A p \in net' : p \in net \/ p.data = cmds
    BY <1>0, <2>1 DEF Consume, PostUpdate, Message
  <2> QED
    BY <2>1, <2>5, <2>6, <2>7 DEF ProvInv, Known
<1> QED
  BY <1>1, <1>2, <1>3 DEF Handle

\* Whatever is lost or overtakes, and although an insert or the publish of a
\* release fails, the database holds only reports and commands that release
\* handed over, published or not: what a request tried out on its way never
\* gets there.
THEOREM StoredProvenance == Spec => []DatabaseProvenance
<1>1. Init => ProvInv
  BY DEF Init, ProvInv
<1>2. TypeOK /\ TypeOK' /\ ProvInv /\ [Next]_vars => ProvInv'
  <2> SUFFICES ASSUME TypeOK, TypeOK', ProvInv, [Next]_vars
               PROVE  ProvInv'
    OBVIOUS
  <2>1. ASSUME NEW u \in Uav, NEW k \in ReportKin(u), Report(u, k)
        PROVE  ProvInv'
    <3> DEFINE data == <<[uav |-> u, kin |-> k, collision |-> FALSE, mut |-> 0]>>
    <3>1. released' = released /\ db' = db
      BY <2>1 DEF Report
    <3>2. \A t : Known(t) => Known(t)'
      BY <3>1 DEF Known, Reports, HandedOn
    <3> DEFINE post == [to |-> "update", id |-> Len(reported) + 1,
                        origin |-> "self_report", mutations |-> 0, cases |-> 0,
                        data |-> data]
    <3>3. \A p \in net' : p \in net \/ p.data = data
      <4>1. net' = net \union {post}
        BY <2>1 DEF Report
      <4>2. post.data = data
        OBVIOUS
      <4> HIDE DEF post
      <4> QED
        BY <4>1, <4>2
    <3>4. \A i \in DOMAIN data : Reports(data[i])
      BY DEF Reports
    <3> HIDE DEF data
    <3>5. \A i \in DOMAIN data : Known(data[i])'
      BY <3>2, <3>4 DEF Known
    <3> QED
      BY <3>1, <3>2, <3>3, <3>5 DEF ProvInv
  <2>2. ASSUME NEW m \in net, Lose(m)
        PROVE  ProvInv'
    BY <2>2 DEF Lose, Consume, ProvInv, Known, Reports, HandedOn
  <2>3. CASE Tick
    BY <2>3 DEF Tick, ProvInv, Known, Reports, HandedOn
  <2>4. CASE UNCHANGED vars
    BY <2>4 DEF vars, ProvInv, Known, Reports, HandedOn
  <2> QED
    BY <2>1, <2>2, <2>3, <2>4, HandlerProv DEF Next
<1>3. ProvInv => DatabaseProvenance
  BY DEF ProvInv, DatabaseProvenance, Known, Reports, HandedOn
<1> QED
  BY <1>1, <1>2, <1>3, TypeInvariant, PTL DEF Spec

-----------------------------------------------------------------------------
(***************************************************************************)
(* The chain implements RequestLife                                        *)
(***************************************************************************)

\* What the mapping to RequestLife rests on: ids belong to reports, and what a
\* released request still has in flight is its post to update.
LifeInv ==
    /\ IdsInUse
    /\ \A r \in 1 .. Len(released) : released[r].id <= Len(reported)
    /\ \A m \in net : IsReleased(m.id) => m.to = "update" /\ m.origin = "system"

\* A handler other than release's leaves the releases alone.
LEMMA OnlyReleaseReleases ==
  ASSUME NEW m, Handle(m), ~HandleRelease(m)
  PROVE  released' = released
BY DEF Handle, HandleUpdate, HandleTrigger, HandleDetector, HandleMutate

\* Release adds its request, or, when publish fails, none to the released ones.
LEMMA ReleaseAdds ==
  ASSUME TypeOK, NEW m \in net, HandleRelease(m)
  PROVE  /\ Len(released') = Len(released) + 1 /\ Len(released) \in Nat
         /\ \A r \in 1 .. Len(released) : released'[r] = released[r]
         /\ released'[Len(released) + 1].id = m.id
         /\ \/ \A id : IsReleased(id)' <=> IsReleased(id) \/ id = m.id
            \/ \A id : IsReleased(id)' <=> IsReleased(id)
<1>1. PICK cmds \in MutatedData(m.data) : HandOver(m.id, cmds)
  BY DEF HandleRelease
<1>2. m.data \in Seq(Traj) /\ m.id \in Request
  BY DEF TypeOK, Message
<1>3. cmds \in Seq(Traj)
  BY <1>2, MutatedDataItems
<1>4. PICK new \in Handover :
        /\ new.id = m.id
        /\ Len(released') = Len(released) + 1 /\ Len(released) \in Nat
        /\ \A r \in 1 .. Len(released) : released'[r] = released[r]
        /\ released'[Len(released) + 1] = new
  BY <1>1, <1>2, <1>3, HandedOver DEF TypeOK
<1>5. CASE new.published
  <2>1. \A id : IsReleased(id)' <=> IsReleased(id) \/ id = m.id
    BY <1>4, <1>5 DEF IsReleased
  <2> QED
    BY <1>4, <2>1
<1>6. CASE ~new.published
  <2>1. \A id : IsReleased(id)' <=> IsReleased(id)
    BY <1>4, <1>6 DEF IsReleased
  <2> QED
    BY <1>4, <2>1
<1> QED
  BY <1>5, <1>6

\* No step of another request, and no handler but release, adds to the releases;
\* what release posts is the last post of its request.
LEMMA LifeInvariant == Spec => []LifeInv
<1>1. Init => LifeInv
  BY DEF Init, LifeInv, IdsInUse
<1> DEFINE Clean == \A m \in net : m.to = "release" => m.origin = "system"
<1>2. TypeOK /\ OnePostPerRequest /\ Clean /\ LifeInv /\ [Next]_vars => LifeInv'
  <2> SUFFICES ASSUME TypeOK, OnePostPerRequest, Clean, LifeInv, [Next]_vars
               PROVE  LifeInv'
    OBVIOUS
  <2>1. ASSUME NEW u \in Uav, NEW k \in ReportKin(u), Report(u, k)
        PROVE  LifeInv'
    <3> DEFINE data == <<[uav |-> u, kin |-> k, collision |-> FALSE, mut |-> 0]>>
               post == [to |-> "update", id |-> Len(reported) + 1, origin |-> "self_report",
                        mutations |-> 0, cases |-> 0, data |-> data]
    <3>1. net' = net \union {post} /\ reported' = Append(reported, u) /\ released' = released
      BY <2>1 DEF Report
    <3>2. Len(reported) \in Nat /\ Len(reported') = Len(reported) + 1
      BY <3>1 DEF TypeOK
    <3>3. post.id = Len(reported) + 1
      OBVIOUS
    <3> HIDE DEF post
    <3>4. \A r \in 1 .. Len(released) : released[r].id \in Nat /\ released[r].id <= Len(reported)
      <4>1. ASSUME NEW r \in 1 .. Len(released) PROVE released[r].id \in Nat
        <5>1. released \in Seq(Handover)
          BY DEF TypeOK
        <5>2. released[r] \in Handover
          BY <5>1, ElementOfSeq
        <5> QED
          BY <5>2 DEF Handover, Request
      <4> QED
        BY <4>1 DEF LifeInv
    <3>5. \A m \in net : m.id \in Nat /\ m.id <= Len(reported)
      BY DEF TypeOK, Message, Request, LifeInv, IdsInUse
    <3>6. \A m \in net' : m.id <= Len(reported')
      BY <3>1, <3>2, <3>3, <3>5
    <3>7. \A r \in 1 .. Len(released') : released'[r].id <= Len(reported')
      BY <3>1, <3>2, <3>4
    <3>8. \A id : IsReleased(id)' <=> IsReleased(id)
      BY <3>1 DEF IsReleased
    <3>9. ~IsReleased(post.id)
      BY <3>2, <3>3, <3>4 DEF IsReleased
    <3> QED
      BY <3>1, <3>6, <3>7, <3>8, <3>9 DEF LifeInv, IdsInUse
  <2>2. ASSUME NEW m \in net, Handle(m)
        PROVE  LifeInv'
    <3>1. reported' = reported
          /\ (Consume(m, {}) \/ \E p : Consume(m, {p}) /\ Passes(m, p))
      BY <2>2, HandlerPosts
    <3>2. IdsInUse'
      BY <3>1 DEF Consume, Passes, LifeInv, IdsInUse
    <3>3. m \in Message /\ m.id <= Len(reported) /\ Len(reported) \in Nat
      BY DEF TypeOK, LifeInv, IdsInUse
    <3>4. CASE HandleRelease(m)
      <4>1. \A r \in 1 .. Len(released') : released'[r].id <= Len(reported')
        BY <3>1, <3>3, <3>4, ReleaseAdds DEF LifeInv
      <4>2. m.to = "release" /\ \E cmds : Consume(m, {PostUpdate(m, cmds)})
        BY <3>4 DEF HandleRelease
      <4>3. ASSUME NEW p \in net', IsReleased(p.id)'
            PROVE  p.to = "update" /\ p.origin = "system"
        <5>1. IsReleased(p.id) \/ p.id = m.id
          BY <3>4, <4>3, ReleaseAdds
        <5>2. CASE p \in net \ {m}
          BY <5>1, <5>2 DEF LifeInv, OnePostPerRequest
        <5>3. CASE p \notin net \ {m}
          <6>1. PICK cmds : p = PostUpdate(m, cmds)
            BY <4>2, <5>3 DEF Consume
          <6> QED
            BY <3>3, <4>2, <6>1 DEF PostUpdate, Message
        <5> QED
          BY <5>2, <5>3
      <4> QED
        BY <3>2, <4>1, <4>3 DEF LifeInv
    <3>5. CASE ~HandleRelease(m)
      <4>1. released' = released
        BY <2>2, <3>5, OnlyReleaseReleases
      <4>2. \A id : IsReleased(id)' <=> IsReleased(id)
        BY <4>1 DEF IsReleased
      <4>3. ASSUME NEW p \in net', IsReleased(p.id)
            PROVE  p \in net
        <5>1. CASE IsReleased(m.id)
          <6>1. m.to = "update" /\ m.origin = "system"
            BY <5>1 DEF LifeInv
          <6>2. Consume(m, {})
            BY <2>2, <6>1 DEF Handle, HandleUpdate, HandleTrigger, HandleDetector,
                              HandleMutate, HandleRelease
          <6> QED
            BY <6>2 DEF Consume
        <5>2. CASE ~IsReleased(m.id)
          BY <3>1, <4>3, <5>2 DEF Consume, Passes
        <5> QED
          BY <5>1, <5>2
      <4> QED
        BY <3>1, <3>2, <4>1, <4>2, <4>3 DEF LifeInv
    <3> QED
      BY <3>4, <3>5
  <2>3. ASSUME NEW m \in net, Lose(m)
        PROVE  LifeInv'
    BY <2>3 DEF Lose, Consume, LifeInv, IdsInUse, IsReleased
  <2>4. CASE Tick
    BY <2>4 DEF Tick, LifeInv, IdsInUse, IsReleased
  <2>5. CASE UNCHANGED vars
    BY <2>5 DEF vars, LifeInv, IdsInUse, IsReleased
  <2> QED
    BY <2>1, <2>2, <2>3, <2>4, <2>5 DEF Next
<1>3. (\A m \in net : DataFits(m)) /\ ReleasedFit => Clean
  BY DEF DataFits, CleanRelease
<1> QED
  BY <1>1, <1>2, <1>3, TypeInvariant, NoFork, DataInvariant, PTL DEF Spec

\* How RequestLife sees the request of a post in flight.
LEMMA PhaseInFlight ==
  ASSUME TypeOK, OnePostPerRequest, LifeInv, NEW m \in net
  PROVE  /\ PhaseOf(m.id) = IF IsReleased(m.id) THEN "released" ELSE "checking"
         /\ RoundsOf(m.id) = IF IsReleased(m.id) THEN 0 ELSE m.mutations
<1>1. PostsOf(m.id) = {m}
  BY DEF PostsOf, OnePostPerRequest
<1>2. m.id \in Nat /\ m.id <= Len(reported) /\ Len(reported) \in Nat
  BY DEF TypeOK, Message, Request, LifeInv, IdsInUse
<1>3. PhaseOf(m.id) = IF IsReleased(m.id) THEN "released" ELSE "checking"
  BY <1>1, <1>2 DEF PhaseOf
<1>4. (CHOOSE x \in PostsOf(m.id) : TRUE) = m
  BY <1>1
<1>5. RoundsOf(m.id) =
        IF PhaseOf(m.id) = "checking" THEN (CHOOSE x \in PostsOf(m.id) : TRUE).mutations ELSE 0
  BY DEF RoundsOf
<1> QED
  BY <1>3, <1>4, <1>5

\* A request that the step leaves alone keeps its phase and its rounds.
LEMMA PhaseKept ==
  ASSUME NEW id, PostsOf(id)' = PostsOf(id), IsReleased(id)' <=> IsReleased(id),
         (id > Len(reported))' <=> id > Len(reported)
  PROVE  PhaseOf(id)' = PhaseOf(id) /\ RoundsOf(id)' = RoundsOf(id)
<1>1. PhaseOf(id)' = PhaseOf(id)
  BY DEF PhaseOf
<1>2. (CHOOSE x \in PostsOf(id) : TRUE)' = (CHOOSE x \in PostsOf(id) : TRUE)
  OBVIOUS
<1> QED
  BY <1>1, <1>2 DEF RoundsOf

\* The step of one request, the others keeping theirs, is one of RequestLife.
LEMMA LifeStep ==
  ASSUME NEW i \in Request,
         \A j \in Request : j # i => PhaseOf(j)' = PhaseOf(j) /\ RoundsOf(j)' = RoundsOf(j),
         \/ PhaseOf(i)' = PhaseOf(i) /\ RoundsOf(i)' = RoundsOf(i)
         \/ /\ PhaseOf(i) = "none"
            /\ PhaseOf(i)' = "checking"
            /\ RoundsOf(i)' = RoundsOf(i)
         \/ /\ PhaseOf(i) = "checking"
            /\ RoundsOf(i) < MaxMutations + 1
            /\ PhaseOf(i)' = "checking"
            /\ RoundsOf(i)' = RoundsOf(i) + 1
         \/ /\ PhaseOf(i) = "checking"
            /\ RoundsOf(i) > 0
            /\ PhaseOf(i)' = "released"
            /\ RoundsOf(i)' = 0
         \/ /\ PhaseOf(i) = "checking"
            /\ PhaseOf(i)' = "closed"
            /\ RoundsOf(i)' = 0
  PROVE  [Life!LifeNext]_Life!lifeVars
<1> DEFINE ph == [id \in Request |-> PhaseOf(id)]
           ro == [id \in Request |-> RoundsOf(id)]
<1>1. /\ ph' = [ph EXCEPT ![i] = PhaseOf(i)']
      /\ ro' = [ro EXCEPT ![i] = RoundsOf(i)']
  OBVIOUS
<1>2. ph[i] = PhaseOf(i) /\ ro[i] = RoundsOf(i)
  OBVIOUS
<1>3. PhaseOf(i)' = PhaseOf(i) => ph' = ph
  BY <1>1
<1>4. RoundsOf(i)' = RoundsOf(i) => ro' = ro
  BY <1>1
<1> HIDE DEF ph, ro
<1>5. UNCHANGED <<ph, ro>>
      \/ \E id \in Request :
            \/ /\ ph[id] = "none"
               /\ ph' = [ph EXCEPT ![id] = "checking"]
               /\ UNCHANGED ro
            \/ /\ ph[id] = "checking"
               /\ ro[id] < MaxMutations + 1
               /\ ro' = [ro EXCEPT ![id] = @ + 1]
               /\ UNCHANGED ph
            \/ /\ ph[id] = "checking"
               /\ ro[id] > 0
               /\ ph' = [ph EXCEPT ![id] = "released"]
               /\ ro' = [ro EXCEPT ![id] = 0]
            \/ /\ ph[id] = "checking"
               /\ ph' = [ph EXCEPT ![id] = "closed"]
               /\ ro' = [ro EXCEPT ![id] = 0]
  BY <1>1, <1>2, <1>3, <1>4
<1> QED
  BY <1>5 DEF ph, ro, Life!LifeNext, Life!lifeVars, Life!Submit, Life!Replan,
              Life!Publish, Life!Close

\* The same of the next state.
LEMMA PhaseInFlightNext ==
  ASSUME TypeOK', OnePostPerRequest', LifeInv', NEW m \in net'
  PROVE  /\ PhaseOf(m.id)' = IF IsReleased(m.id)' THEN "released" ELSE "checking"
         /\ RoundsOf(m.id)' = IF IsReleased(m.id)' THEN 0 ELSE m.mutations
<1>1. PostsOf(m.id)' = {m}
  BY DEF PostsOf, OnePostPerRequest
<1>2. m.id \in Nat /\ m.id <= Len(reported') /\ Len(reported') \in Nat
  BY DEF TypeOK, Message, Request, LifeInv, IdsInUse
<1>3. PhaseOf(m.id)' = IF IsReleased(m.id)' THEN "released" ELSE "checking"
  BY <1>1, <1>2 DEF PhaseOf
<1>4. (CHOOSE x \in PostsOf(m.id)' : TRUE) = m
  BY <1>1
<1>5. RoundsOf(m.id)' =
        IF PhaseOf(m.id)' = "checking" THEN (CHOOSE x \in PostsOf(m.id)' : TRUE).mutations ELSE 0
  BY DEF RoundsOf
<1> QED
  BY <1>3, <1>4, <1>5

\* A report submits its request.
LEMMA ReportRefines ==
  ASSUME TypeOK, OnePostPerRequest, LifeInv, TypeOK', OnePostPerRequest', LifeInv',
         NEW u \in Uav, NEW k \in ReportKin(u), Report(u, k)
  PROVE  [Life!LifeNext]_Life!lifeVars
<1>1. Len(reported) \in Nat /\ Len(reported) < MaxReports
  BY DEF TypeOK, Report
<1>2. PICK i \in Request : i = Len(reported) + 1
  BY <1>1 DEF Request
<1> DEFINE data == <<[uav |-> u, kin |-> k, collision |-> FALSE, mut |-> 0]>>
<1>3. PICK post : post = [to |-> "update", id |-> Len(reported) + 1, origin |-> "self_report",
                          mutations |-> 0, cases |-> 0, data |-> data]
  OBVIOUS
<1>4. /\ net' = net \union {post}
      /\ reported' = Append(reported, u) /\ released' = released
  BY <1>3 DEF Report
<1>5. post.id = i /\ post.mutations = 0 /\ Len(reported') = Len(reported) + 1
  BY <1>2, <1>3, <1>4 DEF TypeOK
<1>6. \A id : IsReleased(id)' <=> IsReleased(id)
  BY <1>4 DEF IsReleased
<1>7. ~IsReleased(i)
  <2>1. \A r \in 1 .. Len(released) : released[r].id <= Len(reported)
    BY DEF LifeInv
  <2> QED
    BY <1>1, <1>2, <2>1 DEF IsReleased
<1>8. PhaseOf(i)' = "checking" /\ RoundsOf(i)' = 0
  <2>1. /\ PhaseOf(post.id)' = IF IsReleased(post.id)' THEN "released" ELSE "checking"
        /\ RoundsOf(post.id)' = IF IsReleased(post.id)' THEN 0 ELSE post.mutations
    BY <1>4, PhaseInFlightNext
  <2> QED
    BY <1>5, <1>6, <1>7, <2>1
<1>9. PhaseOf(i) = "none" /\ RoundsOf(i) = 0
  BY <1>1, <1>2 DEF PhaseOf, RoundsOf
<1>10. ASSUME NEW j \in Request, j # i
       PROVE  PhaseOf(j)' = PhaseOf(j) /\ RoundsOf(j)' = RoundsOf(j)
  <2>1. PostsOf(j)' = PostsOf(j)
    BY <1>4, <1>5, <1>10 DEF PostsOf
  <2>2. (j > Len(reported))' <=> j > Len(reported)
    BY <1>1, <1>2, <1>5, <1>10 DEF Request
  <2> QED
    BY <1>6, <2>1, <2>2, PhaseKept
<1> QED
  BY <1>8, <1>9, <1>10, LifeStep

\* A post that is consumed without another one and without a release closes its
\* request, unless the request was released before.
LEMMA EndRefines ==
  ASSUME TypeOK, OnePostPerRequest, LifeInv, NEW m \in net, Consume(m, {}),
         reported' = reported, released' = released
  PROVE  [Life!LifeNext]_Life!lifeVars
<1>1. m.id \in Request /\ m.id \in Nat /\ m.id <= Len(reported) /\ Len(reported) \in Nat
  BY DEF TypeOK, Message, Request, LifeInv, IdsInUse
<1>2. \A id : IsReleased(id)' <=> IsReleased(id)
  BY DEF IsReleased
<1>3. \A id : (id > Len(reported))' <=> id > Len(reported)
  OBVIOUS
<1>4. PostsOf(m.id)' = {}
  BY DEF PostsOf, OnePostPerRequest, Consume
<1>5. /\ PhaseOf(m.id) = IF IsReleased(m.id) THEN "released" ELSE "checking"
      /\ RoundsOf(m.id) = IF IsReleased(m.id) THEN 0 ELSE m.mutations
  BY PhaseInFlight
<1>6. PhaseOf(m.id)' = IF IsReleased(m.id) THEN "released" ELSE "closed"
  BY <1>1, <1>2, <1>4 DEF PhaseOf
<1>7. RoundsOf(m.id)' = 0
  BY <1>6 DEF RoundsOf
<1>8. ASSUME NEW j \in Request, j # m.id
      PROVE  PhaseOf(j)' = PhaseOf(j) /\ RoundsOf(j)' = RoundsOf(j)
  <2>1. PostsOf(j)' = PostsOf(j)
    BY <1>8 DEF PostsOf, Consume
  <2> QED
    BY <1>2, <1>3, <2>1, PhaseKept
<1> QED
  BY <1>1, <1>5, <1>6, <1>7, <1>8, LifeStep

\* A handler that hands its request on leaves it as it is, re-plans it, or, when
\* it is release and its publish succeeds, publishes it.
LEMMA PassRefines ==
  ASSUME TypeOK, OnePostPerRequest, LifeInv, TypeOK', OnePostPerRequest', LifeInv',
         MetaAgrees, MetaAgrees', NEW m \in net, Handle(m),
         m.to = "release" => m.origin = "system",
         NEW p, Consume(m, {p}), Passes(m, p), reported' = reported
  PROVE  [Life!LifeNext]_Life!lifeVars
<1>1. /\ m.id \in Request /\ m.mutations \in Nat /\ p \in net' /\ p.id = m.id
      /\ p \in Message /\ p.mutations \in Nat
  <2>1. p \in net' /\ p.id = m.id
    BY DEF Consume, Passes
  <2> QED
    BY <2>1 DEF TypeOK, Message
<1>2. /\ PhaseOf(m.id) = IF IsReleased(m.id) THEN "released" ELSE "checking"
      /\ RoundsOf(m.id) = IF IsReleased(m.id) THEN 0 ELSE m.mutations
  BY PhaseInFlight
<1>3. /\ PhaseOf(m.id)' = IF IsReleased(m.id)' THEN "released" ELSE "checking"
      /\ RoundsOf(m.id)' = IF IsReleased(m.id)' THEN 0 ELSE p.mutations
  BY <1>1, PhaseInFlightNext
<1>4. ASSUME NEW j \in Request, j # m.id, IsReleased(j)' <=> IsReleased(j)
      PROVE  PhaseOf(j)' = PhaseOf(j) /\ RoundsOf(j)' = RoundsOf(j)
  <2>1. PostsOf(j)' = PostsOf(j)
    BY <1>1, <1>4 DEF PostsOf, Consume
  <2>2. (j > Len(reported))' <=> j > Len(reported)
    OBVIOUS
  <2> QED
    BY <1>4, <2>1, <2>2, PhaseKept
<1>5. p.mutations = m.mutations \/ p.mutations = m.mutations + 1
  BY DEF Passes
<1>6. p.mutations <= MaxMutations + 1 /\ (m.origin = "system" => m.mutations > 0)
  BY <1>1 DEF MetaAgrees
<1>7. CASE HandleRelease(m) /\ \A id : IsReleased(id)' <=> IsReleased(id) \/ id = m.id
  <2> SUFFICES ASSUME \A id : IsReleased(id)' <=> IsReleased(id) \/ id = m.id
               PROVE  [Life!LifeNext]_Life!lifeVars
    BY <1>7
  <2>2. ~IsReleased(m.id) /\ m.mutations > 0
    BY <1>6, <1>7 DEF HandleRelease, LifeInv
  <2>3. \A j \in Request : j # m.id => PhaseOf(j)' = PhaseOf(j) /\ RoundsOf(j)' = RoundsOf(j)
    BY <1>4
  <2>4. PhaseOf(m.id)' = "released" /\ RoundsOf(m.id)' = 0
    BY <1>3
  <2>5. PhaseOf(m.id) = "checking" /\ RoundsOf(m.id) > 0
    BY <1>2, <2>2
  <2> QED
    BY <1>1, <2>3, <2>4, <2>5, LifeStep
<1>8. CASE \A id : IsReleased(id)' <=> IsReleased(id)
  <2>1. \A id : IsReleased(id)' <=> IsReleased(id)
    BY <1>8
  <2>2. \A j \in Request : j # m.id => PhaseOf(j)' = PhaseOf(j) /\ RoundsOf(j)' = RoundsOf(j)
    BY <1>4, <2>1
  <2>3. CASE IsReleased(m.id)
    BY <1>1, <1>2, <1>3, <2>1, <2>2, <2>3, LifeStep
  <2>4. CASE ~IsReleased(m.id)
    <3>1. PhaseOf(m.id) = "checking" /\ PhaseOf(m.id)' = "checking"
          /\ RoundsOf(m.id) = m.mutations /\ RoundsOf(m.id)' = p.mutations
      BY <1>2, <1>3, <2>1, <2>4
    <3>2. \/ RoundsOf(m.id)' = RoundsOf(m.id)
          \/ /\ RoundsOf(m.id) < MaxMutations + 1
             /\ RoundsOf(m.id)' = RoundsOf(m.id) + 1
      BY <1>1, <1>5, <1>6, <3>1
    <3> QED
      BY <1>1, <2>2, <3>1, <3>2, LifeStep
  <2> QED
    BY <2>3, <2>4
<1>9. CASE ~HandleRelease(m)
  BY <1>8, <1>9, OnlyReleaseReleases DEF IsReleased
<1> QED
  BY <1>7, <1>8, <1>9, ReleaseAdds

\* A step that touches neither posts, reports nor releases is invisible.
LEMMA StutterRefines ==
  ASSUME UNCHANGED <<net, reported, released>>
  PROVE  [Life!LifeNext]_Life!lifeVars
<1>1. \A id \in Request : PhaseOf(id)' = PhaseOf(id) /\ RoundsOf(id)' = RoundsOf(id)
  BY DEF PhaseOf, RoundsOf, PostsOf, IsReleased
<1> QED
  BY <1>1 DEF Life!lifeVars

\* The chain implements RequestLife, for any number of UAVs, any motions and any
\* budget: whatever is lost, delayed or interleaved, a request is released at
\* most once, after one to MAX_MUTATIONS + 1 mutations, and stays ended.
THEOREM ChainImplementsLife == Spec => ImplementsLife
<1>1. Init => Life!LifeInit
  <2> SUFFICES ASSUME Init PROVE Life!LifeInit
    OBVIOUS
  <2>1. \A id \in Request : PhaseOf(id) = "none"
    BY DEF Init, PhaseOf, Request
  <2>2. \A id \in Request : RoundsOf(id) = 0
    BY <2>1 DEF RoundsOf
  <2> QED
    BY <2>1, <2>2 DEF Life!LifeInit
<1> DEFINE I == /\ TypeOK /\ OnePostPerRequest /\ LifeInv /\ MetaAgrees
                /\ \A m \in net : DataFits(m)
<1>2. I /\ I' /\ [Next]_vars => [Life!LifeNext]_Life!lifeVars
  <2> SUFFICES ASSUME I, I', [Next]_vars
               PROVE  [Life!LifeNext]_Life!lifeVars
    OBVIOUS
  <2>1. CASE \E u \in Uav : \E k \in ReportKin(u) : Report(u, k)
    BY <2>1, ReportRefines
  <2>2. ASSUME NEW m \in net, Handle(m)
        PROVE  [Life!LifeNext]_Life!lifeVars
    <3>1. reported' = reported
          /\ (Consume(m, {}) \/ \E p : Consume(m, {p}) /\ Passes(m, p))
      BY <2>2, HandlerPosts
    <3>2. m.to = "release" => m.origin = "system"
      BY DEF DataFits, CleanRelease
    <3>3. CASE \E p : Consume(m, {p}) /\ Passes(m, p)
      BY <2>2, <3>1, <3>2, <3>3, PassRefines
    <3>4. CASE Consume(m, {})
      <4>1. CASE HandleRelease(m)
        <5>1. m \in net /\ m \in Message
          BY DEF TypeOK
        <5>2. PICK cmds : Consume(m, {PostUpdate(m, cmds)})
          BY <4>1 DEF HandleRelease
        <5>3. Passes(m, PostUpdate(m, cmds))
          BY <5>1 DEF PostUpdate, Passes, Message
        <5> QED
          BY <2>2, <3>1, <3>2, <5>2, <5>3, PassRefines
      <4>2. CASE ~HandleRelease(m)
        BY <2>2, <3>1, <3>4, <4>2, OnlyReleaseReleases, EndRefines
      <4> QED
        BY <4>1, <4>2
    <3> QED
      BY <3>1, <3>3, <3>4
  <2>3. CASE \E m \in net : Lose(m)
    BY <2>3, EndRefines DEF Lose
  <2>4. CASE Tick
    BY <2>4, StutterRefines DEF Tick
  <2>5. CASE UNCHANGED vars
    BY <2>5, StutterRefines DEF vars
  <2> QED
    BY <2>1, <2>2, <2>3, <2>4, <2>5 DEF Next
<1> QED
  BY <1>1, <1>2, TypeInvariant, NoFork, LifeInvariant, MetaInvariant, DataInvariant, PTL
  DEF Spec, ImplementsLife, Life!LifeSpec

-----------------------------------------------------------------------------
(***************************************************************************)
(* Only the lowest priority gives way                                      *)
(***************************************************************************)

\* A list has at most one trajectory of each UAV.
OnePerUav(data) ==
    \A a, b \in DOMAIN data : data[a].uav = data[b].uav => a = b

\* What follows trigger hands on such a list.
ListsInv ==
    \A m \in net : m.to \in {"collisiondetector", "mutate", "release"} => OnePerUav(m.data)

\* Detection and mutation keep the positions and their UAVs.
LEMMA DetectKeepsUavs ==
  ASSUME NEW data \in Seq(Traj)
  PROVE  /\ DOMAIN DetectCollisions(data) = DOMAIN data
         /\ \A i \in DOMAIN data : DetectCollisions(data)[i].uav = data[i].uav
<1>1. \A i \in DOMAIN data : data[i] \in Traj
  OBVIOUS
<1>2. /\ DOMAIN DetectCollisions(data) = DOMAIN data
      /\ \A i \in DOMAIN data : DetectCollisions(data)[i] =
           [data[i] EXCEPT !.collision = data[i].collision \/ i \in FlaggedIn(Hits(data))]
  BY DEF DetectCollisions
<1> QED
  BY <1>1, <1>2 DEF Traj

\* A rewritten list differs from the old one in the motion and the mark of
\* position v only.
LEMMA RewriteKeeps ==
  ASSUME NEW data \in Seq(Traj), NEW v \in DOMAIN data, NEW k, NEW id,
         NEW d, d = Rewrite(data, v, k, id)
  PROVE  /\ DOMAIN d = DOMAIN data
         /\ \A i \in DOMAIN data : d[i].uav = data[i].uav
         /\ \A i \in DOMAIN data :
                i # v => d[i].kin = data[i].kin /\ d[i].mut = data[i].mut
         /\ DOMAIN ClearFlags(d) = DOMAIN data
         /\ \A i \in DOMAIN data : ClearFlags(d)[i].uav = data[i].uav
         /\ \A i \in DOMAIN data :
                i # v => ClearFlags(d)[i].kin = data[i].kin /\ ClearFlags(d)[i].mut = data[i].mut
<1>1. \A i \in DOMAIN data : data[i] \in Traj
  OBVIOUS
<1>2. d = [data EXCEPT ![v] = [data[v] EXCEPT !.kin = k, !.mut = id]]
  BY DEF Rewrite
<1>3. DOMAIN d = DOMAIN data /\ \A i \in DOMAIN data : i # v => d[i] = data[i]
  BY <1>2
<1>4. d[v] = [data[v] EXCEPT !.kin = k, !.mut = id]
  BY <1>2
<1>5. d[v].uav = data[v].uav
  BY <1>1, <1>4 DEF Traj
<1>6. DOMAIN ClearFlags(d) = DOMAIN d
      /\ \A i \in DOMAIN d : ClearFlags(d)[i] = [d[i] EXCEPT !.collision = FALSE]
  BY DEF ClearFlags
<1>7. ASSUME NEW i \in DOMAIN data
      PROVE  /\ ClearFlags(d)[i].uav = data[i].uav
             /\ i # v => ClearFlags(d)[i].kin = data[i].kin /\ ClearFlags(d)[i].mut = data[i].mut
  <2>1. CASE i = v
    <3>1. ClearFlags(d)[v] = [[data[v] EXCEPT !.kin = k, !.mut = id] EXCEPT !.collision = FALSE]
      BY <1>3, <1>4, <1>6
    <3> QED
      BY <1>1, <2>1, <3>1 DEF Traj
  <2>2. CASE i # v
    <3>1. ClearFlags(d)[i] = [data[i] EXCEPT !.collision = FALSE]
      BY <1>3, <1>6, <2>2
    <3> QED
      BY <1>1, <3>1 DEF Traj
  <2> QED
    BY <2>1, <2>2
<1> QED
  BY <1>3, <1>5, <1>6, <1>7

\* A mutation keeps the UAVs and changes the motion of one victim at most.
LEMMA MutationsKeep ==
  ASSUME NEW m \in Message, NEW data \in Mutations(m)
  PROVE  /\ DOMAIN data = DOMAIN m.data
         /\ \A i \in DOMAIN m.data : data[i].uav = m.data[i].uav
         /\ \/ \A i \in DOMAIN m.data : data[i].kin = m.data[i].kin
            \/ \E v \in Victims(m.data) : \A i \in DOMAIN m.data :
                  i # v => data[i].kin = m.data[i].kin
<1>1. m.data \in Seq(Traj) /\ m.cases \in {0, 1, 3, 7}
  BY DEF Message, Cases
<1>2. \A v \in Victims(m.data) : v \in DOMAIN m.data
  BY DEF Victims, FlaggedPositions
<1>3. CASE m.cases = 0
  <2>1. PICK v \in Victims(m.data) :
          data = ClearFlags(Rewrite(m.data, v, SlowDown(m.data[v].kin), m.id))
    BY <1>3 DEF Mutations
  <2> QED
    BY <1>1, <1>2, <2>1, RewriteKeeps
<1>4. CASE m.cases = 1
  <2>1. PICK v \in Victims(m.data) : \E k \in Turn(m.data[v].kin) :
          data = ClearFlags(Rewrite(m.data, v, k, m.id))
    BY <1>4 DEF Mutations
  <2>2. PICK k \in Turn(m.data[v].kin) : data = ClearFlags(Rewrite(m.data, v, k, m.id))
    BY <2>1
  <2> QED
    BY <1>1, <1>2, <2>2, RewriteKeeps
<1>5. CASE m.cases = 3
  <2>1. PICK v \in Victims(m.data) :
          data = Rewrite(m.data, v, Climb(m.data[v].kin), m.id)
    BY <1>5 DEF Mutations
  <2> QED
    BY <1>1, <1>2, <2>1, RewriteKeeps
<1>6. CASE m.cases = 7
  BY <1>6 DEF Mutations
<1> QED
  BY <1>1, <1>3, <1>4, <1>5, <1>6

\* Every handler sends on a list with one trajectory per UAV.
LEMMA HandlerLists ==
  ASSUME TypeOK, ListsInv, NEW m \in net, Handle(m)
  PROVE  ListsInv'
<1>0. m \in Message /\ m.data \in Seq(Traj)
  BY DEF TypeOK, Message
<1>1. ASSUME NEW posts, Consume(m, posts),
             \A p \in posts : p.to \in {"collisiondetector", "mutate", "release"} => OnePerUav(p.data)
      PROVE  ListsInv'
  BY <1>1 DEF Consume, ListsInv
<1>2. ASSUME NEW p, Consume(m, {p}), OnePerUav(p.data)
      PROVE  ListsInv'
  BY <1>2 DEF Consume, ListsInv
<1>3. CASE HandleUpdate(m)
  <2>1. PICK posts \in {{}, {PostTrigger(m)}} : Consume(m, posts)
    BY <1>3 DEF HandleUpdate
  <2>2. PostTrigger(m).to = "trigger"
    BY <1>0 DEF PostTrigger, Message
  <2> QED
    BY <1>1, <2>1, <2>2
<1>4. CASE HandleTrigger(m)
  <2>1. CASE Consume(m, {})
    BY <1>1, <2>1
  <2>2. CASE \E s \in Snapshots :
               Consume(m, {[m EXCEPT !.to = "collisiondetector", !.data = s]})
    <3>1. PICK s \in Snapshots :
            Consume(m, {[m EXCEPT !.to = "collisiondetector", !.data = s]})
      BY <2>2
    <3>2. OnePerUav(s)
      BY DEF Snapshots, OnePerUav
    <3>3. PICK p : p = [m EXCEPT !.to = "collisiondetector", !.data = s]
      OBVIOUS
    <3>4. p.data = s /\ Consume(m, {p})
      BY <1>0, <3>1, <3>3 DEF Message
    <3> QED
      BY <1>2, <3>2, <3>4
  <2> QED
    BY <1>4, <2>1, <2>2 DEF HandleTrigger
<1>5. CASE HandleDetector(m)
  <2>1. OnePerUav(m.data)
    BY <1>5 DEF HandleDetector, ListsInv
  <2>2. OnePerUav(DetectCollisions(m.data))
    BY <1>0, <2>1, DetectKeepsUavs DEF OnePerUav
  <2>3. PICK posts \in {{}, {PostMutate(m, DetectCollisions(m.data))}, {PostRelease(m)}} :
          Consume(m, posts)
    BY <1>5 DEF HandleDetector
  <2>4. PostMutate(m, DetectCollisions(m.data)).data = DetectCollisions(m.data)
        /\ PostRelease(m).data = m.data
    BY <1>0 DEF PostMutate, PostRelease, Message
  <2> QED
    BY <1>1, <2>1, <2>2, <2>3, <2>4
<1>6. CASE HandleMutate(m)
  <2>1. CASE Refused(m)
    <3>1. Consume(m, {})
      BY <1>6, <2>1 DEF HandleMutate
    <3> QED
      BY <1>1, <3>1
  <2>2. CASE ~Refused(m)
    <3>1. PICK data \in Mutations(m) :
            Consume(m, {[m EXCEPT !.to = "collisiondetector", !.origin = "system",
                                  !.mutations = @ + 1, !.cases = NextCases(@),
                                  !.data = data]})
      BY <1>6, <2>2 DEF HandleMutate
    <3>2. OnePerUav(m.data)
      BY <1>6 DEF HandleMutate, ListsInv
    <3>3. OnePerUav(data)
      BY <1>0, <3>2, MutationsKeep DEF OnePerUav
    <3>4. PICK p : /\ p = [m EXCEPT !.to = "collisiondetector", !.origin = "system",
                                    !.mutations = @ + 1, !.cases = NextCases(@),
                                    !.data = data]
                   /\ Consume(m, {p})
      BY <3>1
    <3>5. p.data = data
      BY <1>0, <3>4 DEF Message
    <3> QED
      BY <1>2, <3>3, <3>4, <3>5
  <2> QED
    BY <2>1, <2>2
<1>7. CASE HandleRelease(m)
  <2>1. PICK cmds : Consume(m, {PostUpdate(m, cmds)})
    BY <1>7 DEF HandleRelease
  <2>2. PostUpdate(m, cmds).to = "update"
    BY <1>0 DEF PostUpdate, Message
  <2> QED
    BY <1>1, <2>1, <2>2
<1> QED
  BY <1>3, <1>4, <1>5, <1>6, <1>7 DEF Handle

LEMMA ListsInvariant == Spec => []ListsInv
<1>1. Init => ListsInv
  BY DEF Init, ListsInv
<1>2. TypeOK /\ ListsInv /\ [Next]_vars => ListsInv'
  <2> SUFFICES ASSUME TypeOK, ListsInv, [Next]_vars
               PROVE  ListsInv'
    OBVIOUS
  <2>1. CASE \E u \in Uav : \E k \in ReportKin(u) : Report(u, k)
    <3>1. \E post : post.to = "update" /\ net' = net \union {post}
      BY <2>1 DEF Report
    <3> QED
      BY <3>1 DEF ListsInv
  <2>2. CASE \E m \in net : Handle(m)
    BY <2>2, HandlerLists
  <2>3. CASE \E m \in net : Lose(m)
    BY <2>3 DEF Lose, Consume, ListsInv
  <2>4. CASE Tick
    BY <2>4 DEF Tick, ListsInv
  <2>5. CASE UNCHANGED vars
    BY <2>5 DEF vars, ListsInv
  <2> QED
    BY <2>1, <2>2, <2>3, <2>4, <2>5 DEF Next
<1> QED
  BY <1>1, <1>2, TypeInvariant, PTL DEF Spec

\* The promise of PriorityRespected about one post and the one that replaces it.
GivesWay(m, n) ==
    \A i \in DOMAIN m.data :
        n.data[i].kin # m.data[i].kin =>
            \E h \in FlaggedPositions(m.data) :
                m.data[h].uav < m.data[i].uav /\ n.data[h].kin = m.data[h].kin

\* Of two flagged aircraft with different UAVs, one is not the victim, and it has
\* the higher priority.
LEMMA VictimIsLowest ==
  ASSUME NEW m \in Message, m.to = "mutate", TwoColliders(m), OnePerUav(m.data),
         NEW n, n.data \in Mutations(m)
  PROVE  GivesWay(m, n)
<1>1. m.data \in Seq(Traj)
  BY DEF Message
<1>2. CASE \A i \in DOMAIN m.data : n.data[i].kin = m.data[i].kin
  BY <1>2 DEF GivesWay
<1>3. ASSUME NEW v \in Victims(m.data),
             \A i \in DOMAIN m.data : i # v => n.data[i].kin = m.data[i].kin
      PROVE  GivesWay(m, n)
  <2>1. PICK a \in FlaggedPositions(m.data) : a # v
    BY DEF TwoColliders
  <2>2. a \in DOMAIN m.data /\ v \in DOMAIN m.data /\ m.data[a].uav <= m.data[v].uav
    BY <2>1 DEF Victims, FlaggedPositions
  <2>3. m.data[a].uav \in Nat /\ m.data[v].uav \in Nat
    <3>1. m.data[a] \in Traj /\ m.data[v] \in Traj
      BY <1>1, <2>2
    <3> QED
      BY <3>1 DEF Traj, Uav
  <2>4. m.data[a].uav # m.data[v].uav
    BY <2>1, <2>2 DEF OnePerUav
  <2>5. m.data[a].uav < m.data[v].uav
    BY <2>2, <2>3, <2>4
  <2>6. n.data[a].kin = m.data[a].kin
    BY <1>3, <2>1, <2>2
  <2> QED
    BY <1>3, <2>1, <2>5, <2>6 DEF GivesWay
<1> QED
  BY <1>2, <1>3, MutationsKeep

\* For any number of UAVs and any motions, a UAV gives way only to one of higher
\* priority that keeps its motion, whatever flags the snapshot brought along.
THEOREM LowestGivesWay == Spec => PriorityRespected
<1> DEFINE I == /\ TypeOK /\ OnePostPerRequest /\ ListsInv
                /\ \A m \in net : DataFits(m)
           P == \A m \in net, n \in net' :
                    m.id = n.id /\ m.to = "mutate" /\ n.to = "collisiondetector"
                        => GivesWay(m, n)
<1>1. I /\ OnePostPerRequest' /\ [Next]_vars => P
  <2> SUFFICES ASSUME I, OnePostPerRequest', [Next]_vars,
                      NEW m \in net, NEW n \in net',
                      m.id = n.id, m.to = "mutate", n.to = "collisiondetector"
               PROVE  GivesWay(m, n)
    OBVIOUS
  <2>1. m \notin net'
    BY DEF OnePostPerRequest
  <2>2. n \notin net
    BY DEF OnePostPerRequest
  <2>3. Handle(m)
    <3>1. CASE \E u \in Uav : \E k \in ReportKin(u) : Report(u, k)
      BY <2>1, <3>1 DEF Report
    <3>2. CASE \E x \in net : Handle(x)
      BY <2>1, <3>2, HandlerPosts DEF Consume
    <3>3. CASE \E x \in net : Lose(x)
      BY <2>2, <3>3 DEF Lose, Consume
    <3>4. CASE Tick \/ UNCHANGED vars
      BY <2>1, <3>4 DEF Tick, vars
    <3> QED
      BY <3>1, <3>2, <3>3, <3>4 DEF Next
  <2>4. HandleMutate(m)
    BY <2>3 DEF Handle, HandleUpdate, HandleTrigger, HandleDetector, HandleRelease
  <2>5. PICK data \in Mutations(m) :
          Consume(m, {[m EXCEPT !.to = "collisiondetector", !.origin = "system",
                                !.mutations = @ + 1, !.cases = NextCases(@),
                                !.data = data]})
    <3>1. ~Refused(m)
      BY <2>2, <2>4 DEF HandleMutate, Consume
    <3> QED
      BY <2>4, <3>1 DEF HandleMutate
  <2>6. m \in Message
    BY DEF TypeOK
  <2>7. n.data = data
    BY <2>2, <2>5, <2>6 DEF Consume, Message
  <2>8. OnePerUav(m.data) /\ TwoColliders(m)
    BY DEF ListsInv, DataFits
  <2> QED
    BY <2>5, <2>6, <2>7, <2>8, VictimIsLowest
<1>2. [P]_vars =>
        [\A m \in net, n \in net' :
           (m.id = n.id /\ m.to = "mutate" /\ n.to = "collisiondetector") =>
               \A i \in DOMAIN m.data :
                   n.data[i].kin # m.data[i].kin =>
                       \E h \in FlaggedPositions(m.data) :
                           /\ m.data[h].uav < m.data[i].uav
                           /\ n.data[h].kin = m.data[h].kin]_vars
  BY DEF GivesWay
<1> HIDE DEF P
<1> QED
  BY <1>1, <1>2, TypeInvariant, NoFork, ListsInvariant, DataInvariant, PTL
  DEF Spec, PriorityRespected

-----------------------------------------------------------------------------
(***************************************************************************)
(* What requests that follow each other leave in the database              *)
(***************************************************************************)

\* The only post in flight belongs to the last report.
OneChain == \A m, n \in net : m = n /\ m.id = Len(reported)

\* No UAV has two documents with one timestamp.
StampInv ==
    /\ \A d \in db : d.created <= now
    /\ \A d, e \in db : d.traj.uav = e.traj.uav /\ d.created = e.created => d = e

\* update, too, gets at most one trajectory of each UAV.
UpdateInv == \A m \in net : m.to = "update" => OnePerUav(m.data)

\* The list accounts for what the database has of every UAV: it holds its
\* latest motion, or one that is to be released.
Planned(data) ==
    \A t \in Latest : \E i \in DOMAIN data :
        data[i].uav = t.uav /\ (data[i].mut = 0 => data[i].kin = t.kin)

PlanInv ==
    \A m \in net : m.to \in {"collisiondetector", "mutate", "release"} => Planned(m.data)

Apart(k, l) == ~Conflict(k, l) /\ ~Conflict(l, k)

\* The latest trajectories of UAVs that a list of commands does not concern.
Kept(cmds) == {t \in Latest : \A a \in DOMAIN cmds : cmds[a].uav # t.uav}

\* They are in conflict neither with each other nor with the commands.
Fits(cmds) ==
    \A t \in Kept(cmds) :
        /\ \A w \in Kept(cmds) : t # w => Apart(t.kin, w.kin)
        /\ \A a \in DOMAIN cmds : Apart(t.kin, cmds[a].kin)

\* A release of the last request fits the database, before and after its copy
\* has gone through update.
LastInv ==
    released # <<>> /\ released[Len(released)].id = Len(reported) =>
        /\ Fits(released[Len(released)].cmds)
        /\ \A m \in net : /\ m.to = "update"
                          /\ m.origin = "system"
                          /\ m.data = released[Len(released)].cmds

SuccessiveInv == OneChain /\ StampInv /\ UpdateInv /\ PlanInv /\ LastInv

LEMMA SuccessiveIsNext == [SuccessiveNext]_vars => [Next]_vars
BY DEF SuccessiveNext, Next

\* A behaviour in which requests follow each other is a behaviour of the chain.
LEMMA SuccessiveIsSpec == SuccessiveSpec => Spec
BY SuccessiveIsNext, PTL DEF SuccessiveSpec, Spec

\* A UAV has one latest trajectory.
LEMMA LatestUnique ==
  ASSUME TypeOK, StampInv, NEW t \in Latest, NEW w \in Latest, t.uav = w.uav
  PROVE  t = w
<1>1. PICK d \in Recent : d.traj = t
        /\ \A e \in Recent : e.traj.uav = d.traj.uav => e.created <= d.created
  BY DEF Latest
<1>2. PICK e \in Recent : e.traj = w
        /\ \A f \in Recent : f.traj.uav = e.traj.uav => f.created <= e.created
  BY DEF Latest
<1>3. d \in db /\ e \in db /\ d.created \in Nat /\ e.created \in Nat
  BY DEF Recent, TypeOK, Doc
<1>4. d.created <= e.created /\ e.created <= d.created
  BY <1>1, <1>2
<1>5. d.created = e.created
  BY <1>3, <1>4
<1> QED
  BY <1>1, <1>2, <1>3, <1>5 DEF StampInv

LEMMA LatestType ==
  ASSUME TypeOK
  PROVE  Latest \subseteq Traj /\ \A t \in Latest : t.uav \in RecentUav
BY DEF Latest, Recent, RecentUav, TypeOK, Doc

\* The clock only takes documents out of sight: the latest ones that remain are
\* the latest ones as before.
LEMMA LatestTick ==
  ASSUME TypeOK, Tick
  PROVE  Latest' \subseteq Latest
<1> SUFFICES ASSUME NEW t \in Latest' PROVE t \in Latest
  OBVIOUS
<1>1. now' = now + 1 /\ db' = db /\ now \in Nat
  BY DEF Tick, TypeOK
<1>2. \A d \in db : d.created \in Nat
  BY DEF TypeOK, Doc
<1>3. Recent' = {d \in db : d.created >= now + 1 - Ttl}
  BY <1>1 DEF Recent
<1>4. PICK d \in Recent' : d.traj = t
        /\ \A e \in Recent' : e.traj.uav = d.traj.uav => e.created <= d.created
  BY DEF Latest
<1>5. d \in Recent
  BY <1>1, <1>2, <1>3, <1>4 DEF Recent
<1>6. ASSUME NEW e \in Recent, e.traj.uav = d.traj.uav, ~(e.created <= d.created)
      PROVE  FALSE
  <2>1. e \in db /\ d \in db /\ e.created > d.created /\ d.created >= now + 1 - Ttl
    BY <1>2, <1>3, <1>4, <1>6 DEF Recent
  <2>2. e \in Recent'
    BY <1>1, <1>2, <1>3, <2>1
  <2> QED
    BY <1>4, <1>6, <2>2
<1> QED
  BY <1>4, <1>5, <1>6 DEF Latest

\* An update replaces the latest trajectories of the UAVs it stores, at most.
LEMMA LatestStored ==
  ASSUME NEW data \in Seq(Traj), StoreUpdate(data), now' = now
  PROVE  \A t \in Latest' : t \in Latest \/ \E k \in DOMAIN data : data[k].uav = t.uav
<1>1. PICK n \in 0 .. Len(data) :
        db' = db \union {[traj |-> data[k], created |-> now] : k \in 1 .. n}
  BY DEF StoreUpdate
<1>2. 1 .. n \subseteq DOMAIN data
  OBVIOUS
<1> SUFFICES ASSUME NEW t \in Latest', \A k \in DOMAIN data : data[k].uav # t.uav
             PROVE  t \in Latest
  OBVIOUS
<1>3. PICK d \in Recent' : d.traj = t
        /\ \A e \in Recent' : e.traj.uav = d.traj.uav => e.created <= d.created
  BY DEF Latest
<1>4. Recent \subseteq Recent' /\ \A e \in Recent' : e \in db => e \in Recent
  BY <1>1 DEF Recent
<1>5. d \in db
  <2>1. ASSUME d \notin db PROVE FALSE
    <3>1. PICK k \in 1 .. n : d = [traj |-> data[k], created |-> now]
      BY <1>1, <1>3, <2>1 DEF Recent
    <3> QED
      BY <1>2, <1>3, <3>1
  <2> QED
    BY <2>1
<1> QED
  BY <1>3, <1>4, <1>5 DEF Latest

\* A snapshot has the latest trajectory of every recent UAV: as many entries as
\* there are such UAVs, all different.
LEMMA SnapshotPlanned ==
  ASSUME TypeOK, StampInv, NEW s \in Snapshots
  PROVE  Planned(s)
<1> DEFINE n == Cardinality(RecentUav)
           f == [a \in 1 .. n |-> s[a].uav]
<1>1. s \in [1 .. n -> Latest] /\ \A a, b \in 1 .. n : s[a].uav = s[b].uav => a = b
  BY DEF Snapshots
<1>2. IsFiniteSet(RecentUav) /\ n \in Nat
  <2>1. RecentUav \subseteq 1 .. NUav
    BY DEF RecentUav, Recent, TypeOK, Doc, Traj, Uav
  <2>2. IsFiniteSet(1 .. NUav)
    BY FS_Interval
  <2> QED
    BY <2>1, <2>2, FS_Subset, FS_CardinalityType
<1> HIDE DEF n
<1>3. f \in Injection(1 .. n, RecentUav)
  <2>1. f \in [1 .. n -> RecentUav]
    BY <1>1, LatestType
  <2>2. \A a, b \in 1 .. n : f[a] = f[b] => a = b
    BY <1>1
  <2> HIDE DEF f
  <2> QED
    BY <2>1, <2>2 DEF Injection, IsInjective
<1>4. Cardinality(1 .. n) = n
  BY <1>2, FS_Interval
<1>5. f \in Surjection(1 .. n, RecentUav)
  <2> HIDE DEF f
  <2> QED
    BY <1>2, <1>3, <1>4, FS_Injection DEF n
<1>6. ASSUME NEW t \in Latest
      PROVE  \E a \in DOMAIN s : s[a] = t
  <2>1. t.uav \in RecentUav
    BY LatestType
  <2>2. PICK a \in 1 .. n : f[a] = t.uav
    <3> HIDE DEF f
    <3> QED
      BY <1>5, <2>1 DEF Surjection
  <2>3. s[a] \in Latest /\ s[a].uav = t.uav
    BY <1>1, <2>2
  <2> QED
    BY <1>1, <2>3, LatestUnique
<1> QED
  BY <1>6 DEF Planned

LEMMA LatestSame ==
  ASSUME UNCHANGED <<db, now>>
  PROVE  Latest' = Latest /\ (StampInv => StampInv')
BY DEF Latest, Recent, StampInv

\* Detection and mutation keep a list accounting for the database.
LEMMA DetectPlanned ==
  ASSUME NEW data \in Seq(Traj), Planned(data)
  PROVE  Planned(DetectCollisions(data))
<1>1. \A i \in DOMAIN data : data[i] \in Traj
  OBVIOUS
<1>2. ASSUME NEW i \in DOMAIN data
      PROVE  DetectCollisions(data)[i].kin = data[i].kin
  <2>1. DetectCollisions(data)[i] =
          [data[i] EXCEPT !.collision = data[i].collision \/ i \in FlaggedIn(Hits(data))]
    BY DEF DetectCollisions
  <2> QED
    BY <1>1, <2>1 DEF Traj
<1> QED
  BY <1>2, DetectFlags, DetectKeepsUavs DEF Planned

LEMMA MutationsPlanned ==
  ASSUME NEW m \in Message, NEW data \in Mutations(m), Planned(m.data)
  PROVE  Planned(data)
<1> DEFINE Keeps(d) ==
             /\ DOMAIN d = DOMAIN m.data
             /\ \A i \in DOMAIN m.data :
                   /\ d[i].uav = m.data[i].uav
                   /\ d[i].mut = 0 => d[i].kin = m.data[i].kin /\ m.data[i].mut = 0
<1>1. m.data \in Seq(Traj) /\ m.cases \in {0, 1, 3, 7} /\ m.id # 0
  BY DEF Message, Cases, Request
<1>2. \A v \in Victims(m.data) : v \in DOMAIN m.data
  BY DEF Victims, FlaggedPositions
<1>3. ASSUME NEW v \in Victims(m.data), NEW k
      PROVE  Keeps(Rewrite(m.data, v, k, m.id)) /\ Keeps(ClearFlags(Rewrite(m.data, v, k, m.id)))
  <2>1. v \in DOMAIN m.data
    BY <1>2
  <2> DEFINE d == Rewrite(m.data, v, k, m.id)
  <2>2. d[v].mut # 0 /\ ClearFlags(d)[v].mut # 0
    BY <1>1, <2>1, RewriteMarks
  <2> QED
    BY <1>1, <2>1, <2>2, RewriteKeeps
<1>4. Keeps(data)
  <2>1. CASE m.cases = 0
    BY <1>3, <2>1 DEF Mutations
  <2>2. CASE m.cases = 1
    <3>1. PICK v \in Victims(m.data) : \E k \in Turn(m.data[v].kin) :
            data = ClearFlags(Rewrite(m.data, v, k, m.id))
      BY <2>2 DEF Mutations
    <3>2. PICK k \in Turn(m.data[v].kin) : data = ClearFlags(Rewrite(m.data, v, k, m.id))
      BY <3>1
    <3> QED
      BY <1>3, <3>2
  <2>3. CASE m.cases = 3
    BY <1>3, <2>3 DEF Mutations
  <2>4. CASE m.cases = 7
    BY <2>4 DEF Mutations
  <2> QED
    BY <1>1, <2>1, <2>2, <2>3, <2>4
<1> QED
  BY <1>4 DEF Planned

\* What release publishes fits the trajectories it leaves alone.
LEMMA ReleasedFits ==
  ASSUME TypeOK, StampInv, NEW m \in net, m.to = "release", Hits(m.data) = {},
         Planned(m.data), NEW cmds \in MutatedData(m.data)
  PROVE  Fits(cmds)
<1>1. m.data \in Seq(Traj)
  BY DEF TypeOK, Message
<1>2. ASSUME NEW t \in Kept(cmds)
      PROVE  \E i \in DOMAIN m.data : m.data[i].uav = t.uav /\ m.data[i].kin = t.kin
  <2>1. PICK i \in DOMAIN m.data :
          m.data[i].uav = t.uav /\ (m.data[i].mut = 0 => m.data[i].kin = t.kin)
    BY DEF Planned, Kept
  <2>2. m.data[i].mut = 0
    <3>1. ASSUME m.data[i].mut # 0 PROVE FALSE
      <4>1. i \in MutatedPositions(m.data)
        BY <3>1 DEF MutatedPositions
      <4>2. PICK a \in DOMAIN cmds : cmds[a] = m.data[i]
        BY <1>1, <4>1, MutatedDataAll
      <4> QED
        BY <2>1, <4>2 DEF Kept
    <3> QED
      BY <3>1
  <2> QED
    BY <2>1, <2>2
<1>3. ASSUME NEW i \in DOMAIN m.data, NEW j \in DOMAIN m.data, m.data[i].uav # m.data[j].uav
      PROVE  Apart(m.data[i].kin, m.data[j].kin)
  BY <1>1, <1>3, CleanList DEF Apart
<1>4. ASSUME NEW t \in Kept(cmds), NEW w \in Kept(cmds), t # w
      PROVE  Apart(t.kin, w.kin)
  <2>1. t.uav # w.uav
    BY <1>4, LatestUnique DEF Kept
  <2> QED
    BY <1>2, <1>3, <2>1
<1>5. ASSUME NEW t \in Kept(cmds), NEW a \in DOMAIN cmds
      PROVE  Apart(t.kin, cmds[a].kin)
  <2>1. PICK j \in DOMAIN m.data : cmds[a] = m.data[j]
    <3>1. PICK pos \in [DOMAIN cmds -> MutatedPositions(m.data)] :
            \A b \in DOMAIN cmds : cmds[b] = m.data[pos[b]]
      BY <1>1, MutatedDataItems
    <3> QED
      BY <3>1 DEF MutatedPositions
  <2>2. cmds[a].uav # t.uav
    BY DEF Kept
  <2> QED
    BY <1>2, <1>3, <2>1, <2>2
<1> QED
  BY <1>4, <1>5 DEF Fits

\* A released list, too, has one trajectory per UAV.
LEMMA ReleasedOnePerUav ==
  ASSUME NEW data \in Seq(Traj), OnePerUav(data), NEW cmds \in MutatedData(data)
  PROVE  OnePerUav(cmds)
<1>1. PICK pos \in [DOMAIN cmds -> MutatedPositions(data)] :
        /\ \A a \in DOMAIN cmds : cmds[a] = data[pos[a]]
        /\ \A a, b \in DOMAIN cmds : a # b => pos[a] # pos[b]
  BY MutatedDataItems
<1>2. \A a \in DOMAIN cmds : pos[a] \in DOMAIN data
  BY DEF MutatedPositions
<1> QED
  BY <1>1, <1>2 DEF OnePerUav

\* A step that adds no post and no document keeps the invariant.
LEMMA SuccessiveQuiet ==
  ASSUME SuccessiveInv, StampInv', Latest' \subseteq Latest, net' \subseteq net,
         UNCHANGED <<reported, released>>
  PROVE  SuccessiveInv'
<1>1. OneChain' /\ UpdateInv'
  BY DEF SuccessiveInv, OneChain, UpdateInv
<1>2. PlanInv'
  <2> SUFFICES ASSUME NEW m \in net', m.to \in {"collisiondetector", "mutate", "release"}
               PROVE  Planned(m.data)'
    BY DEF PlanInv
  <2>1. Planned(m.data)
    BY DEF SuccessiveInv, PlanInv
  <2> QED
    BY <2>1 DEF Planned
<1>3. LastInv'
  <2> SUFFICES ASSUME released # <<>>, released[Len(released)].id = Len(reported)
               PROVE  /\ Fits(released[Len(released)].cmds)'
                      /\ \A m \in net : /\ m.to = "update"
                                        /\ m.origin = "system"
                                        /\ m.data = released[Len(released)].cmds
    BY DEF LastInv
  <2>1. /\ Fits(released[Len(released)].cmds)
        /\ \A m \in net : /\ m.to = "update"
                          /\ m.origin = "system"
                          /\ m.data = released[Len(released)].cmds
    BY DEF SuccessiveInv, LastInv
  <2> QED
    BY <2>1 DEF Fits, Kept
<1> QED
  BY <1>1, <1>2, <1>3 DEF SuccessiveInv

\* So does a step that replaces a post, which is not to update, by one that
\* accounts for the database.
LEMMA SuccessivePost ==
  ASSUME SuccessiveInv, NEW m \in net, m.to # "update",
         NEW p, Consume(m, {p}), p.id = m.id,
         p.to \in {"collisiondetector", "mutate", "release"}, Planned(p.data),
         UNCHANGED <<db, now, reported, released>>
  PROVE  SuccessiveInv'
<1>1. net' = {p} /\ m.id = Len(reported)
  BY DEF Consume, SuccessiveInv, OneChain
<1>2. OneChain' /\ UpdateInv'
  BY <1>1 DEF OneChain, UpdateInv
<1>3. StampInv' /\ Latest' = Latest
  BY LatestSame DEF SuccessiveInv
<1>4. PlanInv'
  BY <1>1, <1>3 DEF PlanInv, Planned
<1>5. LastInv'
  BY DEF LastInv, SuccessiveInv
<1> QED
  BY <1>2, <1>3, <1>4, <1>5 DEF SuccessiveInv

\* A report starts the next chain.
LEMMA SuccessiveReport ==
  ASSUME TypeOK, LifeInv, SuccessiveInv, net = {},
         NEW u \in Uav, NEW k \in ReportKin(u), Report(u, k)
  PROVE  SuccessiveInv'
<1> DEFINE data == <<[uav |-> u, kin |-> k, collision |-> FALSE, mut |-> 0]>>
           post == [to |-> "update", id |-> Len(reported) + 1, origin |-> "self_report",
                    mutations |-> 0, cases |-> 0, data |-> data]
<1>1. post.to = "update" /\ post.id = Len(reported) + 1 /\ post.data = data
  OBVIOUS
<1>2. OnePerUav(data)
  BY DEF OnePerUav
<1>3. net' = {post} /\ reported' = Append(reported, u)
      /\ UNCHANGED <<db, now, released>>
  BY DEF Report
<1>4. Len(reported) \in Nat /\ Len(reported') = Len(reported) + 1
  BY <1>3 DEF TypeOK
<1> HIDE DEF post, data
<1>5. OneChain' /\ UpdateInv' /\ PlanInv'
  BY <1>1, <1>2, <1>3, <1>4 DEF OneChain, UpdateInv, PlanInv
<1>6. StampInv'
  BY <1>3, LatestSame DEF SuccessiveInv
<1>7. LastInv'
  <2>1. released # <<>> => /\ released[Len(released)].id \in Nat
                           /\ released[Len(released)].id <= Len(reported)
    <3> SUFFICES ASSUME released # <<>>
                 PROVE  /\ released[Len(released)].id \in Nat
                        /\ released[Len(released)].id <= Len(reported)
      OBVIOUS
    <3>1. released \in Seq(Handover)
      BY DEF TypeOK
    <3>2. Len(released) \in 1 .. Len(released)
      BY <3>1
    <3>3. released[Len(released)] \in Handover
      BY <3>1, <3>2, ElementOfSeq
    <3> QED
      BY <3>2, <3>3 DEF LifeInv, Handover, Request
  <2> QED
    BY <1>3, <1>4, <2>1 DEF LastInv
<1> QED
  BY <1>5, <1>6, <1>7 DEF SuccessiveInv

\* What a released request posts to update only confirms what its release said.
LEMMA SuccessiveUpdate ==
  ASSUME TypeOK, SuccessiveInv, NEW m \in net, ~Stamped, HandleUpdate(m)
  PROVE  SuccessiveInv'
<1>1. m \in Message /\ m.data \in Seq(Traj) /\ now \in Nat
  BY DEF TypeOK, Message
<1>2. m.to = "update" /\ StoreUpdate(m.data) /\ UNCHANGED <<now, reported, released>>
  BY DEF HandleUpdate
<1>3. \/ net' = {}
      \/ net' = {PostTrigger(m)} /\ m.origin = "self_report"
  BY DEF HandleUpdate, Consume, SuccessiveInv, OneChain
<1>4. PostTrigger(m).to = "trigger" /\ PostTrigger(m).id = m.id
  BY <1>1 DEF PostTrigger, Message
<1>5. OneChain' /\ UpdateInv' /\ PlanInv'
  BY <1>2, <1>3, <1>4 DEF SuccessiveInv, OneChain, UpdateInv, PlanInv
<1>6. StampInv'
  <2>1. PICK n \in 0 .. Len(m.data) :
          db' = db \union {[traj |-> m.data[k], created |-> now] : k \in 1 .. n}
    BY <1>2 DEF StoreUpdate
  <2> DEFINE new == {[traj |-> m.data[k], created |-> now] : k \in 1 .. n}
  <2>2. 1 .. n \subseteq DOMAIN m.data
    BY <1>1, <2>1
  <2>3. OnePerUav(m.data)
    BY <1>2 DEF SuccessiveInv, UpdateInv
  <2>4. \A d \in new : d.created = now
    OBVIOUS
  <2>5. \A d, e \in new : d.traj.uav = e.traj.uav => d = e
    BY <2>2, <2>3 DEF OnePerUav
  <2>6. \A d \in db : d.created <= now /\ d.created # now
    BY DEF Stamped, SuccessiveInv, StampInv
  <2>7. db' = db \union new
    BY <2>1
  <2> HIDE DEF new
  <2>8. \A d \in db' : d.created <= now
    BY <1>1, <2>4, <2>6, <2>7
  <2>9. \A d, e \in db' : d.traj.uav = e.traj.uav /\ d.created = e.created => d = e
    BY <2>4, <2>5, <2>6, <2>7 DEF SuccessiveInv, StampInv
  <2> QED
    BY <1>2, <2>8, <2>9 DEF StampInv
<1>7. LastInv'
  <2> SUFFICES ASSUME released # <<>>, released[Len(released)].id = Len(reported)
               PROVE  /\ Fits(released[Len(released)].cmds)'
                      /\ net' = {}
    BY <1>2 DEF LastInv
  <2> DEFINE cmds == released[Len(released)].cmds
  <2>1. Fits(cmds) /\ m.origin = "system" /\ m.data = cmds
    BY DEF SuccessiveInv, LastInv
  <2>2. \A t \in Latest' : t \in Latest \/ \E a \in DOMAIN cmds : cmds[a].uav = t.uav
    BY <1>1, <1>2, <2>1, LatestStored
  <2>3. Kept(cmds)' \subseteq Kept(cmds) /\ cmds' = cmds
    BY <1>2, <2>2 DEF Kept
  <2>4. Fits(cmds)'
    BY <2>1, <2>3 DEF Fits
  <2>5. net' = {}
    BY <1>3, <2>1
  <2> QED
    BY <2>4, <2>5
<1> QED
  BY <1>5, <1>6, <1>7 DEF SuccessiveInv

\* The release of the chain in flight becomes the last one, and fits.
LEMMA SuccessiveRelease ==
  ASSUME TypeOK, ListsInv, SuccessiveInv, NEW m \in net, DataFits(m), HandleRelease(m)
  PROVE  SuccessiveInv'
<1>1. m \in Message /\ m.data \in Seq(Traj) /\ m.id \in Request
  BY DEF TypeOK, Message
<1>2. PICK cmds \in MutatedData(m.data) :
        /\ HandOver(m.id, cmds)
        /\ Consume(m, {PostUpdate(m, cmds)})
  BY DEF HandleRelease
<1>3. m.to = "release" /\ UNCHANGED <<db, now, reported>>
  BY DEF HandleRelease
<1>4. m.id = Len(reported) /\ net' = {PostUpdate(m, cmds)}
  BY <1>2 DEF Consume, SuccessiveInv, OneChain
<1>5. /\ PostUpdate(m, cmds).to = "update" /\ PostUpdate(m, cmds).id = m.id
      /\ PostUpdate(m, cmds).origin = m.origin /\ PostUpdate(m, cmds).data = cmds
  BY <1>1 DEF PostUpdate, Message
<1>6. m.origin = "system" /\ Hits(m.data) = {}
  BY <1>3 DEF DataFits, CleanRelease
<1>7. OnePerUav(cmds)
  BY <1>1, <1>3, ReleasedOnePerUav DEF ListsInv
<1>8. StampInv' /\ Latest' = Latest
  BY <1>3, LatestSame DEF SuccessiveInv
<1>9. OneChain' /\ UpdateInv' /\ PlanInv'
  BY <1>3, <1>4, <1>5, <1>7 DEF OneChain, UpdateInv, PlanInv
<1>10. LastInv'
  <2>1. Fits(cmds)
    BY <1>3, <1>6, ReleasedFits DEF SuccessiveInv, PlanInv
  <2>2. Fits(cmds)'
    BY <1>8, <2>1 DEF Fits, Kept
  <2>3. cmds \in Seq(Traj)
    BY <1>1, MutatedDataItems
  <2>4. PICK new \in Handover :
          /\ new.id = m.id /\ new.cmds = cmds
          /\ Len(released') = Len(released) + 1 /\ Len(released) \in Nat
          /\ released'[Len(released) + 1] = new
    BY <1>1, <1>2, <2>3, HandedOver DEF TypeOK
  <2>5. released' # <<>> /\ released'[Len(released')] = new
    BY <2>4
  <2> QED
    BY <1>4, <1>5, <1>6, <2>2, <2>4, <2>5 DEF LastInv
<1> QED
  BY <1>8, <1>9, <1>10 DEF SuccessiveInv

LEMMA SuccessiveHandle ==
  ASSUME TypeOK, ListsInv, SuccessiveInv, NEW m \in net, DataFits(m),
         m.to = "update" => ~Stamped, Handle(m)
  PROVE  SuccessiveInv'
<1>0. m \in Message /\ m.data \in Seq(Traj)
  BY DEF TypeOK, Message
<1>1. ASSUME Consume(m, {}), UNCHANGED <<db, now, reported, released>>
      PROVE  SuccessiveInv'
  BY <1>1, LatestSame, SuccessiveQuiet DEF Consume, SuccessiveInv
<1>2. CASE HandleUpdate(m)
  BY <1>2, SuccessiveUpdate DEF HandleUpdate
<1>3. CASE HandleTrigger(m)
  <2>1. m.to = "trigger" /\ UNCHANGED <<db, now, reported, released>>
    BY <1>3 DEF HandleTrigger
  <2>2. CASE \E s \in Snapshots :
               Consume(m, {[m EXCEPT !.to = "collisiondetector", !.data = s]})
    <3>1. PICK s \in Snapshots :
            Consume(m, {[m EXCEPT !.to = "collisiondetector", !.data = s]})
      BY <2>2
    <3>2. Planned(s)
      BY SnapshotPlanned DEF SuccessiveInv
    <3>3. PICK p : p = [m EXCEPT !.to = "collisiondetector", !.data = s]
      OBVIOUS
    <3>4. p.to = "collisiondetector" /\ p.id = m.id /\ p.data = s
      BY <1>0, <3>3 DEF Message
    <3> QED
      BY <2>1, <3>1, <3>2, <3>3, <3>4, SuccessivePost
  <2> QED
    BY <1>1, <1>3, <2>1, <2>2 DEF HandleTrigger
<1>4. CASE HandleDetector(m)
  <2>1. m.to = "collisiondetector" /\ UNCHANGED <<db, now, reported, released>>
    BY <1>4 DEF HandleDetector
  <2>2. Planned(m.data)
    BY <2>1 DEF SuccessiveInv, PlanInv
  <2>3. CASE Consume(m, {PostMutate(m, DetectCollisions(m.data))})
    <3> DEFINE p == PostMutate(m, DetectCollisions(m.data))
    <3>1. p.to = "mutate" /\ p.id = m.id /\ p.data = DetectCollisions(m.data)
      BY <1>0 DEF PostMutate, Message
    <3>2. Planned(p.data)
      BY <1>0, <2>2, <3>1, DetectPlanned
    <3> HIDE DEF p
    <3>3. Consume(m, {p})
      BY <2>3 DEF p
    <3> QED
      BY <2>1, <3>1, <3>2, <3>3, SuccessivePost
  <2>4. CASE Consume(m, {PostRelease(m)})
    <3>1. PostRelease(m).to = "release" /\ PostRelease(m).id = m.id
          /\ PostRelease(m).data = m.data
      BY <1>0 DEF PostRelease, Message
    <3> QED
      BY <2>1, <2>2, <2>4, <3>1, SuccessivePost
  <2> QED
    BY <1>1, <1>4, <2>1, <2>3, <2>4 DEF HandleDetector
<1>5. CASE HandleMutate(m)
  <2>1. m.to = "mutate" /\ UNCHANGED <<db, now, reported, released>>
    BY <1>5 DEF HandleMutate
  <2>2. CASE Refused(m)
    BY <1>1, <1>5, <2>1, <2>2 DEF HandleMutate
  <2>3. CASE ~Refused(m)
    <3>1. PICK data \in Mutations(m) :
            Consume(m, {[m EXCEPT !.to = "collisiondetector", !.origin = "system",
                                  !.mutations = @ + 1, !.cases = NextCases(@),
                                  !.data = data]})
      BY <1>5, <2>3 DEF HandleMutate
    <3>2. PICK p : /\ p = [m EXCEPT !.to = "collisiondetector", !.origin = "system",
                                    !.mutations = @ + 1, !.cases = NextCases(@),
                                    !.data = data]
                   /\ Consume(m, {p})
      BY <3>1
    <3>3. p.to = "collisiondetector" /\ p.id = m.id /\ p.data = data
      BY <1>0, <3>2 DEF Message
    <3>4. Planned(p.data)
      BY <1>0, <2>1, <3>3, MutationsPlanned DEF SuccessiveInv, PlanInv
    <3> QED
      BY <2>1, <3>2, <3>3, <3>4, SuccessivePost
  <2> QED
    BY <2>2, <2>3
<1>6. CASE HandleRelease(m)
  BY <1>6, SuccessiveRelease
<1> QED
  BY <1>2, <1>3, <1>4, <1>5, <1>6 DEF Handle

\* Commands that fit what they leave alone, and are what the database has of
\* their UAVs, make a separated fleet.
LEMMA FitsSeparates ==
  ASSUME TypeOK, StampInv, NEW cmds, SeparatedList(cmds), Fits(cmds),
         \A a \in DOMAIN cmds : cmds[a] \in Latest
  PROVE  \A t, w \in Latest : t # w => ~Conflict(t.kin, w.kin)
<1>1. ASSUME NEW t \in Latest
      PROVE  t \in Kept(cmds) \/ \E a \in DOMAIN cmds : t = cmds[a]
  BY LatestUnique DEF Kept
<1> QED
  BY <1>1 DEF Fits, Apart, SeparatedList

\* When requests follow each other, the last release leaves a separated fleet in
\* the database, for any number of UAVs and requests, any age limit, and
\* whatever was lost before.
THEOREM FleetSeparatedAtRest == SuccessiveSpec => []RestSeparated
<1> DEFINE Facts == /\ TypeOK /\ LifeInv /\ ListsInv
                    /\ (\A m \in net : DataFits(m)) /\ ReleasedFit
<1>1. Init => SuccessiveInv
  BY DEF Init, SuccessiveInv, OneChain, StampInv, UpdateInv, PlanInv, LastInv
<1>2. Facts /\ SuccessiveInv /\ [SuccessiveNext]_vars => SuccessiveInv'
  <2> SUFFICES ASSUME Facts, SuccessiveInv, [SuccessiveNext]_vars
               PROVE  SuccessiveInv'
    OBVIOUS
  <2>1. CASE net = {} /\ \E u \in Uav : \E k \in ReportKin(u) : Report(u, k)
    BY <2>1, SuccessiveReport
  <2>2. CASE \E m \in net : (m.to = "update" => ~Stamped) /\ Handle(m)
    BY <2>2, SuccessiveHandle
  <2>3. CASE \E m \in net : Lose(m)
    BY <2>3, LatestSame, SuccessiveQuiet DEF Lose, Consume, SuccessiveInv
  <2>4. CASE Tick
    <3>1. StampInv'
      <4>1. \A d \in db : d.created \in Nat
        BY DEF TypeOK, Doc
      <4> QED
        BY <2>4, <4>1 DEF Tick, SuccessiveInv, StampInv, TypeOK
    <3> QED
      BY <2>4, <3>1, LatestTick, SuccessiveQuiet DEF Tick
  <2>5. CASE UNCHANGED vars
    BY <2>5, LatestSame, SuccessiveQuiet DEF vars, SuccessiveInv
  <2> QED
    BY <2>1, <2>2, <2>3, <2>4, <2>5 DEF SuccessiveNext
<1>3. Facts /\ SuccessiveInv => RestSeparated
  <2> SUFFICES ASSUME Facts, SuccessiveInv, released # <<>>,
                      released[Len(released)].id = Len(reported),
                      \A a \in DOMAIN released[Len(released)].cmds :
                          released[Len(released)].cmds[a] \in Latest
               PROVE  \A t, w \in Latest : t # w => ~Conflict(t.kin, w.kin)
    BY DEF RestSeparated
  <2>1. Fits(released[Len(released)].cmds)
    BY DEF SuccessiveInv, LastInv
  <2>2. SeparatedList(released[Len(released)].cmds)
    <3>1. Len(released) \in 1 .. Len(released)
      BY DEF TypeOK
    <3> QED
      BY <3>1 DEF ReleasedFit
  <2> QED
    BY <2>1, <2>2, FitsSeparates DEF SuccessiveInv
<1> QED
  BY <1>1, <1>2, <1>3, SuccessiveIsSpec, TypeInvariant, LifeInvariant, ListsInvariant,
     DataInvariant, PTL
  DEF SuccessiveSpec

-----------------------------------------------------------------------------
(***************************************************************************)
(* Every chain of functions is finite                                      *)
(***************************************************************************)

\* How many functions may still run on behalf of a post: collision-detector and
\* mutate take turns until the budget is used up, release and the update of its
\* commands come last.
RunsLeft(m) ==
    CASE m.to = "update" -> IF m.origin = "system" THEN 1 ELSE 2 * MaxMutations + 7
      [] m.to = "trigger" -> 2 * MaxMutations + 6
      [] m.to = "collisiondetector" -> 2 * (MaxMutations - m.mutations) + 5
      [] m.to = "mutate" -> 2 * (MaxMutations - m.mutations) + 4
      [] m.to = "release" -> 2

\* How many may still run on behalf of a request.
RunsOf(id) ==
    IF PostsOf(id) = {} THEN 0 ELSE RunsLeft(CHOOSE m \in PostsOf(id) : TRUE)

LEMMA RunsLeftType ==
  ASSUME NEW m \in Message, m.mutations <= MaxMutations + 1
  PROVE  RunsLeft(m) \in 1 .. 2 * MaxMutations + 7
<1>1. m.to \in Stage /\ m.mutations \in Nat /\ MaxMutations \in Nat
  BY BoundsAssumption DEF Message
<1> QED
  BY <1>1 DEF RunsLeft, Stage

\* What a handler posts has fewer runs left than the post it ran on.
LEMMA HandlerShortens ==
  ASSUME TypeOK, MetaAgrees, \A m \in net : CleanRelease(m), NEW m \in net, Handle(m)
  PROVE  \/ Consume(m, {})
         \/ \E p : Consume(m, {p}) /\ p.id = m.id /\ RunsLeft(p) < RunsLeft(m)
<1>1. /\ m \in Message /\ m.mutations \in Nat /\ MaxMutations \in Nat
      /\ m.mutations <= MaxMutations + 1
      /\ (m.origin = "system") = (m.mutations > 0)
  BY BoundsAssumption DEF TypeOK, Message, MetaAgrees
<1>2. CASE HandleUpdate(m)
  <2> DEFINE p == [m EXCEPT !.to = "trigger", !.data = <<>>]
  <2>1. p.id = m.id /\ p.to = "trigger"
    BY <1>1 DEF Message
  <2>2. m.origin = "self_report" => RunsLeft(p) < RunsLeft(m)
    BY <1>1, <1>2, <2>1 DEF RunsLeft, HandleUpdate
  <2>3. Consume(m, {}) \/ (m.origin = "self_report" /\ Consume(m, {p}))
    BY <1>2 DEF HandleUpdate, PostTrigger
  <2> QED
    BY <2>1, <2>2, <2>3
<1>3. CASE HandleTrigger(m)
  <2>1. ASSUME NEW s \in Snapshots,
               Consume(m, {[m EXCEPT !.to = "collisiondetector", !.data = s]})
        PROVE  \E p : Consume(m, {p}) /\ p.id = m.id /\ RunsLeft(p) < RunsLeft(m)
    <3> DEFINE p == [m EXCEPT !.to = "collisiondetector", !.data = s]
    <3>1. p.id = m.id /\ p.to = "collisiondetector" /\ p.mutations = m.mutations
      BY <1>1 DEF Message
    <3>2. RunsLeft(p) = 2 * (MaxMutations - m.mutations) + 5
      BY <3>1 DEF RunsLeft
    <3>3. RunsLeft(m) = 2 * MaxMutations + 6
      BY <1>3 DEF RunsLeft, HandleTrigger
    <3>4. RunsLeft(p) < RunsLeft(m)
      BY <1>1, <3>2, <3>3
    <3> QED
      BY <2>1, <3>1, <3>4
  <2> QED
    BY <1>3, <2>1 DEF HandleTrigger
<1>4. CASE HandleDetector(m)
  <2>1. RunsLeft(m) = 2 * (MaxMutations - m.mutations) + 5
    BY <1>4 DEF RunsLeft, HandleDetector
  <2>2. CASE Consume(m, {PostMutate(m, DetectCollisions(m.data))})
    <3> DEFINE p == PostMutate(m, DetectCollisions(m.data))
    <3>1. p.id = m.id /\ p.to = "mutate" /\ p.mutations = m.mutations
      BY <1>1 DEF Message, PostMutate
    <3>2. RunsLeft(p) = 2 * (MaxMutations - m.mutations) + 4
      BY <3>1 DEF RunsLeft
    <3>3. Consume(m, {p})
      BY <2>2
    <3> HIDE DEF p
    <3>4. RunsLeft(p) < RunsLeft(m)
      BY <1>1, <2>1, <3>2
    <3> QED
      BY <3>1, <3>3, <3>4
  <2>3. CASE Consume(m, {PostRelease(m)})
    <3> DEFINE p == PostRelease(m)
    <3>1. p.id = m.id /\ p.to = "release"
      BY <1>1 DEF Message, PostRelease
    <3>2. RunsLeft(p) = 2
      BY <3>1 DEF RunsLeft
    <3>3. Consume(m, {p})
      BY <2>3
    <3> HIDE DEF p
    <3>4. RunsLeft(p) < RunsLeft(m)
      BY <1>1, <2>1, <3>2
    <3> QED
      BY <3>1, <3>3, <3>4
  <2> QED
    BY <1>4, <2>2, <2>3 DEF HandleDetector
<1>5. CASE HandleMutate(m)
  <2>1. RunsLeft(m) = 2 * (MaxMutations - m.mutations) + 4
    BY <1>5 DEF RunsLeft, HandleMutate
  <2>2. ASSUME NEW data, ~Refused(m),
               Consume(m, {[m EXCEPT !.to = "collisiondetector", !.origin = "system",
                                     !.mutations = @ + 1, !.cases = NextCases(@),
                                     !.data = data]})
        PROVE  \E p : Consume(m, {p}) /\ p.id = m.id /\ RunsLeft(p) < RunsLeft(m)
    <3> DEFINE p == [m EXCEPT !.to = "collisiondetector", !.origin = "system",
                              !.mutations = @ + 1, !.cases = NextCases(@), !.data = data]
    <3>1. p.id = m.id /\ p.to = "collisiondetector" /\ p.mutations = m.mutations + 1
      BY <1>1 DEF Message
    <3>2. Consume(m, {p})
      BY <2>2
    <3> HIDE DEF p
    <3>3. RunsLeft(p) = 2 * (MaxMutations - (m.mutations + 1)) + 5
      BY <3>1 DEF RunsLeft
    <3>4. RunsLeft(p) < RunsLeft(m)
      BY <1>1, <2>1, <3>3
    <3> QED
      BY <3>1, <3>2, <3>4
  <2> QED
    BY <1>5, <2>2 DEF HandleMutate
<1>6. CASE HandleRelease(m)
  <2>1. PICK data : Consume(m, {PostUpdate(m, data)})
    BY <1>6 DEF HandleRelease
  <2> DEFINE p == PostUpdate(m, data)
  <2>2. p.id = m.id /\ p.to = "update" /\ p.origin = m.origin
    BY <1>1 DEF Message, PostUpdate
  <2>3. m.to = "release" /\ m.origin = "system"
    BY <1>6 DEF HandleRelease, CleanRelease
  <2>4. RunsLeft(m) = 2 /\ RunsLeft(p) = 1
    BY <2>2, <2>3 DEF RunsLeft
  <2>5. Consume(m, {p})
    BY <2>1
  <2> HIDE DEF p
  <2>6. RunsLeft(p) < RunsLeft(m)
    BY <2>4
  <2> QED
    BY <2>2, <2>5, <2>6
<1> QED
  BY <1>2, <1>3, <1>4, <1>5, <1>6 DEF Handle

\* Every step that concerns a request that has been reported leaves it fewer
\* runs, and a request has at most 2 * MAX_MUTATIONS + 7 to begin with.  No
\* function runs on behalf of one that has none left (mutate/fn.py,
\* collision-detector/fn.py: the two call each other).  With the fairness of
\* FairSpec this is why ChainTerminates holds for every budget.
ChainShortens ==
    /\ [](\A id \in Request : RunsOf(id) \in 0 .. 2 * MaxMutations + 7)
    /\ [][\A id \in 1 .. Len(reported) :
             PostsOf(id)' # PostsOf(id) => RunsOf(id)' < RunsOf(id)]_vars

LEMMA RunsInFlight ==
  ASSUME OnePostPerRequest, NEW m \in net
  PROVE  PostsOf(m.id) = {m} /\ RunsOf(m.id) = RunsLeft(m)
<1>1. PostsOf(m.id) = {m}
  BY DEF PostsOf, OnePostPerRequest
<1> QED
  BY <1>1 DEF RunsOf

\* The same of the next state.
LEMMA RunsInFlightNext ==
  ASSUME OnePostPerRequest', NEW m \in net'
  PROVE  PostsOf(m.id)' = {m} /\ RunsOf(m.id)' = RunsLeft(m)
<1>1. PostsOf(m.id)' = {m}
  BY DEF PostsOf, OnePostPerRequest
<1>2. (CHOOSE n \in PostsOf(m.id)' : TRUE) = m
  BY <1>1
<1> QED
  BY <1>1, <1>2 DEF RunsOf, RunsLeft

\* Whatever a step does to a post, it concerns no other request.
LEMMA ConsumeShortens ==
  ASSUME TypeOK, OnePostPerRequest, OnePostPerRequest', MetaAgrees, NEW m \in net,
         \/ Consume(m, {})
         \/ \E p : Consume(m, {p}) /\ p.id = m.id /\ RunsLeft(p) < RunsLeft(m),
         NEW id, PostsOf(id)' # PostsOf(id)
  PROVE  RunsOf(id)' < RunsOf(id)
<1>1. RunsLeft(m) \in 1 .. 2 * MaxMutations + 7
  BY RunsLeftType DEF TypeOK, MetaAgrees
<1>2. CASE Consume(m, {})
  <2>1. id = m.id
    BY <1>2 DEF Consume, PostsOf
  <2>2. RunsOf(id) = RunsLeft(m)
    BY <2>1, RunsInFlight
  <2>3. PostsOf(id)' = {}
    BY <1>2, <2>1 DEF Consume, PostsOf, OnePostPerRequest
  <2>4. RunsOf(id)' = 0
    BY <2>3 DEF RunsOf
  <2> QED
    BY <1>1, <2>2, <2>4, BoundsAssumption
<1>3. ASSUME NEW p, Consume(m, {p}), p.id = m.id, RunsLeft(p) < RunsLeft(m)
      PROVE  RunsOf(id)' < RunsOf(id)
  <2>1. id = m.id
    BY <1>3 DEF Consume, PostsOf
  <2>2. p \in net'
    BY <1>3 DEF Consume
  <2>3. RunsOf(p.id)' = RunsLeft(p)
    BY <2>2, RunsInFlightNext
  <2> QED
    BY <1>3, <2>1, <2>3, RunsInFlight
<1> QED
  BY <1>2, <1>3

\* mutate and collision-detector do not call each other for ever, and no request
\* comes back to life, for any budget and any number of requests.
THEOREM ChainsAreBounded == Spec => ChainShortens
<1> DEFINE Bounded == \A id \in Request : RunsOf(id) \in 0 .. 2 * MaxMutations + 7
           Shorter == \A id \in 1 .. Len(reported) :
                          PostsOf(id)' # PostsOf(id) => RunsOf(id)' < RunsOf(id)
           I == TypeOK /\ OnePostPerRequest /\ MetaAgrees /\ \A m \in net : DataFits(m)
<1>1. I => Bounded
  <2> SUFFICES ASSUME I, NEW id \in Request
               PROVE  RunsOf(id) \in 0 .. 2 * MaxMutations + 7
    OBVIOUS
  <2>1. CASE PostsOf(id) = {}
    BY <2>1, BoundsAssumption DEF RunsOf
  <2>2. ASSUME NEW m \in PostsOf(id)
        PROVE  RunsOf(id) \in 0 .. 2 * MaxMutations + 7
    <3>1. m \in net /\ m.id = id
      BY <2>2 DEF PostsOf
    <3>2. RunsLeft(m) \in 1 .. 2 * MaxMutations + 7
      BY <3>1, RunsLeftType DEF TypeOK, MetaAgrees
    <3> QED
      BY <3>1, <3>2, RunsInFlight, BoundsAssumption
  <2> QED
    BY <2>1, <2>2
<1>2. I /\ I' /\ [Next]_vars => [Shorter]_vars
  <2> SUFFICES ASSUME I, I', [Next]_vars,
                      NEW id \in 1 .. Len(reported), PostsOf(id)' # PostsOf(id)
               PROVE  RunsOf(id)' < RunsOf(id)
    OBVIOUS
  <2>1. ASSUME NEW u \in Uav, NEW k \in ReportKin(u), Report(u, k)
        PROVE  FALSE
    <3> DEFINE post == [to |-> "update", id |-> Len(reported) + 1, origin |-> "self_report",
                        mutations |-> 0, cases |-> 0,
                        data |-> <<[uav |-> u, kin |-> k, collision |-> FALSE, mut |-> 0]>>]
    <3>1. net' = net \union {post}
      BY <2>1 DEF Report
    <3>2. post.id = Len(reported) + 1
      OBVIOUS
    <3>3. Len(reported) \in Nat
      BY DEF TypeOK
    <3> HIDE DEF post
    <3> QED
      BY <3>1, <3>2, <3>3 DEF PostsOf
  <2>2. ASSUME NEW m \in net, Handle(m)
        PROVE  RunsOf(id)' < RunsOf(id)
    <3>1. \A n \in net : CleanRelease(n)
      BY DEF DataFits
    <3> QED
      BY <2>2, <3>1, HandlerShortens, ConsumeShortens
  <2>3. ASSUME NEW m \in net, Lose(m)
        PROVE  RunsOf(id)' < RunsOf(id)
    BY <2>3, ConsumeShortens DEF Lose
  <2>4. CASE Tick
    BY <2>4 DEF Tick, PostsOf
  <2>5. CASE UNCHANGED vars
    BY <2>5 DEF vars, PostsOf
  <2> QED
    BY <2>1, <2>2, <2>3, <2>4, <2>5 DEF Next
<1> QED
  BY <1>1, <1>2, TypeInvariant, NoFork, MetaInvariant, DataInvariant, PTL
  DEF Spec, ChainShortens

=============================================================================
