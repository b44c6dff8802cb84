--------------------------- MODULE CollisionChain ---------------------------
(***************************************************************************)
(* The request chain of 6gn-functions.  A UAV reports its trajectory over  *)
(* MQTT, the ingester posts it to update, update stores it and calls       *)
(* trigger, trigger snapshots the recent trajectories of all UAVs, and     *)
(* collision-detector and mutate call each other until the snapshot is     *)
(* free of conflicts; release then publishes the mutated trajectories and, *)
(* whether or not that succeeds, stores them through update.               *)
(*                                                                         *)
(* Every call is an asynchronous HTTP post answered with 202 before the    *)
(* function runs: a message in flight is delivered at most once, in any    *)
(* order, or lost (the function is missing, the connection fails, the      *)
(* handler raises).  No caller retries.  One action models one run of a    *)
(* function's fn.                                                          *)
(***************************************************************************)
EXTENDS Detection, Sequences, FiniteSets

CONSTANTS
    NUav,           \* number of UAVs; a higher uav_id is a lower priority
    Kin,            \* what the chain reads of a trajectory's motion
    ReportKin(_),   \* the motions UAV u may report
    Conflict(_, _), \* check_for_conflict of two predicted motions
    SlowDown(_),    \* speed * 0.75 (mutation case 1)
    Turn(_),        \* the motions a random change of direction yields (case 2)
    Climb(_),       \* altitude + VERTICAL_SEPARATION + 10 (case 3)
    Ttl,            \* age limit of a snapshot's trajectories
    MaxMutations,   \* MAX_MUTATIONS of mutate/fn.py
    MaxReports,     \* bound: reports the UAVs send
    MaxTime         \* bound: the clock

Uav == 1 .. NUav
Request == 1 .. MaxReports

ASSUME BoundsAssumption ==
    /\ NUav \in Nat
    /\ Ttl \in Nat
    /\ MaxMutations \in Nat
    /\ MaxReports \in Nat
    /\ MaxTime \in Nat

\* The mutations stay within the motions that are modelled.
ASSUME KinAssumption ==
    /\ \A u \in Uav : ReportKin(u) \subseteq Kin
    /\ \A k \in Kin : SlowDown(k) \in Kin /\ Turn(k) \subseteq Kin /\ Climb(k) \in Kin

\* The distances check_for_conflict compares are symmetric.
ASSUME ConflictAssumption ==
    \A k, l \in Kin : Conflict(k, l) \in BOOLEAN /\ (Conflict(k, l) => Conflict(l, k))

-----------------------------------------------------------------------------
(***************************************************************************)
(* Data                                                                    *)
(***************************************************************************)

\* A trajectory as the functions pass it on.  mut is 0 unless the item's
\* 'origin' is 'mutate'; it then names the request that wrote it (the code
\* keeps only the word 'mutate').
Traj == [uav : Uav, kin : Kin, collision : BOOLEAN, mut : 0 .. MaxReports]

\* A document of the trajectories collection.
Doc == [traj : Traj, created : 0 .. MaxTime]

Stage == {"update", "trigger", "collisiondetector", "mutate", "release"}

\* The values of meta['mutation_cases'], '000', '001', '011' and '111'.
Cases == {0, 1, 3, 7}

\* A post in flight.  mutations = 0 stands for a meta without that key.
Message == [to : Stage, id : Request, origin : {"self_report", "system"},
            mutations : Nat, cases : Cases, data : Seq(Traj)]

\* A list that release handed to its MQTT client for the releases topic.
Handover == [id : Request, cmds : Seq(Traj), published : BOOLEAN]

VARIABLES
    net,        \* the posts in flight
    db,         \* the trajectories collection
    now,        \* the clock that stamps created_at
    reported,   \* the UAVs of the reports sent so far; a report's request id
                \* is its index
    released    \* the lists handed over, in order

vars == <<net, db, now, reported, released>>

Init ==
    /\ net = {}
    /\ db = {}
    /\ now = 0
    /\ reported = <<>>
    /\ released = <<>>

\* Defective variant (see "Sensitivity" in the README): the platform delivers a
\* post again after it was handled.
ConsumeAgain(m, posts) == net' = net \union posts

\* The run of m ends; posts is what it sent on.
Consume(m, posts) == net' = (net \ {m}) \union posts

\* What a function posts when it ran on m.
PostTrigger(m) == [m EXCEPT !.to = "trigger", !.data = <<>>]
PostMutate(m, data) == [m EXCEPT !.to = "mutate", !.data = data]
PostRelease(m) == [m EXCEPT !.to = "release"]
PostUpdate(m, data) == [m EXCEPT !.to = "update", !.data = data]

-----------------------------------------------------------------------------
(***************************************************************************)
(* The UAV's report and the ingester                                       *)
(***************************************************************************)

\* A UAV publishes its state and handleMessage wraps it with a fresh meta.
Report(u, k) ==
    /\ Len(reported) < MaxReports
    /\ reported' = Append(reported, u)
    /\ net' = net \union
         {[to |-> "update", id |-> Len(reported) + 1, origin |-> "self_report",
           mutations |-> 0, cases |-> 0,
           data |-> <<[uav |-> u, kin |-> k, collision |-> FALSE, mut |-> 0]>>]}
    /\ UNCHANGED <<db, now, released>>

\* A post is not answered with 202, or the function that got it raises before
\* it posts: the caller logs and goes on, nobody retries.
Lose(m) ==
    /\ Consume(m, {})
    /\ UNCHANGED <<db, now, reported, released>>

-----------------------------------------------------------------------------
(***************************************************************************)
(* update and trigger                                                      *)
(***************************************************************************)

\* insert_many in order; it may fail after any number of documents, and the
\* exception is only logged.
StoreUpdate(data) ==
    \E n \in 0 .. Len(data) :
        db' = db \union {[traj |-> data[k], created |-> now] : k \in 1 .. n}

HandleUpdate(m) ==
    /\ m.to = "update"
    /\ StoreUpdate(m.data)
    /\ Consume(m, IF m.origin = "self_report"
                  THEN {PostTrigger(m)} ELSE {})
    /\ UNCHANGED <<now, reported, released>>

Recent == {d \in db : d.created >= now - Ttl}
RecentUav == {d.traj.uav : d \in Recent}

\* The trajectories no recent one of the same UAV is newer than.
Latest ==
    {d.traj : d \in {d \in Recent :
        \A e \in Recent : e.traj.uav = d.traj.uav => e.created <= d.created}}

\* One latest trajectory of every recent UAV, in the order (and with the
\* choice among equal created_at) the cursor happens to give.
Snapshots ==
    {s \in [1 .. Cardinality(RecentUav) -> Latest] :
        \A a, b \in DOMAIN s : s[a].uav = s[b].uav => a = b}

\* trigger ends the request when there is nothing recent.
HandleTrigger(m) ==
    /\ m.to = "trigger"
    /\ \/ /\ m.origin = "self_report"
          /\ Recent # {}
          /\ \E s \in Snapshots :
                Consume(m, {[m EXCEPT !.to = "collisiondetector", !.data = s]})
       \/ /\ ~(m.origin = "self_report" /\ Recent # {})
          /\ Consume(m, {})
    /\ UNCHANGED <<db, now, reported, released>>

-----------------------------------------------------------------------------
(***************************************************************************)
(* collision-detector                                                      *)
(***************************************************************************)

\* Defective variant of Hits: only neighbours in the list are compared.
NeighbourHits(data) ==
    {p \in (DOMAIN data) \X (DOMAIN data) :
        p[2] = p[1] + 1 /\ Conflict(data[p[1]].kin, data[p[2]].kin)}

\* The pairs of positions, i < j, whose motions are in conflict.
Hits(data) ==
    {p \in (DOMAIN data) \X (DOMAIN data) :
        p[1] < p[2] /\ Conflict(data[p[1]].kin, data[p[2]].kin)}

\* Defective variant of DetectCollisions: only aircraft1 of a pair is flagged.
DetectFirstOnly(data) ==
    [i \in DOMAIN data |->
        [data[i] EXCEPT !.collision = @ \/ \E p \in Hits(data) : i = p[1]]]

\* detect_collisions sets the flag of the positions its scan marks and leaves
\* every other flag as it came.
DetectCollisions(data) ==
    [i \in DOMAIN data |->
        [data[i] EXCEPT !.collision = @ \/ i \in FlaggedIn(Hits(data))]]

HandleDetector(m) ==
    /\ m.to = "collisiondetector"
    /\ \/ /\ Hits(m.data) # {}
          /\ Consume(m, {PostMutate(m, DetectCollisions(m.data))})
       \/ /\ Hits(m.data) = {}
          /\ m.origin = "system"
          /\ Consume(m, {PostRelease(m)})
       \/ /\ Hits(m.data) = {}
          /\ m.origin = "self_report"
          /\ Consume(m, {})
    /\ UNCHANGED <<db, now, reported, released>>

-----------------------------------------------------------------------------
(***************************************************************************)
(* mutate                                                                  *)
(***************************************************************************)

FlaggedPositions(data) == {i \in DOMAIN data : data[i].collision}

\* Defective variant of Victims: the highest priority gives way.
HighestPriority(data) ==
    {v \in FlaggedPositions(data) :
        \A i \in FlaggedPositions(data) : data[v].uav <= data[i].uav}

\* The flagged trajectory with the highest uav_id.
Victims(data) ==
    {v \in FlaggedPositions(data) :
        \A i \in FlaggedPositions(data) : data[i].uav <= data[v].uav}

\* Defective variant of Refused: no mutation budget.
RefusedWithoutBudget(m) ==
    \/ (m.origin = "system") # (m.mutations > 0)
    \/ m.cases \in {0, 1} /\ Cardinality(FlaggedPositions(m.data)) <= 1
    \/ m.cases = 3 /\ FlaggedPositions(m.data) = {}

\* fn gives up: too many mutations, a count that does not fit the origin, or
\* too few flagged trajectories for the case at hand (one for the climb).
Refused(m) ==
    \/ m.origin = "system" /\ m.mutations > MaxMutations
    \/ (m.origin = "system") # (m.mutations > 0)
    \/ m.cases \in {0, 1} /\ Cardinality(FlaggedPositions(m.data)) <= 1
    \/ m.cases = 3 /\ FlaggedPositions(m.data) = {}

\* Defective variant of Rewrite: the origin of the item is left as it was.
RewriteUnmarked(data, v, k, id) == [data EXCEPT ![v].kin = k]

\* The victim gets its new motion and the origin 'mutate'.
Rewrite(data, v, k, id) == [data EXCEPT ![v].kin = k, ![v].mut = id]

\* Cases 1 and 2 end by deleting every collision key.
ClearFlags(data) == [i \in DOMAIN data |-> [data[i] EXCEPT !.collision = FALSE]]

\* What the mutation case of the request makes of its trajectories: slower,
\* turned, above (flags kept), or, when every case has been tried, unchanged.
Mutations(m) ==
    CASE m.cases = 0 ->
           {ClearFlags(Rewrite(m.data, v, SlowDown(m.data[v].kin), m.id)) :
                v \in Victims(m.data)}
      [] m.cases = 1 ->
           UNION {{ClearFlags(Rewrite(m.data, v, k, m.id)) : k \in Turn(m.data[v].kin)} :
                v \in Victims(m.data)}
      [] m.cases = 3 ->
           {Rewrite(m.data, v, Climb(m.data[v].kin), m.id) : v \in Victims(m.data)}
      [] m.cases = 7 -> {m.data}

\* Defective variants of NextCases: the second bit is never set, or the bits
\* run past '111'.
NextCasesStuck(c) == IF c = 0 THEN 1 ELSE c
NextCasesUnbounded(c) == 2 * c + 1

\* The case just applied is added to the bits of mutation_cases.
NextCases(c) == IF c = 7 THEN 7 ELSE 2 * c + 1

\* Defective variant of HandleMutate: a round that changes nothing is not
\* counted.
HandleMutateUncounted(m) ==
    /\ m.to = "mutate"
    /\ \/ /\ Refused(m)
          /\ Consume(m, {})
       \/ /\ ~Refused(m)
          /\ \E data \in Mutations(m) :
                Consume(m, {[m EXCEPT !.to = "collisiondetector",
                                      !.origin = "system",
                                      !.mutations = IF m.cases = 7 THEN @ ELSE @ + 1,
                                      !.cases = NextCases(@),
                                      !.data = data]})
    /\ UNCHANGED <<db, now, reported, released>>

HandleMutate(m) ==
    /\ m.to = "mutate"
    /\ \/ /\ Refused(m)
          /\ Consume(m, {})
       \/ /\ ~Refused(m)
          /\ \E data \in Mutations(m) :
                Consume(m, {[m EXCEPT !.to = "collisiondetector",
                                      !.origin = "system",
                                      !.mutations = @ + 1,
                                      !.cases = NextCases(@),
                                      !.data = data]})
    /\ UNCHANGED <<db, now, reported, released>>

-----------------------------------------------------------------------------
(***************************************************************************)
(* release                                                                 *)
(***************************************************************************)

MutatedPositions(data) == {i \in DOMAIN data : data[i].mut # 0}

\* The trajectories whose origin is 'mutate', in list order.
MutatedData(data) ==
    {[k \in DOMAIN pos |-> data[pos[k]]] :
        pos \in {f \in [1 .. Cardinality(MutatedPositions(data)) -> MutatedPositions(data)] :
                    \A a, b \in DOMAIN f : a < b => f[a] < f[b]}}

\* publish may fail (the client's queue is full, its connection never comes
\* back); its result is only logged.
HandOver(id, data) ==
    \E published \in BOOLEAN :
        released' = Append(released, [id |-> id, cmds |-> data, published |-> published])

\* Defective variant of HandleRelease: update gets the whole snapshot.
HandleReleaseUnfiltered(m) ==
    /\ m.to = "release"
    /\ \E data \in MutatedData(m.data) :
          /\ HandOver(m.id, data)
          /\ Consume(m, {PostUpdate(m, m.data)})
    /\ UNCHANGED <<db, now, reported>>

\* The commands are handed to the releases topic, then posted to update in
\* either case.
HandleRelease(m) ==
    /\ m.to = "release"
    /\ \E data \in MutatedData(m.data) :
          /\ HandOver(m.id, data)
          /\ Consume(m, {PostUpdate(m, data)})
    /\ UNCHANGED <<db, now, reported>>

-----------------------------------------------------------------------------
Tick ==
    /\ now < MaxTime
    /\ now' = now + 1
    /\ UNCHANGED <<net, db, reported, released>>

\* A function runs on a post that reached it.
Handle(m) ==
    \/ HandleUpdate(m)
    \/ HandleTrigger(m)
    \/ HandleDetector(m)
    \/ HandleMutate(m)
    \/ HandleRelease(m)

Next ==
    \/ \E u \in Uav : \E k \in ReportKin(u) : Report(u, k)
    \/ \E m \in net : Handle(m)
    \/ \E m \in net : Lose(m)
    \/ Tick

Spec == Init /\ [][Next]_vars

\* tinyFaaS runs or drops every post it accepted; the handler threads of
\* different requests do not wait for each other.
Fairness ==
    \A id \in Request :
        WF_vars(\E m \in net : m.id = id /\ (Handle(m) \/ Lose(m)))

FairSpec == Spec /\ Fairness

\* The requests meet only through the database: a UAV reports when the chain of
\* the last report has ended, and no two updates share a timestamp.
Stamped == \E d \in db : d.created = now

SuccessiveNext ==
    \/ net = {} /\ \E u \in Uav : \E k \in ReportKin(u) : Report(u, k)
    \/ \E m \in net : (m.to = "update" => ~Stamped) /\ Handle(m)
    \/ \E m \in net : Lose(m)
    \/ Tick

SuccessiveSpec == Init /\ [][SuccessiveNext]_vars

-----------------------------------------------------------------------------
(***************************************************************************)
(* Properties                                                              *)
(***************************************************************************)

\* Every message, document and released list has the shape the functions
\* expect of each other.
TypeOK ==
    /\ net \subseteq Message
    /\ db \subseteq Doc
    /\ now \in 0 .. MaxTime
    /\ reported \in Seq(Uav)
    /\ Len(reported) <= MaxReports
    /\ released \in Seq(Handover)

\* A request never forks: at most one post carries its id, although update,
\* collision-detector, mutate and release all re-post the same meta.
OnePostPerRequest ==
    \A m, n \in net : m.id = n.id => m = n

\* Two commands of one release never put their UAVs in conflict, whatever the
\* order of mutations, re-checks and stale trajectories that led to it
\* (collision-detector/fn.py:67-82: only a clean re-check leads to release).
ReleasedSeparated ==
    \A r \in 1 .. Len(released) : \A a, b \in DOMAIN released[r].cmds :
        a # b => ~Conflict(released[r].cmds[a].kin, released[r].cmds[b].kin)

\* A release is never empty and never only repeats other requests' commands:
\* it carries at least one trajectory its own request rewrote.
OwnCommandReleased ==
    \A r \in 1 .. Len(released) :
        \E a \in DOMAIN released[r].cmds :
            released[r].cmds[a].mut = released[r].id

\* The database holds reports and commands of finished re-plans and nothing in
\* between: no trajectory of an unfinished one is ever stored for later
\* snapshots.  The commands need not have been published: release posts them to
\* update also when publish failed (release/fn.py:70-81), so the database may
\* hold commands that no UAV ever gets.
DatabaseProvenance ==
    \A d \in db :
        \/ /\ d.traj.mut = 0
           /\ ~d.traj.collision
           /\ d.traj.kin \in ReportKin(d.traj.uav)
        \/ \E r \in 1 .. Len(released) :
               \E a \in DOMAIN released[r].cmds : released[r].cmds[a] = d.traj

\* The error returns of mutate (mutate.py:12 and :45, mutate/fn.py:71, the
\* empty max at :103) are never taken: only the mutation budget ends a request
\* there, although flags come from the scan, from earlier rounds and from the
\* database.
OnlyBudgetRefuses ==
    \A m \in net : m.to = "mutate" /\ Refused(m) => m.mutations > MaxMutations

\* The count and the case bits that mutate keeps in meta agree on how far the
\* request is, and the origin says whether it has been mutated at all; the
\* functions in between only hand meta on.
MetaAgrees ==
    \A m \in net :
        /\ m.mutations <= MaxMutations + 1
        /\ (m.origin = "system") = (m.mutations > 0)
        /\ m.cases = (CASE m.mutations = 0 -> 0
                        [] m.mutations = 1 -> 1
                        [] m.mutations = 2 -> 3
                        [] OTHER -> 7)

\* Only the lowest-priority flagged UAV gives way: when a mutation changes the
\* motion of a UAV, another flagged UAV of higher priority keeps its own.
PriorityRespected ==
    [][\A m \in net, n \in net' :
        (m.id = n.id /\ m.to = "mutate" /\ n.to = "collisiondetector") =>
            \A i \in DOMAIN m.data :
                n.data[i].kin # m.data[i].kin =>
                    \E h \in FlaggedPositions(m.data) :
                        /\ m.data[h].uav < m.data[i].uav
                        /\ n.data[h].kin = m.data[h].kin]_vars

\* The request's state as the abstract specification sees it.
PostsOf(id) == {m \in net : m.id = id}
IsReleased(id) ==
    \E r \in 1 .. Len(released) : released[r].id = id /\ released[r].published

PhaseOf(id) ==
    IF id > Len(reported) THEN "none"
    ELSE IF IsReleased(id) THEN "released"
    ELSE IF PostsOf(id) # {} THEN "checking"
    ELSE "closed"

RoundsOf(id) ==
    IF PhaseOf(id) = "checking" THEN (CHOOSE m \in PostsOf(id) : TRUE).mutations ELSE 0

Life == INSTANCE RequestLife
    WITH MaxRounds <- MaxMutations + 1,
         phase <- [id \in Request |-> PhaseOf(id)],
         rounds <- [id \in Request |-> RoundsOf(id)]

\* The chain implements RequestLife: whatever is lost, delayed or interleaved,
\* a request is released at most once, after at least one and at most
\* MAX_MUTATIONS + 1 mutations, and never comes back after it ended.  (One whose
\* publish failed is closed without having been released.)
ImplementsLife == Life!LifeSpec

\* Every request's chain ends: it is released, aborted, found safe or lost, but
\* mutate and collision-detector never call each other for ever.
ChainTerminates ==
    \A id \in Request : PostsOf(id) # {} ~> PostsOf(id) = {}

\* When the last request came to release and its commands are what the
\* database now has of their UAVs, no two UAVs of the database are in conflict:
\* the release, the copy of it that goes back through update, and the reports
\* and commands left by earlier requests add up to a separated fleet, although
\* an insert may fail half-way (store_update.py:21) or a report be missing
\* (update/fn.py:66).  It is stated for requests that do not overlap.
RestSeparated ==
    /\ net = {}
    /\ released # <<>>
    /\ released[Len(released)].id = Len(reported)
    /\ \A a \in DOMAIN released[Len(released)].cmds :
           released[Len(released)].cmds[a] \in Latest
    => \A t, w \in Latest : t # w => ~Conflict(t.kin, w.kin)

\* What the comments on the mutations say: the UAV that gives way is one of two
\* colliding UAVs (mutate.py:7 and :39).
VictimIsColliding ==
    \A m \in net :
        m.to = "mutate" =>
            \A v \in Victims(m.data) : \E p \in Hits(m.data) : v \in {p[1], p[2]}

=============================================================================
