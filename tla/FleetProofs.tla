---------------------------- MODULE FleetProofs ----------------------------
(***************************************************************************)
(* Proofs about the runs of scenarios and the processes they leave, for    *)
(* any scenarios, any number of processes and any commands.                *)
(***************************************************************************)
EXTENDS Fleet, TLAPS

\* The part of TypeOK that a step of the runner can disturb.
RunnerType ==
    /\ runner \in Outcome \union
           {"idle", "spawning", "listing", "waiting", "terminating"}
    /\ drones \in Seq(Uav)
    /\ children \subseteq Process
    /\ procs \subseteq children
    /\ proc \in [Process -> {"none", "starting", "flying", "listening", "dead"}]
    /\ uavOf \in [Process -> Uav \union {None}]
    /\ \A p \in Process : Alive(p) <=> uavOf[p] # None

\* The rest: what the processes have at the broker.
BrokerType ==
    /\ publisher \in Process \union {None}
    /\ publisher # None => Flies(publisher)
    /\ report \in [Process -> {"none", "queued"}]
    /\ subscriber \in [Uav -> Process \union {None}]
    /\ \A u \in Uav : subscriber[u] # None =>
           /\ proc[subscriber[u]] = "listening"
           /\ uavOf[subscriber[u]] = u
    /\ session \subseteq Uav
    /\ queue \in [Uav -> SUBSET Command]

LEMMA TypeParts == TypeOK <=> RunnerType /\ BrokerType
BY DEF TypeOK, RunnerType, BrokerType

\* A step of the runner keeps the types, and neither ends a process nor changes
\* the UAV of one that runs.
LEMMA RunnerStepType ==
  ASSUME RunnerType, RunnerStep
  PROVE  /\ RunnerType'
         /\ \A p \in Process : Alive(p) => proc'[p] = proc[p] /\ uavOf'[p] = uavOf[p]
<1>1. ASSUME NEW s \in Scenario, Start(s)
      PROVE  /\ RunnerType'
             /\ \A p \in Process : Alive(p) => proc'[p] = proc[p] /\ uavOf'[p] = uavOf[p]
  <2>1. /\ drones' \in Seq(Uav)
        /\ proc' \in [Process -> {"none", "starting", "flying", "listening", "dead"}]
    BY <1>1, RunnerAssumption DEF Start, RunnerType
  <2>2. \A p \in Process : (Alive(p))' <=> Alive(p)
    BY <1>1 DEF Start, RunnerType, Alive
  <2>3. \A p \in Process : Alive(p) => proc'[p] = proc[p]
    BY <1>1 DEF Start
  <2> QED
    BY <1>1, <2>1, <2>2, <2>3 DEF Start, RunnerType
<1>2. ASSUME NEW p \in Process, Spawn(p)
      PROVE  /\ RunnerType'
             /\ \A q \in Process : Alive(q) => proc'[q] = proc[q] /\ uavOf'[q] = uavOf[q]
  <2>1. Head(drones) \in Uav /\ drones' \in Seq(Uav) /\ Head(drones) # None
    BY <1>2, RunnerAssumption DEF Spawn, RunnerType
  <2>2. \A q \in Process : (Alive(q))' <=> q = p \/ Alive(q)
    BY <1>2 DEF Spawn, RunnerType, Alive
  <2>3. \A q \in Process : Alive(q) => q # p
    BY <1>2 DEF Spawn, Alive
  <2>4. \A q \in Process : (Alive(q))' <=> uavOf'[q] # None
    BY <1>2, <2>1, <2>2 DEF Spawn, RunnerType
  <2> QED
    BY <1>2, <2>1, <2>3, <2>4 DEF Spawn, RunnerType
<1>3. CASE List
  BY <1>3 DEF List, RunnerType, Alive
<1>4. CASE SpawnFails \/ AllSpawned \/ Poll \/ Interrupt \/ InterruptAgain
  BY <1>4 DEF SpawnFails, AllSpawned, Poll, Interrupt, InterruptAgain, Goto,
     RunnerType, Alive, Outcome
<1> QED
  BY <1>1, <1>2, <1>3, <1>4 DEF RunnerStep

\* Processes that end and leave: the connections of the others stay.
LEMMA CloseType ==
  ASSUME RunnerType, BrokerType, NEW ended \in SUBSET Process,
         Close(ended),
         proc' = [p \in Process |-> IF p \in ended THEN "dead" ELSE proc[p]],
         uavOf' = [p \in Process |-> IF p \in ended THEN None ELSE uavOf[p]],
         UNCHANGED <<drones, children, procs>>,
         runner' \in {runner, "stopped"}
  PROVE  RunnerType' /\ BrokerType'
<1>1. \A p \in Process : (Alive(p))' <=> Alive(p) /\ p \notin ended
  BY DEF Alive
<1>2. RunnerType'
  BY <1>1 DEF RunnerType, Outcome
<1>3. publisher' # None => publisher' = publisher /\ publisher \notin ended
  BY DEF Close
<1>4. publisher' \in Process \union {None} /\ (publisher' # None => (Flies(publisher))')
  BY <1>3 DEF BrokerType, Flies
<1>5. \A u \in Uav : subscriber'[u] # None =>
         /\ subscriber'[u] = subscriber[u]
         /\ subscriber[u] \notin ended
  BY DEF Close
<1>6. \A u \in Uav : subscriber'[u] # None =>
         /\ proc'[subscriber'[u]] = "listening"
         /\ uavOf'[subscriber'[u]] = u
  BY <1>5 DEF BrokerType
<1> QED
  BY <1>2, <1>4, <1>6 DEF BrokerType, Close, releases

\* A step of a process, of a UAV's commands or of the network.
LEMMA FlyType ==
  ASSUME RunnerType, BrokerType, NEW p \in Process, Fly(p)
  PROVE  RunnerType' /\ BrokerType'
<1>1. CASE Launch(p)
  BY <1>1 DEF Launch, RunnerType, BrokerType, Alive, Flies, releases
<1>2. CASE Reconnect(p) \/ Publish(p) \/ Send(p)
  BY <1>2 DEF Reconnect, Publish, Send, RunnerType, BrokerType, Alive, Flies,
     runnerVars, connections, releases
<1>3. CASE Subscribe(p)
  <2>1. /\ uavOf[p] \in Uav
        /\ \A q \in Process : (Alive(q))' <=> Alive(q)
        /\ \A q \in Process : (Flies(q))' <=> Flies(q)
    BY <1>3 DEF Subscribe, RunnerType, Alive, Flies
  <2>2. RunnerType'
    BY <1>3, <2>1 DEF Subscribe, RunnerType
  <2>3. BrokerType'
    BY <1>3, <2>1 DEF Subscribe, BrokerType, RunnerType
  <2> QED
    BY <2>2, <2>3
<1>4. ASSUME NEW c \in Command, Execute(p, c) PROVE RunnerType' /\ BrokerType'
  BY <1>4 DEF Execute, RunnerType, BrokerType, Alive, Flies, runnerVars, connections
<1> QED
  BY <1>1, <1>2, <1>3, <1>4 DEF Fly

\* Every variable keeps its type, and whatever ends a process - a crash, a
\* signal, the shutdown of its run - leaves no connection behind.
THEOREM TypeInvariant == Spec => []TypeOK
<1>1. Init => RunnerType /\ BrokerType
  BY RunnerAssumption DEF Init, RunnerInit, RunnerType, BrokerType, Alive, Outcome
<1>2. ASSUME RunnerType, BrokerType, [Next]_vars PROVE RunnerType' /\ BrokerType'
  <2>1. CASE RunnerStep /\ UNCHANGED <<connections, report, releases>>
    <3>1. /\ RunnerType'
          /\ \A p \in Process : Alive(p) => proc'[p] = proc[p] /\ uavOf'[p] = uavOf[p]
      BY <1>2, <2>1, RunnerStepType
    <3>2. \A p \in Process : Flies(p) \/ proc[p] = "listening" => Alive(p)
      BY DEF Flies, Alive
    <3>3. BrokerType'
      BY <1>2, <2>1, <3>1, <3>2 DEF BrokerType, connections, releases, Flies
    <3> QED
      BY <3>1, <3>3
  <2>2. CASE Kill /\ Close(procs)
    <3>1. procs \in SUBSET Process
      BY <1>2 DEF RunnerType
    <3> QED
      BY <1>2, <2>2, <3>1, CloseType DEF Kill
  <2>3. ASSUME NEW p \in Process, Ends(p), Close({p}) PROVE RunnerType' /\ BrokerType'
    <3>1. /\ proc' = [q \in Process |-> IF q \in {p} THEN "dead" ELSE proc[q]]
          /\ uavOf' = [q \in Process |-> IF q \in {p} THEN None ELSE uavOf[q]]
      BY <1>2, <2>3 DEF Ends, RunnerType
    <3> QED
      BY <1>2, <2>3, <3>1, CloseType DEF Ends
  <2>4. ASSUME NEW p \in Process, Fly(p) PROVE RunnerType' /\ BrokerType'
    BY <1>2, <2>4, FlyType
  <2>5. ASSUME NEW u \in Uav, NEW c \in Command, Release(u, c)
        PROVE  RunnerType' /\ BrokerType'
    BY <1>2, <2>5 DEF Release, RunnerType, BrokerType, Alive, Flies, runnerVars, connections
  <2>6. CASE Break
    BY <1>2, <2>6 DEF Break, RunnerType, BrokerType, Alive, Flies, runnerVars, releases
  <2>7. CASE UNCHANGED vars
    BY <1>2, <2>7 DEF vars, RunnerType, BrokerType, Alive, Flies, runnerVars,
       connections, releases
  <2> QED
    BY <1>2, <2>1, <2>2, <2>3, <2>4, <2>5, <2>6, <2>7 DEF Next
<1> QED
  BY <1>1, <1>2, TypeParts, PTL DEF Spec

-----------------------------------------------------------------------------
\* While no Popen is waiting for its append the list holds every process of the
\* run; otherwise, and until a shutdown is over, at most one is missing.
ListInv ==
    /\ runner \in {"spawning", "waiting"} => procs = children
    /\ runner \in {"listing", "terminating"} => \A p, q \in children \ procs : p = q
    /\ AtMostOneLeft

\* A run that says all its processes have exited is right, and after a completed
\* shutdown at most one process of the run is alive, for any scenario, any number
\* of processes and an interrupt at any time (AtMostOneLeft).
THEOREM OneLeftAtMost == Spec => []AtMostOneLeft
<1>1. Init => ListInv
  BY DEF Init, RunnerInit, ListInv, AtMostOneLeft
<1>2. ASSUME TypeOK, ListInv, [Next]_vars PROVE ListInv'
  <2>1. ASSUME NEW s \in Scenario, Start(s) PROVE ListInv'
    BY <2>1 DEF Start, ListInv, AtMostOneLeft
  <2>2. ASSUME NEW p \in Process, Spawn(p) PROVE ListInv'
    <3>1. /\ runner = "spawning" /\ runner' = "listing"
          /\ children' = children \union {p} /\ procs' = procs
      BY <2>2 DEF Spawn
    <3>2. children' \ procs' \subseteq {p}
      BY <1>2, <3>1 DEF ListInv
    <3> QED
      BY <3>1, <3>2 DEF ListInv, AtMostOneLeft
  <2>3. CASE List
    BY <2>3 DEF List, ListInv, AtMostOneLeft
  <2>4. CASE SpawnFails \/ AllSpawned \/ Interrupt \/ InterruptAgain
    BY <1>2, <2>4 DEF SpawnFails, AllSpawned, Interrupt, InterruptAgain, Goto,
       ListInv, AtMostOneLeft
  <2>5. CASE Poll
    BY <1>2, <2>5 DEF Poll, Goto, ListInv, AtMostOneLeft, Alive
  <2>6. CASE Kill
    BY <1>2, <2>6 DEF Kill, ListInv, AtMostOneLeft, Alive, TypeOK
  <2>7. ASSUME NEW p \in Process, Ends(p) PROVE ListInv'
    BY <1>2, <2>7 DEF Ends, ListInv, AtMostOneLeft, Alive, TypeOK
  <2>8. ASSUME NEW p \in Process, Fly(p) PROVE ListInv'
    <3>1. /\ UNCHANGED <<runner, drones, children, procs>>
          /\ \A q \in Process : (Alive(q))' <=> Alive(q)
      BY <1>2, <2>8 DEF Fly, Launch, Reconnect, Publish, Send, Subscribe, Execute,
         runnerVars, Flies, Alive, TypeOK
    <3> QED
      BY <1>2, <3>1 DEF ListInv, AtMostOneLeft, TypeOK
  <2>9. ASSUME UNCHANGED runnerVars PROVE ListInv'
    BY <1>2, <2>9 DEF runnerVars, ListInv, AtMostOneLeft, Alive
  <2>10. CASE \/ \E u \in Uav, c \in Command : Release(u, c)
              \/ Break
              \/ UNCHANGED vars
    BY <2>9, <2>10 DEF Release, Break, vars
  <2> QED
    BY <1>2, <2>1, <2>2, <2>3, <2>4, <2>5, <2>6, <2>7, <2>8, <2>10 DEF Next, RunnerStep
<1>3. ListInv => AtMostOneLeft
  BY DEF ListInv
<1> QED
  BY <1>1, <1>2, <1>3, TypeInvariant, PTL DEF Spec

-----------------------------------------------------------------------------
\* The broker keeps commands only for a UAV that has a session.
QueueInSession == \A u \in Uav : queue[u] # {} => u \in session

\* Sessions are persistent: a command leaves one only when a listening process
\* of this UAV, the only one connected to it, has executed it, and a report
\* leaves its process only through the connection with the shared client id,
\* held by this process, or with the process.  So no shutdown and no displaced
\* or broken connection loses a command, and only the end of its process loses a
\* report.
KeptUntilHandled ==
    [][/\ session \subseteq session'
       /\ \A u \in Uav, c \in Command : c \in queue[u] /\ c \notin queue'[u] =>
              \E p \in Process :
                  proc[p] = "listening" /\ uavOf[p] = u /\ subscriber[u] = p
       /\ \A p \in Process : report[p] = "queued" /\ report'[p] # "queued" =>
              (publisher = p /\ Flies(p)) \/ ~Alive(p)']_vars

\* For any scenarios and any number of processes, sharing a client id or not.
THEOREM NothingLostUnhandled == Spec => KeptUntilHandled /\ []QueueInSession
<1> DEFINE Kept ==
              /\ session \subseteq session'
              /\ \A u \in Uav, c \in Command : c \in queue[u] /\ c \notin queue'[u] =>
                     \E p \in Process :
                         proc[p] = "listening" /\ uavOf[p] = u /\ subscriber[u] = p
              /\ \A p \in Process : report[p] = "queued" /\ report'[p] # "queued" =>
                     (publisher = p /\ Flies(p)) \/ ~Alive(p)'
<1>1. Init => QueueInSession
  BY DEF Init, QueueInSession
<1>2. ASSUME TypeOK, QueueInSession, [Next]_vars PROVE Kept /\ QueueInSession'
  <2>1. CASE RunnerStep /\ UNCHANGED <<connections, report, releases>>
    BY <1>2, <2>1 DEF QueueInSession, connections, releases
  <2>2. ASSUME NEW ended \in SUBSET Process, Close(ended),
               \A p \in ended : ~Alive(p)'
        PROVE  Kept /\ QueueInSession'
    BY <1>2, <2>2 DEF Close, QueueInSession, releases, TypeOK
  <2>3. CASE Kill /\ Close(procs)
    <3>1. procs \in SUBSET Process /\ \A p \in procs : ~Alive(p)'
      BY <1>2, <2>3 DEF TypeOK, Kill, Alive
    <3> QED
      BY <2>2, <2>3, <3>1
  <2>4. ASSUME NEW p \in Process, Ends(p), Close({p}) PROVE Kept /\ QueueInSession'
    <3>1. ~Alive(p)'
      BY <1>2, <2>4 DEF TypeOK, Ends, Alive
    <3> QED
      BY <2>2, <2>4, <3>1
  <2>5. ASSUME NEW p \in Process, Launch(p) \/ Reconnect(p) \/ Publish(p) \/ Send(p)
        PROVE  Kept /\ QueueInSession'
    <3>1. UNCHANGED releases
      BY <2>5 DEF Launch, Reconnect, Publish, Send
    <3>2. Send(p) => publisher = p /\ Flies(p)
      BY <1>2, RunnerAssumption DEF TypeOK, Send
    <3>3. \A q \in Process : report[q] = "queued" /\ report'[q] # "queued" => q = p /\ Send(p)
      BY <1>2, <2>5 DEF TypeOK, Launch, Reconnect, Publish, Send
    <3> QED
      BY <1>2, <3>1, <3>2, <3>3 DEF releases, QueueInSession
  <2>6. ASSUME NEW p \in Process, Subscribe(p) PROVE Kept /\ QueueInSession'
    BY <1>2, <2>6 DEF TypeOK, Subscribe, QueueInSession
  <2>7. ASSUME NEW p \in Process, NEW c \in Command, Execute(p, c)
        PROVE  Kept /\ QueueInSession'
    <3>1. uavOf[p] \in Uav /\ proc[p] = "listening"
      <4>1. uavOf[p] \in Uav
        BY <1>2, <2>7 DEF TypeOK, Execute, Flies, Alive
      <4>2. subscriber[uavOf[p]] # None
        BY <2>7, RunnerAssumption DEF Execute
      <4> QED
        BY <1>2, <2>7, <4>1, <4>2 DEF TypeOK, Execute
    <3>2. /\ \A u \in Uav \ {uavOf[p]} : queue'[u] = queue[u]
          /\ queue'[uavOf[p]] \subseteq queue[uavOf[p]]
      BY <1>2, <2>7, <3>1 DEF TypeOK, Execute
    <3>3. session' = session /\ report' = report /\ subscriber[uavOf[p]] = p
      BY <2>7 DEF Execute
    <3> QED
      BY <1>2, <3>1, <3>2, <3>3 DEF QueueInSession
  <2>8. ASSUME NEW u \in Uav, NEW c \in Command, Release(u, c) PROVE Kept /\ QueueInSession'
    BY <1>2, <2>8 DEF TypeOK, Release, QueueInSession
  <2>9. CASE Break \/ UNCHANGED vars
    BY <1>2, <2>9 DEF Break, vars, releases, QueueInSession
  <2> QED
    BY <1>2, <2>1, <2>3, <2>4, <2>5, <2>6, <2>7, <2>8, <2>9 DEF Next, Fly
<1>3. TypeOK /\ QueueInSession /\ [Next]_vars => QueueInSession' /\ [Kept]_vars
  BY <1>2
<1> QED
  BY <1>1, <1>3, TypeInvariant, PTL DEF Spec, KeptUntilHandled

=============================================================================
