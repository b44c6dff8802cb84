--------------------------- MODULE ScenarioRunner ---------------------------
(***************************************************************************)
(* scenario_runner.py: run_scenario starts one operating-system process    *)
(* per drone of a scenario file, then waits until all of them have exited  *)
(* or an interrupt stops them.  Scenarios are run one after the other;     *)
(* what one run leaves behind is still there in the next.                  *)
(***************************************************************************)
EXTENDS Naturals, Sequences, FiniteSets

CONSTANTS
    Scenario,   \* the scenario files: sequences of uav_ids
    Process,    \* bound: UAV processes at one time
    None        \* no process, no UAV

Uav == UNION {{s[i] : i \in DOMAIN s} : s \in Scenario}

ASSUME RunnerAssumption ==
    /\ \A s \in Scenario : s \in Seq(Uav)
    /\ None \notin Process \union Uav

VARIABLES
    runner,     \* the control state of run_scenario
    drones,     \* the drones it has still to start
    children,   \* the processes it has started
    procs,      \* those of them in its list
    proc,       \* [Process -> "none", "starting", "flying", "listening" or "dead"]
    uavOf       \* [Process -> Uav or None]

runnerVars == <<runner, drones, children, procs, proc, uavOf>>

\* How run_scenario ends: it returns with --detach, raises, finds all UAVs
\* exited, or completes the shutdown.
Outcome == {"detached", "raised", "exited", "stopped"}

\* A flying process has a publisher, a listening one also a subscriber.
Alive(p) == proc[p] \in {"starting", "flying", "listening"}

RunnerInit ==
    /\ runner = "idle"
    /\ drones = <<>>
    /\ children = {}
    /\ procs = {}
    /\ proc = [p \in Process |-> "none"]
    /\ uavOf = [p \in Process |-> None]

-----------------------------------------------------------------------------
\* The next run, of scenario s.  (Dead processes make room for its own.)
Start(s) ==
    /\ runner \in Outcome \union {"idle"}
    /\ Cardinality({p \in Process : ~Alive(p)}) >= Len(s)
    /\ runner' = "spawning"
    /\ drones' = s
    /\ children' = {}
    /\ procs' = {}
    /\ proc' = [p \in Process |-> IF Alive(p) THEN proc[p] ELSE "none"]
    /\ UNCHANGED uavOf

Spawn(p) ==
    /\ runner = "spawning"
    /\ drones # <<>>
    /\ proc[p] = "none"
    /\ proc' = [proc EXCEPT ![p] = "starting"]
    /\ uavOf' = [uavOf EXCEPT ![p] = Head(drones)]
    /\ children' = children \union {p}
    /\ drones' = Tail(drones)
    /\ runner' = "listing"
    /\ UNCHANGED procs

\* Defective variant of List: the list is made after the last Popen.
ListLast ==
    /\ runner = "listing"
    /\ procs' = IF drones = <<>> THEN children ELSE procs
    /\ runner' = "spawning"
    /\ UNCHANGED <<drones, children, proc, uavOf>>

\* procs.append(p)
List ==
    /\ runner = "listing"
    /\ procs' = children
    /\ runner' = "spawning"
    /\ UNCHANGED <<drones, children, proc, uavOf>>

Goto(label) ==
    /\ runner' = label
    /\ UNCHANGED <<drones, children, procs, proc, uavOf>>

\* _uav_args misses a field or Popen raises: only an interrupt is caught.
SpawnFails ==
    /\ runner = "spawning"
    /\ drones # <<>>
    /\ Goto("raised")

AllSpawned ==
    /\ runner = "spawning"
    /\ drones = <<>>
    /\ Goto("detached") \/ Goto("waiting")

\* The polling loop finds every process exited.
Poll ==
    /\ runner = "waiting"
    /\ \A p \in procs : ~Alive(p)
    /\ Goto("exited")

\* Ctrl+C, also between Popen and append: the process just started is then never
\* listed.  terminate is sent to every listed process, and a terminal may have sent
\* the signal to all (on Windows not: each has a group of its own): they may end
\* (Ends).
Interrupt ==
    /\ runner \in {"spawning", "listing", "waiting"}
    /\ Goto("terminating")

\* What has not ended a second later is killed.
Kill ==
    /\ runner = "terminating"
    /\ runner' = "stopped"
    /\ proc' = [p \in Process |-> IF p \in procs THEN "dead" ELSE proc[p]]
    /\ uavOf' = [p \in Process |-> IF p \in procs THEN None ELSE uavOf[p]]
    /\ UNCHANGED <<drones, children, procs>>

\* A second Ctrl+C while the handler of the first one runs.
InterruptAgain ==
    /\ runner = "terminating"
    /\ Goto("raised")

\* A UAV process ends: a signal, a crash, or a broker it cannot reach.
Ends(p) ==
    /\ Alive(p)
    /\ proc' = [proc EXCEPT ![p] = "dead"]
    /\ uavOf' = [uavOf EXCEPT ![p] = None]
    /\ UNCHANGED <<runner, drones, children, procs>>

\* The steps of the runner that end no process.
RunnerStep ==
    \/ \E s \in Scenario : Start(s)
    \/ \E p \in Process : Spawn(p)
    \/ List
    \/ SpawnFails
    \/ AllSpawned
    \/ Poll
    \/ Interrupt
    \/ InterruptAgain

-----------------------------------------------------------------------------
\* What a run leaves running (scenario_runner.py:91-116): nothing when it says that
\* all processes have exited; after "Shutdown complete" at most one process of the
\* run, however many were started and whenever the interrupt came.
AtMostOneLeft ==
    /\ runner = "exited" => \A p \in children : ~Alive(p)
    /\ runner = "stopped" => \A p, q \in children : Alive(p) /\ Alive(q) => p = q

=============================================================================
