------------------------------- MODULE Fleet -------------------------------
(***************************************************************************)
(* The UAV processes of the scenarios on one MQTT broker.  Each process    *)
(* has two paho clients with persistent sessions: the publisher, whose     *)
(* client id "uav-publisher" all processes share, and the subscriber,      *)
(* whose id names the UAV.  The broker closes the connection that holds an *)
(* id when another client connects with it; paho connects again.           *)
(***************************************************************************)
EXTENDS ScenarioRunner

CONSTANT
    Command     \* bound: the commands a session holds at one time

VARIABLES
    publisher,  \* the process whose connection holds "uav-publisher", or None
    report,     \* [Process -> "none", or "queued" by paho: its last report]
    subscriber, \* [Uav -> Process or None]: the connection of the UAV's session
    session,    \* the UAVs that have a session
    queue       \* [Uav -> SUBSET Command]: the unacknowledged ones of the session

connections == <<publisher, subscriber>>
releases == <<session, queue>>
vars == <<runnerVars, connections, report, releases>>

Init ==
    /\ RunnerInit
    /\ publisher = None
    /\ report = [p \in Process |-> "none"]
    /\ subscriber = [u \in Uav |-> None]
    /\ session = {}
    /\ queue = [u \in Uav |-> {}]

Flies(p) == proc[p] \in {"flying", "listening"}

-----------------------------------------------------------------------------
(***************************************************************************)
(* The publisher                                                           *)
(***************************************************************************)

\* create_producer connects before the loop starts.  (If it cannot, the process
\* ends: Ends.)
Launch(p) ==
    /\ proc[p] = "starting"
    /\ proc' = [proc EXCEPT ![p] = "flying"]
    /\ publisher' = p
    /\ UNCHANGED <<runner, drones, children, procs, uavOf, report, subscriber, releases>>

\* Defective variant of Reconnect: it gives way to a process that holds the id.
GiveWay(p) ==
    /\ Flies(p)
    /\ publisher = None
    /\ publisher' = p
    /\ UNCHANGED <<runnerVars, report, subscriber, releases>>

\* loop_forever connects again when the connection is gone, which takes the id
\* from the process that holds it.
Reconnect(p) ==
    /\ Flies(p)
    /\ publisher # p
    /\ publisher' = p
    /\ UNCHANGED <<runnerVars, report, subscriber, releases>>

\* publish_position_update hands the report to paho, connected or not.
Publish(p) ==
    /\ Flies(p)
    /\ report[p] = "none"
    /\ report' = [report EXCEPT ![p] = "queued"]
    /\ UNCHANGED <<runnerVars, connections, releases>>

\* It reaches the broker and is acknowledged.  (If the connection goes before
\* the acknowledgement, it stays queued and is sent again.)
Send(p) ==
    /\ publisher = p
    /\ report[p] = "queued"
    /\ report' = [report EXCEPT ![p] = "none"]
    /\ UNCHANGED <<runnerVars, connections, releases>>

-----------------------------------------------------------------------------
(***************************************************************************)
(* The subscriber                                                          *)
(***************************************************************************)

\* Defective variant of Subscribe: the client connects only once.
SubscribeOnce(p) ==
    /\ proc[p] = "flying"
    /\ proc' = [proc EXCEPT ![p] = "listening"]
    /\ subscriber' = [subscriber EXCEPT ![uavOf[p]] = p]
    /\ session' = session \union {uavOf[p]}
    /\ UNCHANGED <<runner, drones, children, procs, uavOf, publisher, report, queue>>

\* The thread's client connects, the first time or again, and subscribes; an
\* earlier process of this UAV loses its connection.  (If the first connect
\* raises, the daemon thread ends and the process flies on without it.)
Subscribe(p) ==
    /\ Flies(p)
    /\ subscriber[uavOf[p]] # p
    /\ proc' = [proc EXCEPT ![p] = "listening"]
    /\ subscriber' = [subscriber EXCEPT ![uavOf[p]] = p]
    /\ session' = session \union {uavOf[p]}
    /\ UNCHANGED <<runner, drones, children, procs, uavOf, publisher, report, queue>>

\* A command for UAV u is published; without a session it is not kept.
Release(u, c) ==
    /\ queue' = IF u \in session
                THEN [queue EXCEPT ![u] = @ \union {c}] ELSE queue
    /\ UNCHANGED <<runnerVars, connections, report, session>>

\* The callback executes a queued command and acknowledges it.  (If the
\* connection goes before the acknowledgement, the command stays queued.)
Execute(p, c) ==
    /\ Flies(p)
    /\ subscriber[uavOf[p]] = p
    /\ c \in queue[uavOf[p]]
    /\ queue' = [queue EXCEPT ![uavOf[p]] = @ \ {c}]
    /\ UNCHANGED <<runnerVars, connections, report, session>>

-----------------------------------------------------------------------------
\* Defective variant of Close: the connections stay until a keep-alive is missed.
CloseLater(ended) ==
    /\ report' = [p \in Process |-> IF p \in ended THEN "none" ELSE report[p]]
    /\ UNCHANGED <<connections, releases>>

\* What processes that end take with them: paho's queue, the subscriber thread
\* and the connections, which the operating system closes.
Close(ended) ==
    /\ publisher' = IF publisher \in ended THEN None ELSE publisher
    /\ report' = [p \in Process |-> IF p \in ended THEN "none" ELSE report[p]]
    /\ subscriber' = [u \in Uav |-> IF subscriber[u] \in ended THEN None ELSE subscriber[u]]
    /\ UNCHANGED releases

\* A connection breaks.
Break ==
    /\ \/ publisher' = None /\ UNCHANGED subscriber
       \/ \E u \in Uav : subscriber' = [subscriber EXCEPT ![u] = None] /\ UNCHANGED publisher
    /\ UNCHANGED <<runnerVars, report, releases>>

Fly(p) ==
    \/ Launch(p)
    \/ Reconnect(p)
    \/ Publish(p)
    \/ Send(p)
    \/ Subscribe(p)
    \/ \E c \in Command : Execute(p, c)

Next ==
    \/ RunnerStep /\ UNCHANGED <<connections, report, releases>>
    \/ Kill /\ Close(procs)
    \/ \E p \in Process : Ends(p) /\ Close({p})
    \/ \E p \in Process : Fly(p)
    \/ \E u \in Uav, c \in Command : Release(u, c)
    \/ Break

Spec == Init /\ [][Next]_vars

\* Displaced clients wait at least a second before they connect again, time
\* enough for the one that displaced them to send and to receive what is
\* queued.  A first subscription may fail for ever: only a listening process
\* connects again.
FairSpec ==
    /\ Spec
    /\ \A p \in Process :
          /\ WF_vars(Reconnect(p))
          /\ WF_vars(proc[p] = "listening" /\ Subscribe(p))
          /\ SF_vars(Send(p))
          /\ \A c \in Command : SF_vars(Execute(p, c))

-----------------------------------------------------------------------------
(***************************************************************************)
(* Properties                                                              *)
(***************************************************************************)

\* Every variable has its type, and a connection belongs to a process that
\* flies: what an exit (Ends, Kill) leaves of a process is the session.
TypeOK ==
    /\ runner \in Outcome \union
           {"idle", "spawning", "listing", "waiting", "terminating"}
    /\ drones \in Seq(Uav)
    /\ children \subseteq Process
    /\ procs \subseteq children
    /\ proc \in [Process -> {"none", "starting", "flying", "listening", "dead"}]
    /\ uavOf \in [Process -> Uav \union {None}]
    /\ \A p \in Process : Alive(p) <=> uavOf[p] # None
    /\ publisher \in Process \union {None}
    /\ publisher # None => Flies(publisher)
    /\ report \in [Process -> {"none", "queued"}]
    /\ subscriber \in [Uav -> Process \union {None}]
    /\ \A u \in Uav : subscriber[u] # None =>
           /\ proc[subscriber[u]] = "listening"
           /\ uavOf[subscriber[u]] = u
    /\ session \subseteq Uav
    /\ queue \in [Uav -> SUBSET Command]

\* A report reaches the broker, unless its process ends, although the processes
\* displace each other's publisher for ever (publisher.py:14).
ReportsArrive ==
    \A p \in Process :
        report[p] # "none" ~> report[p] = "none"

\* A command in a UAV's session is executed when a process of this UAV listens
\* and does not end, also one that was started after the release or one that an
\* earlier run's process of the same UAV keeps displacing (subscriber.py:39-41).
CommandsExecuted ==
    \A u \in Uav, c \in Command, p \in Process :
        c \in queue[u] /\ uavOf[p] = u /\ proc[p] = "listening"
            ~> c \notin queue[u] \/ uavOf[p] # u

=============================================================================
