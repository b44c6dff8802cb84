-------------------------- MODULE FunctionManager --------------------------
(***************************************************************************)
(* tinyFaaS's management service with its Docker backend and the routing   *)
(* table of its reverse proxy.  Every HTTP request of the manager is a     *)
(* process; createFunction and Delete take functionHandlersMutex only      *)
(* after they have read functionHandlers.  Docker calls and the posts to   *)
(* rproxy may fail (at most MaxFaults times).                              *)
(***************************************************************************)
EXTENDS Naturals, Sequences

CONSTANTS
    Name,       \* function names
    Req,        \* HTTP requests; the interrupt handler runs as one of them
    Threads,    \* the numbers of threads an upload may ask for
    MaxHandler, \* bound: handlers ever created
    MaxFaults   \* bound: failing Docker calls and posts

ASSUME ManagerAssumption ==
    MaxHandler \in Nat /\ MaxFaults \in Nat /\ Threads \subseteq Nat

\* None names no request and no function.
ASSUME NoneAssumption == "none" \notin Req /\ "none" \notin Name

None == "none"
Handler == 1 .. MaxHandler

VARIABLES
    functionHandlers,   \* [Name -> Handler or 0]: the manager's map
    mutex,              \* the request that holds functionHandlersMutex, or None
    hosts,              \* [Name -> Handler or 0]: whose IPs rproxy routes to
    docker,             \* [Handler -> resources]: what exists in Docker
    created,            \* the functions that handlers 1, 2, ... were created for
    pc,                 \* [Req -> control state]
    loc,                \* [Req -> local variables]
    manager,            \* "up", "crashed" or "exited"
    rproxy,             \* TRUE until the interrupt handler kills it
    faults              \* failures so far

vars == <<functionHandlers, mutex, hosts, docker, created, pc, loc,
          manager, rproxy, faults>>

tables == <<functionHandlers, hosts>>

\* Containers: none, created, started but not answering /health, or ready.
Containers == {"none", "created", "started", "ready"}

NoResources == [containers |-> "none", network |-> FALSE]

NoLocals == [op |-> None, name |-> None, threads |-> 0, old |-> 0, fh |-> 0,
             range |-> {}, seen |-> {}]

Init ==
    /\ functionHandlers = [n \in Name |-> 0]
    /\ mutex = None
    /\ hosts = [n \in Name |-> 0]
    /\ docker = [h \in Handler |-> NoResources]
    /\ created = <<>>
    /\ pc = [r \in Req |-> "idle"]
    /\ loc = [r \in Req |-> NoLocals]
    /\ manager = "up"
    /\ rproxy = TRUE
    /\ faults = 0

\* A call fails although nothing in the model makes it fail.
Fault == faults < MaxFaults /\ faults' = faults + 1
NoFault == UNCHANGED faults

\* What a Docker call leaves of a handler.
Leave(h, c, n) == docker' = [docker EXCEPT ![h] = [containers |-> c, network |-> n]]

Registered == {n \in Name : functionHandlers[n] # 0}

\* Wipe and Stop go on with the next name, a single request is answered.
Continue(r) == IF loc[r].op \in {"wipe", "stop"} THEN "range" ELSE "done"

Goto(r, label) == pc' = [pc EXCEPT ![r] = label]

\* Defective variant of Return: the lock is kept.
ReturnLocked(r) == Goto(r, Continue(r)) /\ UNCHANGED mutex

\* Return: the deferred Unlock runs.
Return(r) == Goto(r, Continue(r)) /\ mutex' = None

\* http.Post gave io.EOF and no response: reading its status panics.  The
\* deferred Unlock runs, and net/http recovers the panic of a request, which
\* ends; nobody recovers that of the interrupt handler, which ends the manager.
Panic(r) ==
    /\ Goto(r, "done")
    /\ mutex' = None
    /\ manager' = IF loc[r].op = "stop" THEN "crashed" ELSE manager

-----------------------------------------------------------------------------
(***************************************************************************)
(* Requests arrive                                                         *)
(***************************************************************************)

BeginUpload(r, n, threads) ==
    /\ pc[r] = "idle"
    /\ loc' = [loc EXCEPT ![r].op = "upload", ![r].name = n, ![r].threads = threads]
    /\ Goto(r, "readOld")
    /\ UNCHANGED <<tables, mutex, docker, created, manager, rproxy, faults>>

BeginDelete(r, n) ==
    /\ pc[r] = "idle"
    /\ loc' = [loc EXCEPT ![r].op = "delete", ![r].name = n]
    /\ Goto(r, "readHandler")
    /\ UNCHANGED <<tables, mutex, docker, created, manager, rproxy, faults>>

BeginWipe(r) ==
    /\ pc[r] = "idle"
    /\ loc' = [loc EXCEPT ![r].op = "wipe", ![r].range = Registered]
    /\ Goto(r, "range")
    /\ UNCHANGED <<tables, mutex, docker, created, manager, rproxy, faults>>

\* The interrupt handler kills rproxy, then wipes and exits.
BeginStop(r) ==
    /\ pc[r] = "idle"
    /\ \A q \in Req : loc[q].op # "stop"
    /\ rproxy' = FALSE
    /\ hosts' = [n \in Name |-> 0]
    /\ loc' = [loc EXCEPT ![r].op = "stop", ![r].range = Registered]
    /\ Goto(r, "range")
    /\ UNCHANGED <<functionHandlers, mutex, docker, created, manager, faults>>

-----------------------------------------------------------------------------
(***************************************************************************)
(* createFunction                                                          *)
(***************************************************************************)

\* The old handler is looked up before the lock is taken.
ReadOld(r) ==
    /\ pc[r] = "readOld"
    /\ loc' = [loc EXCEPT ![r].old = functionHandlers[loc[r].name]]
    /\ Goto(r, "lockUpload")
    /\ UNCHANGED <<tables, mutex, docker, created, manager, rproxy, faults>>

\* Defective variant of Lock: createFunction does not take it.
LockDeleteOnly(r) ==
    /\ pc[r] \in {"lockUpload", "lockDelete"}
    /\ pc[r] = "lockDelete" => mutex = None
    /\ mutex' = IF pc[r] = "lockDelete" THEN r ELSE mutex
    /\ Goto(r, IF pc[r] = "lockUpload" THEN "create" ELSE "destroy")
    /\ UNCHANGED <<tables, docker, created, loc, manager, rproxy, faults>>

Lock(r) ==
    /\ pc[r] \in {"lockUpload", "lockDelete"}
    /\ mutex = None
    /\ mutex' = r
    /\ Goto(r, IF pc[r] = "lockUpload" THEN "create" ELSE "destroy")
    /\ UNCHANGED <<tables, docker, created, loc, manager, rproxy, faults>>

\* Image, network and containers, in this order; an error leaves what was
\* made behind.
Create(r) ==
    /\ pc[r] = "create"
    /\ Len(created) < MaxHandler
    /\ created' = Append(created, loc[r].name)
    /\ \/ /\ Leave(Len(created'), IF loc[r].threads = 0 THEN "none" ELSE "created", TRUE)
          /\ loc' = [loc EXCEPT ![r].fh = Len(created')]
          /\ Goto(r, "store")
          /\ NoFault
          /\ UNCHANGED mutex
       \/ /\ \E c \in {"none", "created"}, n \in BOOLEAN :
                (c = "created" => n) /\ Leave(Len(created'), c, n)
          /\ Return(r)
          /\ Fault
          /\ UNCHANGED loc
    /\ UNCHANGED <<tables, manager, rproxy>>

Store(r) ==
    /\ pc[r] = "store"
    /\ functionHandlers' = [functionHandlers EXCEPT ![loc[r].name] = loc[r].fh]
    /\ Goto(r, "start")
    /\ UNCHANGED <<mutex, hosts, docker, created, loc, manager, rproxy, faults>>

\* Start returns when every container answers /health, or with an error when
\* one cannot be inspected or never answers.
Start(r) ==
    /\ pc[r] = "start"
    /\ \/ /\ IF loc[r].threads = 0 THEN UNCHANGED docker
             ELSE Leave(loc[r].fh, "ready", TRUE)
          /\ Goto(r, "notifyAdd")
          /\ NoFault
          /\ UNCHANGED mutex
       \/ /\ loc[r].threads > 0
          /\ \E c \in {"created", "started"} : Leave(loc[r].fh, c, TRUE)
          /\ Return(r)
          /\ Fault
    /\ UNCHANGED <<tables, created, loc, manager, rproxy>>

\* rproxy's config handler: a list of IPs sets the route, an empty list deletes
\* it, and deleting a route that does not exist is answered with 500.
SetRoute(n, h, threads) ==
    hosts' = [hosts EXCEPT ![n] = IF threads > 0 THEN h ELSE 0]

RouteAnswer(n, threads) == IF threads = 0 /\ hosts[n] = 0 THEN "error" ELSE "ok"

\* A post to rproxy: answered; not delivered, or delivered and the answer lost
\* (with an error or with io.EOF); refused because rproxy has been killed, or
\* sent on a connection that the kill has closed.
Post(n, h, threads, answer) ==
    \/ /\ rproxy
       /\ SetRoute(n, h, threads)
       /\ answer = RouteAnswer(n, threads)
       /\ NoFault
    \/ /\ rproxy
       /\ SetRoute(n, h, threads) \/ UNCHANGED hosts
       /\ answer \in {"error", "eof"}
       /\ Fault
    \/ /\ ~rproxy
       /\ UNCHANGED hosts
       /\ answer \in {"error", "eof"}
       /\ NoFault

Answer == {"ok", "error", "eof"}

\* Defective variant of NotifyAdd: the old handler goes whatever rproxy said.
NotifyAddUnchecked(r) ==
    /\ pc[r] = "notifyAdd"
    /\ \E answer \in Answer :
          /\ Post(loc[r].name, loc[r].fh, loc[r].threads, answer)
          /\ \/ loc[r].old # 0 /\ Goto(r, "destroyOld") /\ UNCHANGED mutex
             \/ loc[r].old = 0 /\ Return(r)
    /\ UNCHANGED <<functionHandlers, docker, created, loc, manager, rproxy>>

NotifyAdd(r) ==
    /\ pc[r] = "notifyAdd"
    /\ \E answer \in Answer :
          /\ Post(loc[r].name, loc[r].fh, loc[r].threads, answer)
          /\ \/ answer = "ok" /\ loc[r].old # 0 /\ Goto(r, "destroyOld")
                /\ UNCHANGED <<mutex, manager>>
             \/ answer = "ok" /\ loc[r].old = 0 /\ Return(r) /\ UNCHANGED manager
             \/ answer = "error" /\ Return(r) /\ UNCHANGED manager
             \/ answer = "eof" /\ Panic(r)
    /\ UNCHANGED <<functionHandlers, docker, created, loc, rproxy>>

\* Destroy of the Docker handler: container errors are only logged; network and
\* image errors are returned, and so is the removal of a network that is gone.
\* A container that stops but is not removed keeps the image, not the network.
Destroy(h, ok) ==
    \/ /\ docker[h].network
       /\ Leave(h, "none", FALSE)
       /\ ok = TRUE
       /\ NoFault
    \/ /\ docker[h].network
       /\ \/ UNCHANGED docker
          \/ \E n \in BOOLEAN : Leave(h, "none", n)
          \/ docker[h].containers # "none" /\ Leave(h, "created", FALSE)
       /\ ok = FALSE
       /\ Fault
    \/ /\ ~docker[h].network
       /\ Leave(h, "none", FALSE)
       /\ ok = FALSE
       /\ NoFault

\* Defective variant of DestroyOld: the map, which now holds the new handler,
\* is read again.
DestroyRegistered(r) ==
    /\ pc[r] = "destroyOld"
    /\ \E ok \in BOOLEAN : Destroy(functionHandlers[loc[r].name], ok)
    /\ Return(r)
    /\ UNCHANGED <<tables, created, loc, manager, rproxy>>

DestroyOld(r) ==
    /\ pc[r] = "destroyOld"
    /\ \E ok \in BOOLEAN : Destroy(loc[r].old, ok)
    /\ Return(r)
    /\ UNCHANGED <<tables, created, loc, manager, rproxy>>

-----------------------------------------------------------------------------
(***************************************************************************)
(* Delete                                                                  *)
(***************************************************************************)

\* The handler, too, is looked up before the lock is taken.
ReadHandler(r) ==
    /\ pc[r] = "readHandler"
    /\ \/ /\ functionHandlers[loc[r].name] = 0
          /\ Goto(r, Continue(r))
          /\ UNCHANGED loc
       \/ /\ functionHandlers[loc[r].name] # 0
          /\ loc' = [loc EXCEPT ![r].fh = functionHandlers[loc[r].name]]
          /\ Goto(r, "lockDelete")
    /\ UNCHANGED <<tables, mutex, docker, created, manager, rproxy, faults>>

DestroyHandler(r) ==
    /\ pc[r] = "destroy"
    /\ \E ok \in BOOLEAN :
          /\ Destroy(loc[r].fh, ok)
          /\ \/ ok /\ Goto(r, "notifyDel") /\ UNCHANGED mutex
             \/ ~ok /\ Return(r)
    /\ UNCHANGED <<tables, created, loc, manager, rproxy>>

\* An entry whose route is already gone is never deleted: rproxy answers 500.
NotifyDel(r) ==
    /\ pc[r] = "notifyDel"
    /\ \E answer \in Answer :
          /\ Post(loc[r].name, 0, 0, answer)
          /\ \/ answer = "ok" /\ Goto(r, "remove") /\ UNCHANGED <<mutex, manager>>
             \/ answer = "error" /\ Return(r) /\ UNCHANGED manager
             \/ answer = "eof" /\ Panic(r)
    /\ UNCHANGED <<functionHandlers, docker, created, loc, rproxy>>

\* Defective variant of Remove: the entry stays.
RemoveNothing(r) ==
    /\ pc[r] = "remove"
    /\ Return(r)
    /\ UNCHANGED <<tables, docker, created, loc, manager, rproxy, faults>>

Remove(r) ==
    /\ pc[r] = "remove"
    /\ functionHandlers' = [functionHandlers EXCEPT ![loc[r].name] = 0]
    /\ Return(r)
    /\ UNCHANGED <<hosts, docker, created, loc, manager, rproxy, faults>>

-----------------------------------------------------------------------------
(***************************************************************************)
(* Wipe and Stop                                                           *)
(***************************************************************************)

\* One iteration of the range over the map: an entry not yet visited that is
\* still there (entries added meanwhile may be visited).
RangeNext(r) ==
    /\ pc[r] = "range"
    /\ \E n \in Registered \ loc[r].seen :
          loc' = [loc EXCEPT ![r].name = n, ![r].seen = @ \union {n}]
    /\ Goto(r, "readHandler")
    /\ UNCHANGED <<tables, mutex, docker, created, manager, rproxy, faults>>

\* Defective variant of RangeEnd: it ends when the map is empty.
RangeUntilEmpty(r) ==
    /\ pc[r] = "range"
    /\ Registered = {}
    /\ Goto(r, "done")
    /\ manager' = IF loc[r].op = "stop" THEN "exited" ELSE manager
    /\ UNCHANGED <<tables, mutex, docker, created, loc, rproxy, faults>>

\* The range ends when every entry it started with is visited or gone.
RangeEnd(r) ==
    /\ pc[r] = "range"
    /\ (Registered \intersect loc[r].range) \ loc[r].seen = {}
    /\ Goto(r, "done")
    /\ manager' = IF loc[r].op = "stop" THEN "exited" ELSE manager
    /\ UNCHANGED <<tables, mutex, docker, created, loc, rproxy, faults>>

-----------------------------------------------------------------------------
Reads(r) == pc[r] \in {"readOld", "readHandler", "range"}
Writes(r) == pc[r] \in {"store", "remove"}

\* An unlocked read of the map while another goroutine writes it: the Go
\* runtime may abort the process ("concurrent map read and map write").
MapRace ==
    /\ \E r, w \in Req : Reads(r) /\ Writes(w)
    /\ manager' = "crashed"
    /\ UNCHANGED <<tables, mutex, docker, created, pc, loc, rproxy, faults>>

Begin(r) ==
    \/ \E n \in Name, threads \in Threads : BeginUpload(r, n, threads)
    \/ \E n \in Name : BeginDelete(r, n)
    \/ BeginWipe(r)
    \/ BeginStop(r)

Step(r) ==
    \/ ReadOld(r)
    \/ Lock(r)
    \/ Create(r)
    \/ Store(r)
    \/ Start(r)
    \/ NotifyAdd(r)
    \/ DestroyOld(r)
    \/ ReadHandler(r)
    \/ DestroyHandler(r)
    \/ NotifyDel(r)
    \/ Remove(r)
    \/ RangeNext(r)
    \/ RangeEnd(r)

Next ==
    /\ manager = "up"
    /\ \/ \E r \in Req : Begin(r)
       \/ \E r \in Req : Step(r)
       \/ MapRace

Spec == Init /\ [][Next]_vars

\* Goroutines are scheduled, every call returns, and Go's mutex hands itself to
\* a waiter that has been waiting for long.
FairSpec ==
    /\ Spec
    /\ \A r \in Req :
          /\ WF_vars(manager = "up" /\ Step(r))
          /\ SF_vars(manager = "up" /\ Lock(r))

-----------------------------------------------------------------------------
(***************************************************************************)
(* Properties                                                              *)
(***************************************************************************)

\* The control states in which a request holds functionHandlersMutex.
Critical == {"create", "store", "start", "notifyAdd", "destroyOld",
             "destroy", "notifyDel", "remove"}
Label == Critical \union
    {"idle", "readOld", "lockUpload", "readHandler", "lockDelete", "range", "done"}

Locals == [op : {None, "upload", "delete", "wipe", "stop"}, name : Name \union {None},
           threads : Nat, old : Handler \union {0}, fh : Handler \union {0},
           range : SUBSET Name, seen : SUBSET Name]

LockHeld == \A r \in Req : mutex = r <=> pc[r] \in Critical

\* Every variable has its type, and the lock is held by exactly the request
\* that is between Lock and the deferred Unlock.
TypeOK ==
    /\ functionHandlers \in [Name -> Handler \union {0}]
    /\ mutex \in Req \union {None}
    /\ hosts \in [Name -> Handler \union {0}]
    /\ docker \in [Handler -> [containers : Containers, network : BOOLEAN]]
    /\ created \in Seq(Name)
    /\ Len(created) <= MaxHandler
    /\ pc \in [Req -> Label]
    /\ loc \in [Req -> Locals]
    /\ manager \in {"up", "crashed", "exited"}
    /\ rproxy \in BOOLEAN
    /\ faults \in 0 .. MaxFaults
    /\ LockHeld

Served(n) == hosts[n] # 0 /\ docker[hosts[n]].containers = "ready"

\* Without faults a route leads to running containers, except while a Delete
\* has destroyed them and is about to tell rproxy (manager.go:253 and :268),
\* however uploads, deletes and wipes that read the map before they got the
\* lock interleave.
RouteLive ==
    \A n \in Name :
        faults = 0 /\ hosts[n] # 0 /\ ~Served(n) =>
            \E r \in Req : pc[r] = "notifyDel" /\ loc[r].fh = hosts[n]

\* Once all requests are answered, without faults and with rproxy up, its table
\* and the manager's map agree: routes lead to registered handlers, and a
\* registered handler with running containers is routed.
TablesAgree ==
    faults = 0 /\ rproxy /\ (\A r \in Req : pc[r] \in {"idle", "done"}) =>
        \A n \in Name :
            /\ hosts[n] # 0 => functionHandlers[n] = hosts[n]
            /\ functionHandlers[n] # 0 /\ docker[functionHandlers[n]].containers = "ready" =>
                   hosts[n] = functionHandlers[n]

\* An upload never takes a served function out of service, whatever fails
\* (manager.go:121, "keep it while deploying the new version"): only a delete,
\* an upload of zero threads or the end of rproxy does.
UploadKeepsServing ==
    [][\A n \in Name :
        Served(n) /\ ~Served(n)' =>
            \/ ~rproxy'
            \/ \E r \in Req :
                  /\ loc[r].name = n
                  /\ \/ pc[r] \in {"destroy", "notifyDel"}
                     \/ pc[r] = "notifyAdd" /\ loc[r].threads = 0]_vars

\* Every request is answered, and the interrupt handler ends, unless the manager
\* is gone: nobody keeps the lock, and a wipe whose deletes fail does not start
\* over.
RequestsAnswered ==
    \A r \in Req : pc[r] # "idle" ~> pc[r] = "done" \/ manager # "up"

\* What createFunction's comment says: it destroys the old handler if it exists
\* (manager.go:182), so that when all requests are answered without a fault
\* every running container belongs to a registered handler.
NoOrphan ==
    faults = 0 /\ manager = "up" /\ (\A r \in Req : pc[r] \in {"idle", "done"}) =>
        \A h \in Handler :
            docker[h].containers # "none" => \E n \in Name : functionHandlers[n] = h

=============================================================================
