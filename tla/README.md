# Verification of the sky simulation

TLA+ models, TLC configurations and TLAPS proofs for the collision-avoidance
system of this repository: simulated UAVs (`sky_viewer`), the MQTT ingester
(`6gn-ingester`), the serverless function chain (`6gn-functions`) and the
function platform it runs on (`tinyFaaS`).

1. [The system](#1-the-system) - parts, state, interaction, what is hard
2. [Modules](#2-modules) - what models what
3. [Runs](#3-runs) - what is model-checked, bounds, fairness
4. [Divergences found](#4-divergences-found)
5. [Proofs](#5-proofs)
6. [Sensitivity](#6-sensitivity)
7. [Abstractions and limits](#7-abstractions-and-limits)
8. [Plan](#8-plan)

## 1. The system

```
 UAV process --updates(MQTT)--> ingester --POST /update--> rproxy --> update --> MongoDB
   ^   |                                                                |          ^ |
   |   +-- 50 Hz loop                                                trigger <-----|-+ snapshot
   |                                                                    |          |
   +--releases(MQTT)-- release <---(clean re-check)--- collision-detector          |
                          |                              |         ^               |
                          |                            mutate -----+               |
                          +------------- POST /update (origin system) -------------+
```

| part | state | operations | talks to |
|---|---|---|---|
| UAV process (`sky_viewer/skybed`) | the shared object `position.uav`: motion, altitude, a geopy `Point` | 50 Hz loop: integrate, sync, publish; paho thread: execute a release | broker, both ways |
| ingester (`6gn-ingester/main.go`) | none | wrap an update with a meta, post it asynchronously | broker, rproxy |
| update | the `trajectories` collection | insert; call trigger for reports | MongoDB, trigger |
| trigger | none | latest trajectory per UAV within a TTL; call collision-detector | MongoDB, collision-detector |
| collision-detector | none (flags in the posted list) | pair scan; call mutate, release, or stop | mutate, release |
| mutate | none (count and case bits in the posted meta) | change the lowest-priority UAV; call collision-detector | collision-detector |
| release | MQTT client | publish the mutated items; post them to update | broker, update |
| tinyFaaS manager (`pkg/manager`, `cmd/manager`) | `functionHandlers` and a mutex | upload, delete, wipe, logs, list, stop | Docker, rproxy |
| Docker backend (`pkg/docker`) | images, networks, containers | create, start (with readiness loop), destroy | Docker |
| reverse proxy (`pkg/rproxy`, `cmd/rproxy`, front ends) | routing table `hosts` | add, del, call (sync or async) | function containers |
| viewer (`sky_viewer/viz`) | latest state per UAV, client list, queue | drain queue, broadcast frames | broker, browsers |
| scenario runner (`skybed/scenario_runner.py`) | the processes it started and those in its list | spawn one UAV process per drone, wait, terminate and kill | UAV processes |
| broker (external) | who holds a client id, a session and a queue per UAV | take over an id, queue and redeliver commands | UAV processes, ingester, release |

What is hard to get right, and what a test would hardly reach (the complete
list, line by line, is `hazards` in `PROJECT.json`):

* **The chain has no coordinator.** Five stateless functions re-post the same
  `data` and `meta`; each post is answered with 202 before it runs, is tried
  once, and may be lost or overtaken. Whether a request forks, ends, or
  releases something that was not re-checked is decided by what the functions
  together do to `origin`, `mutations`, `mutation_cases`, `collision`.
* **State leaks between requests through the database**: a released trajectory
  comes back in the next snapshot with its `origin` and, after a climb, with
  its `collision` flag - even one whose publication failed, which release only
  logs.
* **The scan breaks** at the first conflict of an aircraft, while mutate
  depends on at least two flags being there.
* **The manager reads its map before it takes its lock**, talks to Docker and
  to rproxy while it holds it, and leaves through a dozen error returns and a
  panic.
* **Two threads share a UAV** without a lock, and commands are redelivered.
* **All UAV processes publish with one client id**, so they disconnect each
  other for ever; the subscriber's session outlives its process and meets
  processes that an earlier scenario left behind.
* **rproxy's `Call` reads its table without the lock** and posts to containers
  that may be destroyed meanwhile.
* **The viewer's tasks share the hub's list** across the awaits of the frame they
  are sending; browsers come and go in between.

What makes each part correct:

* scan: its Boolean and flags are exactly those of the conflict relation that
  `Detection` defines; flags suffice for mutate;
* chain: no fork, at most one release per request, only separated commands in
  a release, at least one of them its own; only the lowest priority gives way;
  bounded re-planning; termination; nothing of an unfinished re-plan is stored;
* manager: lock discipline, routes lead to running containers, map and routing
  table agree at rest, uploads do not interrupt service, every request answered;
* calls: a caller never goes back to an older version of a function, and an abort
  of rproxy that a call causes leaves no request of the manager unanswered;
* scenarios and their processes: a run ends with no process of its own, a shutdown
  with at most one, reports get through although the publishers displace each other,
  queued commands are executed although subscribers are displaced and restarted;
* UAV: the newest command's motion wins, altitude settles, every queued command
  becomes visible in the reports;
* viewer: a connected browser is on the hub's list and a closed one does not stay
  there, no browser is shown an older state than before, one that stays is shown
  what the hub knows.

## 2. Modules

| module | models | is used by |
|---|---|---|
| `Detection` | what the pair scan computes, in closed form (`FirstHits`, `FlaggedIn`) | `DetectLoop`, `CollisionChain` |
| `DetectLoop` | `detect_collisions`, one action per step of the nested loop | - |
| `Kinematics` | prediction, separation test, the three changes of motion | `MCCollisionChain` |
| `CollisionChain` | the request chain, one action per function run | - |
| `RequestLife` | what the chain promises about one request (abstract) | `CollisionChain` |
| `FunctionManager` | manager, Docker backend and routing table | - |
| `ProxyCalls` | calls through the routing table while the manager changes it; extends `FunctionManager` | - |
| `UavAgent` | one UAV process with the broker's session | - |
| `ScenarioRunner` | `run_scenario`, run after run, and the life of its processes | `Fleet` |
| `Fleet` | those processes with their two MQTT clients on one broker | `MCFleet` |
| `Viewer` | the viewer's hub with its tasks and browsers | - |
| `MCCollisionChain`, `MCFunctionManager`, `MCFleet` | instances for TLC | runs |
| `DetectionProofs`, `DetectLoopProofs`, `CollisionChainProofs`, `FunctionManagerProofs`, `ProxyCallsProofs`, `UavAgentProofs`, `FleetProofs`, `ViewerProofs` | theorems | - |

`map` in `PROJECT.json` names the source lines of every definition.

### Detection and DetectLoop

`DetectLoop` runs the nested loop over positions `1 .. N`. Which pairs
`check_for_conflict` reports (`hits`) and which aircraft are flagged when the
call begins (`stale`) are arbitrary, so its results hold for every traffic
situation. `Pass`, `FlagAndBreak`, `NextAircraft` and `Return` are the branches
of the loops. What it computes is `Detection!FlaggedIn`, and `CollisionChain`
uses exactly that operator as the detector's answer: the loop is proved once and
abstracted to one step in the chain.

### CollisionChain

| variable | code |
|---|---|
| `net` | posts in flight: accepted by rproxy with 202, not yet run |
| `db` | the `trajectories` collection; `created` is `created_at` |
| `now` | the clock of `datetime.now()` |
| `reported` | the UAVs of the reports sent; the index is the request's identity |
| `released` | the lists that `release` handed to its MQTT client, `published` or not |

A message holds the addressee, the request, `meta` (`origin`, `mutations`, `cases` =
`mutation_cases` as a number) and the list of trajectories. `Report` is a UAV's
publication together with the ingester's `handleMessage`; `HandleUpdate`,
`HandleTrigger`, `HandleDetector`, `HandleMutate` and `HandleRelease` are each one
run of that function's `fn`, with every return of it (`HandOver` is release's
publish, whose failure is only logged: update gets the commands in either case);
`Lose` is a post that fails, a handler that raises (`do_POST` swallows it), or a
function that is missing; `Tick` is the clock.

* `StoreUpdate` inserts a prefix of the list: `insert_many` is ordered, and an
  exception after any number of documents is only logged.
* `Snapshots` is every list that `get_recent_trajectories` can return: one
  trajectory per recent UAV, none older than another recent one of its UAV; the
  order, and the choice among equal `created_at`, are the cursor's.
* `mut` is a ghost: the code only writes the word `mutate` into an item's
  `origin`, the model writes the request that did, so that `OwnCommandReleased`
  can tell an item of this request from one that came back from the database.
  No guard reads more than whether it is 0.
* `Refused` gathers the early returns and the failing `max` of mutate; the
  count of a refused request is irrelevant because nothing is posted.

`RequestLife` is the abstract specification: a request is submitted, re-planned
at most `MaxRounds` times, and published at most once, only after a re-plan, or
closed. A request whose publish failed counts as closed. `CollisionChain`
implements it with `MaxRounds = MaxMutations + 1`
(`mutate/fn.py:63` compares with `>` before it increments) under the mapping
`PhaseOf`, `RoundsOf`.

### FunctionManager

Every HTTP request (and the interrupt handler) is a process with a control
state `pc[r]` and locals `loc[r]`. An upload goes `readOld -> lockUpload ->
create -> store -> start -> notifyAdd -> destroyOld`, a delete `readHandler ->
lockDelete -> destroy -> notifyDel -> remove`; `Wipe` and `Stop` repeat the
delete from `range`. The states between `Lock` and `Return` are those that hold
`functionHandlersMutex`. `docker[h]` is what exists of handler `h`, `hosts` is
rproxy's table.

Faults: `Create`, `Start` and `Destroy` may fail and leave any prefix of their
work behind; a post to rproxy may fail before or after it was applied, or end
in `io.EOF` - also when rproxy has been killed, on a connection that was kept
open -, which the code lets through and then dereferences the missing response
(`Panic`). The panic of a request is recovered by `net/http`; that of the wipe at
an interrupt, which has a goroutine of its own (`main.go:172`), ends the manager.
`MapRace` is the abort of the Go runtime when a goroutine
reads the map that another one writes; it may happen, so it is a step.

### ProxyCalls

Each caller has one call at a time: `Arrive`, `ReadRoute` (404, 202 for an
asynchronous call, or a post for a synchronous one) and `Finish`. `ReadRoute` takes
no lock and needs none in the model to see a consistent entry, but Go aborts rproxy
when it detects that `Add` or `Del` writes the map at that moment: `ProxyRace` is
this abort, after which the manager's post ends with an error or with `io.EOF`;
`Reset` is what the callers see of it. `route[c]` remembers the last route that each
caller got of each function, so that versions can be compared: handlers are numbered
as they are created. `CallNext` composes these steps with all of `FunctionManager`.

### UavAgent

The two threads at the granularity of reads and writes of the shared object.
Loop: `ReadAltitude` (`position.py:12`), `Move` (`:17`), `WritePoint` (`:22`),
`WriteAltitude` (`:23`), `SyncRead`/`SyncWrite` (`message_types.py:46`),
`Publish`. Paho thread: `OnMessage`, `SetMotion`, `SetAltitude`,
`CopyAltitude`/`SetPointAltitude` (`position.py:39`). A value is abstracted to
where it stems from: 0 for the scenario, `c` for command `c`, `Zero` for the
altitude of the new `Point` that a move makes. The session is the broker's
persistent queue: in order, and from the first unacknowledged command again
after a `Reconnect`.

### ScenarioRunner and Fleet

`ScenarioRunner` follows `run_scenario`: `Start` of a file, `Spawn` (`Popen`) and
`List` (`procs.append`) per drone, with an interrupt possible between the two;
`AllSpawned` returns with `--detach` or waits; `Poll` finds every listed process
exited; `Interrupt` and `Kill` are the shutdown, `InterruptAgain` a second Ctrl+C
in it, `SpawnFails` an exception half-way. `children` is what was started, `procs`
what is in the list: they differ, and processes of earlier runs are in neither.
`AtMostOneLeft` says by how much they may differ when it matters: an interrupt
between `Spawn` and `List` keeps one process off the list, never more.

`Fleet` composes the runner with what its processes have at the broker.
`publisher` is the process whose connection holds the shared id `uav-publisher`
(`publisher.py:14`), `report[p]` whether paho still holds a report of `p`,
`subscriber[u]`, `session` and `queue[u]` are the connection, existence and
content of the session of UAV `u`. `Reconnect` takes the publisher's id from
whoever has it, `Subscribe` the session from another process of the same UAV.
`Close` is what an exit takes with it, and `Ends(p) /\ Close({p})`,
`Kill /\ Close(procs)` are single steps of the composition: the operating system
closes the sockets. What a command does is the business of `UavAgent`.

### Viewer

| variable | code |
|---|---|
| `received` | the payloads the topic has carried; one is named by its index, so a later state is a larger number |
| `queue` | `_mqtt_queue`, filled from the paho thread by `call_soon_threadsafe` |
| `latest`, `clients` | `hub.latest` (0: no state), `hub.clients` |
| `publisher`, `frame`, `targets`, `sending`, `failed` | `broadcast_frame`: its data, the copy of the list, the sends still to run, those that raised |
| `feed[c]`, `gone` | where `ws_feed` of a browser is, and whether its connection is closed |
| `shown[c]` | what the browser has been sent last |

The tasks share one event loop, so a step lasts from one await to the next:
`Consume` drains the queue and updates the hub without waiting (`Hub.update` does
not await), `BeginFrame` serialises the hub and copies the list, each
`SendFrame` is one `send_text` of the gather, `EndFrame` removes those that
raised. `Accept` covers `add` from the return of `accept` to the hand-over of
the snapshot; `SnapshotSent` is its return, or its exception, which is raised
outside the `try` and leaves the client on the list. A connection keeps what is
written to it in order, and writing to a closed one raises.

## 3. Runs

| run | configuration | shows | distinct states |
|---|---|---|---|
| `detect_loop` | 4 aircraft, all 64 conflict relations, all 16 sets of stale flags | the loop computes the closed form, no conflict goes unnoticed | 18,560 |
| `chain` | 2 UAVs, 2 overlapping requests, budget 3, TTL 0, clock 0..1, losses, failed publishes and inserts | `TypeOK`, `OnePostPerRequest`, `OnlyBudgetRefuses`, `MetaAgrees`, `PriorityRespected`, refinement of `RequestLife` (`ImplementsLife`), `ChainTerminates` | 29,795 |
| `chain_successive` | 3 UAVs, 3 requests one after the other, TTL 3, clock 0..5, losses, failed publishes and inserts | `ReleasedSeparated`, `RestSeparated`, `OwnCommandReleased`, `DatabaseProvenance` | 544,508 |
| `manager` | 2 functions, 3 requests of any kind, 0 or 1 threads, 1 fault | `TypeOK` (with the lock), `RouteLive`, `TablesAgree`, `UploadKeepsServing` | 75,754 (symmetry on requests) |
| `proxy_calls` | 2 functions, 2 requests, 0 or 1 threads, 2 handlers, 1 fault, 2 callers | `VersionsForward`, `RequestsAnswered` | 92,129 |
| `uav` | 2 commands, 2 broken connections | `TypeOK`, `NewestMotionWins`, `SettledStays`, `CommandsReported` | 59,573 |
| `fleet` | 2 scenario files (`u1`; `u1`, `u2`), 2 processes at a time, 1 command | `TypeOK`, `AtMostOneLeft`, `ReportsArrive`, `CommandsExecuted` | 54,424 |
| `viewer` | 2 UAVs, 2 browsers, 2 payloads (readable or not) | `TypeOK`, `ConnectedListed`, `NeverBackwards`, `GoneForgotten`, `FramesArrive`, `NewestKept` | 69,008 |
| `detect_flags`, `chain_victim`, `manager_orphan`, `uav_lost` | small instances of the same specifications | see section 4 | - |

**Why the bounds are enough.**

* `N = 4` is the least number for which a pair can be hidden by the break of
  another pair and still leave a pair that is not touched by either. The proof
  covers every `N`.
* Two requests are the least that overlap; the motions of `MCCollisionChain`
  are chosen so that each encounter needs exactly one more kind of mutation:
  `Crossing` is resolved by slowing down, `HeadOn` by turning, `Beside` by
  climbing, `Below` by nothing, so that the budget runs out. A budget of 3
  instead of 100 lets the request go once through the carry-on branch after
  `111` and once over the limit.
* `chain_successive` needs three UAVs and three requests: the first conflict
  stores flags and origins, the second request of another UAV reads them back,
  the third meets what the second made of them. Its requests do not overlap
  (`SuccessiveNext`): the database is the only thing they share. Any post may be
  lost. Three requests make at most six updates, and the clock has six values,
  so every one of them can have a timestamp of its own; a TTL of 3 lets the
  first documents expire while the last request runs. Overlapping requests are
  the business of `chain`, and the theorems behind `ReleasedSeparated`,
  `OwnCommandReleased` and `DatabaseProvenance` do not exclude them.
  Two updates never share a `created_at` here (`Stamped`); the theorems cover such
  ties too.
  `RestSeparated` is stated for this case only: two requests that overlap plan
  against the same snapshot, and may release commands that conflict with each
  other.
* Two uploads and a delete, or three of a kind, are enough for one request to
  read the map before, one while and one after another changes it; one fault
  hits any single call. Three handlers cover three uploads. Threads `{0, 1}`
  include the empty IP list that rproxy takes for a delete.
* Two callers of two functions let one call read a route before a replacement and
  the other after it, and one caller meet two versions; a second handler is what
  a replacement needs. A fault covers the lost answer that leaves route and
  version apart.
* Two scenario files that share a UAV, and two processes, are the least for
  which a process of an earlier run meets one of the same UAV, and two UAVs
  share the publisher's id. Two processes of one run are also the least of which
  two could be left over. A process that has ended makes room for the next, so runs
  follow each other without bound.
* Two commands and two broken connections allow redelivery of one command, of
  both, and of the first after the second has been executed.
* Two browsers let one join, leave or fail while a frame is on its way to the
  other; two payloads are enough for one to be dropped by the drain, for a frame
  to be older than the snapshot that another browser gets, and for the last one
  to be unreadable. A browser that comes back is another client of the hub.

`RequestsAnswered` is checked in `proxy_calls`, where the calls and rproxy's abort
are a further way for a post to end.

**Fairness.** `CollisionChain`: weak fairness, per request, of "a function runs on
the post or it is lost": rproxy starts a goroutine per accepted post and the
containers handle requests in threads. `FunctionManager`: weak fairness of each
request's next step (Docker calls and posts return) and strong fairness of its
`Lock`, because Go's mutex hands itself to a waiter that has starved for long;
nothing forces a request to arrive or `MapRace` to happen. `UavAgent`: weak fairness
of either thread; nothing of the first connect, whose failure ends the paho thread
(`subscriber.py:55`): `CommandsReported` speaks of commands in a session, which
exists only after it. The broker may deliver late because the paho thread is one of
the two. `ProxyCalls`: the manager's fairness only; nothing is assumed of the calls,
since rproxy posts to a container without a timeout (`rproxy.go:105`) and a call
need not end. `Fleet`: weak fairness of `Reconnect`, and of `Subscribe` for a
process that has subscribed before, because `loop_forever` retries for ever; the
first `connect` may raise and end the thread, so nothing is assumed of it. Strong
fairness of `Send` and `Execute`: a displaced paho client waits at least one second
before it connects again (`subscriber.py:42`, and the default of
`reconnect_delay_set` for the publisher), so that each connection lives long enough
to send or receive what is queued. Nothing forces a run to start or a process to
end. `Viewer`: weak fairness of `mqtt_consumer`, of the publisher and of each feed,
because the event loop runs every task that is ready; a send completes or fails,
because uvicorn's pings close a connection that no longer answers. Nothing forces a
payload or a browser to come or to go.

**Deadlock** is not checked where the system may stop: a scan that has returned,
a chain with no post and no report left, a manager with every request answered
or its process gone, a viewer all of whose browsers have gone. `uav` and `fleet` run for
ever and are checked for deadlock.

## 4. Divergences found

Each is a run that expects a violation; the trace is the scenario.

* **`detect_flags`** (`EveryConflictFlagged`): the `break` at
  `collision_detector.py:62` leaves a conflicting partner unflagged, while the
  docstring (`:49`) says both aircraft of a conflict are flagged. What does hold
  is `FlagsCoverConflicts`.
* **`chain_victim`** (`VictimIsColliding`): the climb (`mutate/fn.py:102-109`) is
  the only mutation that does not delete the collision keys. They are released,
  stored and read back, and a later request makes a UAV give way that is in no
  conflict; `mutate.py:7` says it is one of two colliding UAVs.
* **`manager_orphan`** (`NoOrphan`): two uploads of one name that both execute
  `manager.go:123` before either locks at `:128`; the first one's handler is
  overwritten and never destroyed, although `:182` says the old handler is.
* **`uav_lost`** (`CommandsApplied`): the loop writes back at `position.py:23` an
  altitude it read at `:12`; a command executed in between keeps its speed and
  heading and loses its altitude, while `:27` says commands are applied directly.

Not stated as a run, because a short execution shows it:

* `6gn-functions/README.md:118-119` asks for QoS 0 for updates and for a unique
  identifier in releases; the UAVs publish with QoS 1 and releases carry no
  identifier. The models follow the code: reports are queued until they are
  acknowledged, and redelivered commands are executed again.
* `scenario_runner.py:59` says "Press Ctrl+C to stop all (unless --detach)" and
  `:116` prints "Shutdown complete.", but `Spawn`, `Interrupt`, `Kill` - an interrupt
  between `Popen` and `append` (`:80-81`) - completes the shutdown without having
  sent anything to the process just started. A terminal that signals the whole
  foreground group may end it; where each process has a group of its own (`:41`,
  Windows), or the signal was sent to the runner alone, nothing does.
  `AtMostOneLeft` bounds the damage.
* The docstring of `Hub` says "Keeps latest UAV states" (`viz/server.py:25`), but
  `mqtt_consumer` keeps of all payloads it finds queued only the last one (`:91-95`):
  `Receive` of `u1`, `Receive` of `u2`, `Consume` loses the state of `u1` until its
  next report. A readable payload that an unreadable one follows in its drain is
  lost too. `NewestKept` says only that the last payload of the topic is kept.

## 5. Proofs

All theorems are checked by TLAPS for every value of the constants. Assumptions:
`NAssumption`; `BoundsAssumption` and `KinAssumption` (mutations stay within the
set of motions) and `ConflictAssumption` (the separation test is symmetric: it
compares distances); `ManagerAssumption` and `NoneAssumption`;
`AgentAssumption`, `RunnerAssumption` (a scenario is a list of UAVs) and
`ViewerAssumption`. TLC evaluates each of them in the runs. For the motions of
`Kinematics`, `KinAssumption` and `ConflictAssumption` are theorems themselves
(`MutationsStayMotions`, `ConflictIsSymmetric`).

**DetectLoop.** `LoopInv` is the inductive invariant: the flags are the stale
ones and the closed form of the finished rows, and before column `j` the current
row holds no hit; `TypeInvariant` is what it needs of the types.
`FirstHitsStep` says how the closed form grows by one row.
`LoopComputesClosedForm` follows at the end of the last row.
`LoopFlagsCoverConflicts` rests on `DetectionProofs`, which shows from the
well-ordering of the naturals that every row with a hit has a first one.

**Kinematics.** Two theorems discharge the assumptions above for any separations,
horizon and step. Two more say which of mutate's three changes can help:
`ClimbClears` (the climb ends the conflict with every aircraft that is not above
and does not climb faster, since it goes beyond the vertical separation) and
`PresentConflictStays` (slowing down and turning leave the present position as it
is, so a conflict that exists at step 0 is still there in the next round). Together
they explain the rounds that `LowestGivesWay` and the budget see. Predictions are
functions of the step number, so no induction is needed.

**CollisionChain.** Nine layers, each using some of the ones before:

1. `TypeInvariant`: one lemma per handler.
2. `NoFork`: every step replaces the post of a request by at most one with the
   same id (`HandlerPosts`), and a report uses an id that is not in flight.
   `TypeOK` and the bound on ids by `Len(reported)` make it inductive.
3. `MetaInvariant`: only mutate changes the meta (`PassesKeepsMeta`).
4. `DataInvariant`, the strengthening behind the next three theorems: what a
   post to mutate carries has at least two flagged items; what a post to release
   carries has no conflict in it and, after the first mutation, an item marked by
   its own request; what was released is a filtered part of such a list. From it
   `ReleasesAreSeparated`, `ReleasesOwnCommand` and, with `MetaInvariant`,
   `ErrorReturnsUnreachable`: only the budget ends a request in mutate. The
   stale flags of `chain_victim` do not break it: they can only add to the two
   flags the scan itself guarantees (`TwoFlagged` of `DetectionProofs`).
5. `StoredProvenance`: `ProvInv` says of the posts to update what
   `DatabaseProvenance` says of the collection; that release hands its commands
   over before it posts them, whether the publish succeeds or not, makes it
   inductive. So the theorem excludes trajectories of unfinished re-plans from the
   collection, but not commands whose publish failed.
6. `ChainImplementsLife`, the refinement. `LifeInv` is what the mapping needs: ids
   belong to reports, and the only post of a request that has been through release
   is the one to update that release made; if its publish failed, this post keeps it
   open until it is run or lost. With `NoFork` the `CHOOSE` in `RoundsOf` picks the
   one post there is (`PhaseInFlight`); `LifeStep` reduces a step of `RequestLife`
   to what happens to one request, and `ReportRefines`, `EndRefines` and
   `PassRefines` show what each step of the chain does to its request.
   `MetaInvariant` bounds the rounds, `DataInvariant` makes a release follow a
   mutation.
7. `LowestGivesWay`: lists behind trigger hold one trajectory per UAV
   (`ListsInv`), so of the two flagged aircraft that `DataInvariant` provides one
   is not the victim, and it has strictly higher priority.
8. `FleetSeparatedAtRest`: `SuccessiveSpec => []RestSeparated`, for requests that
   follow each other. `SuccessiveInv` says what one request leaves for the next:
   the only post in flight belongs to the last report (`OneChain`), documents of
   one UAV have different timestamps (`StampInv`), so a UAV has one latest
   trajectory (`LatestUnique`). Every list behind trigger is `Planned`: it has an
   item for each UAV of the database, with its latest motion unless the item has
   been marked, and a marked item is released. A list that reaches release has no
   conflicts, so its commands and the latest trajectories of all the other UAVs
   are separated when they are published (`ReleasedFits`), and stay so until the
   next report whether the release's copy is stored, partly stored or lost
   (`LastInv`).
9. `ChainsAreBounded`: `RunsLeft` counts the functions that may still run on
   behalf of a post: two for each round that the budget still allows, and release
   and the update of its commands at the end. `ChainShortens` says that it is at
   most `2 * MaxMutations + 7` and that every step that touches the posts of a
   reported request lowers it. `NoFork` makes the count of a request that of its one
   post, and `DataInvariant` keeps an unmutated list out of release.

**FunctionManager.** `IInv` adds to `TypeOK` (which contains the lock discipline)
a statement about each request's locals (`LocalOK`): the handler it works on was
created for its function name, is not its own old handler, and is in the state
that its control point implies; and about the tables (`TablesInv`): map and
routes name handlers that were created for that name. Without it the destruction
of an old handler could hit the one that a route leads to.
`UploadsKeepServing` then follows for every step: the only steps that unroute
or stop a served handler are those of a delete, an upload of zero threads and
the end of rproxy.

`AnswersComeNearer` (for finitely many function names) is about termination:
`StepsLeft` counts the steps of a request by its control state, and for a wipe or a
stop adds six for each name its range has not visited. Every step of the request
lowers it, whatever fails, and no step of another one raises it, although entries are
added to the map while it is ranged over.

`RoutesAreLive` and `TablesAgreeAtRest` are about behaviours without a fault.
`RouteInv` adds to `RouteLive` that running containers have their network, so that
`Destroy` cannot fail on it, and that an rproxy that is gone has no routes; a step
that destroys a handler destroys an unrouted one, or its own that it is about to
unroute. `AgreeInv` lets map and table differ on a name only while a request is
`Between` its two changes of them, and says what that request knows of both
(`TableOK`); a request there holds the lock, so at rest they agree.

**ProxyCalls.** `VersionsGoForward`. `CallInv` takes over `RouteInv` and adds that
no route leads to a handler older than one a caller has seen (`SeenInv`) and that
the handler of an upload about to be routed is the newest of its name (`NewestInv`):
uploads lock before they create, so routes of a name only go up.

**UavAgent.** `PointInv` (the `Point` has an altitude again before the loop writes
`uav.altitude`) makes the types inductive. `NewestInv` says what holds between
deliveries: once the newest command has been delivered, it is being executed or has
set the motion. `SettledAltitude` follows the race for an altitude: before a
connection breaks, a command is new when it is executed (`FreshInv`), so the
altitude that the callback sets is carried by nothing else; `RaceInv` then says
who can still write which altitude at each pair of control points, up to the
report that ends the race. `AcknowledgedStaysFlown` says what QoS 1 with redelivery is
worth here: a queue in the order of the commands (`QueueInv`) and
`DeliveredFlown` (what has been delivered on this connection is not ahead of the
motion) make it an invariant that every acknowledged command has been flown and
none is undone.

**Fleet.** The type invariant, split in what the runner can disturb and what the
broker can: no step but an exit takes a process or its UAV away, and `Close` removes
exactly the connections of those that end. `OneLeftAtMost` needs to know at each
control state what is missing from the list (`ListInv`): nothing while the runner
spawns or waits, at most one process between `Popen` and `append` and, after an
interrupt there, until the shutdown is over. `NothingLostUnhandled` says where
commands and reports may go: `KeptUntilHandled` allows a command to leave its
session only in a step of the one connected process of its UAV, and a report to
leave its process only through the shared client id or with the process.

**Viewer.** `TypeInv` adds to the types that no send and no failure of an earlier
frame is left over while the publisher sleeps. `ListInv` adds that only closed
connections have failed, which is what makes `ConnectedListed` inductive: the end
of a frame removes nobody else, whatever happened to the list in the meantime.
`ShownGoesForward` rests on an order of what is known where: queued payloads are
newer than what the hub knows (`QueueInv`), the hub is not behind the frame that is
being sent, and a browser that is still to get the frame shows nothing newer
than it (`ShownInv`), because it was listed, and had its snapshot, before the
frame was serialised. The same order gives `FramesAreDelivered`: a target whose
send has returned without an error shows the frame. `LastReachesHub` needs that
the last element of the queue is the last payload of the topic (`LastInv`): after
every drain the hub knows it, if it can be read. It says nothing of the payloads that
were queued before it; those are dropped (section 4).

**Only model-checked.** Liveness (`ChainTerminates`, `RequestsAnswered`,
`CommandsReported`, `ReportsArrive`, `CommandsExecuted`,
`GoneForgotten`, `FramesArrive`, `NewestKept`), which is out of the prover's reach:
the step from "bounded and never undone" to "eventually" needs fairness and
`ENABLED`. What these properties need besides fairness is proved for most of them:
the measure that steps lower for `ChainTerminates` (`ChainShortens`) and
`RequestsAnswered` (`AnswerNearer`), and that nothing is lost or undone on the way for
`CommandsReported` (`AcknowledgedFlown`), `ReportsArrive` and `CommandsExecuted`
(`KeptUntilHandled`), `FramesArrive` (`FrameDelivered`) and `NewestKept`
(`LastInHub`). `GoneForgotten` speaks of a later frame than the one in progress and
stays with TLC alone.
These safety parts are stated in the proof modules; the runs check the
liveness properties they belong to. The closed form of the scan for a list
(`FirstHits`) is a set, so no proof here needs induction over data or a
RECURSIVE operator.

## 6. Sensitivity

Next to a definition stands, where a property needs it, a *defective variant*: the
definition with a plausible bug. Putting the variant in its place makes TLC report
the property; `mutants` in `PROJECT.json` lists the pairs. For example,
`FlagFirstOnly` flags one aircraft of a pair, `HandleMutateUncounted` does not count
a round that changes nothing, `ReturnLocked` forgets the unlock, `DestroyRegistered`
reads the map again for the old handler, `RangeUntilEmpty` wipes until the map is
empty, `ReadAltitudeCached` integrates a private copy, `ReconnectClean` uses a clean
session, `EndFrameOverwrites` puts the copied client list back, `NeighbourHits`
compares neighbours only, `ListLast` makes the list of processes when all are
started, `GiveWay` reconnects only when the id is free, `SubscribeOnce` does not
connect again, `CloseLater` leaves the connections of an ended process open,
`LockDeleteOnly` lets uploads run without the lock. No specification uses a variant.

## 7. Abstractions and limits

* **Whole functions.** A function run is one action. Its only external
  effects are an insert and a post (or a publication and a post), and runs of
  different requests share nothing but the collection; reading the clock and
  inserting are one step, so two updates of one UAV are never stored in the
  opposite order of their `created_at`.
* **A publish that fails** is taken as one that no UAV receives. (paho may still
  send the message after it has connected again; then more is released than the
  model says, nothing else.)
* **Posts** are delivered at most once: rproxy's goroutine calls a container
  once. Duplicated updates that MQTT's QoS 1 publisher may cause are further
  reports.
* **Malformed input** (bad JSON, a missing `origin`, a missing `uav_type`) is left
  out: the ingester's struct always writes these keys, and mutate's check for
  `uav_type` is for a key that is always there. Such a run changes nothing.
* **Motion.** Four headings on an integer grid; a change of direction is one
  heading to either side where the code draws a random bearing; an error of
  units (`utility.py:32`, `message_types.py:19`) is not visible. The theorems
  hold for any motions and any symmetric conflict relation.
* **Priority** is any total order on UAVs; the code's is that of strings.
* **A handler's containers** are one value; image, build folder and zip files are
  left out. `Logs` and `List` change nothing and are left out.
* **Motion of a UAV** (speed, direction, vertical speed) is one value, written in
  one step, although `position.py:31-35` makes three: no property tells them apart;
  `model_dump_json` is one read of the object. Integrating
  `vertical_speed` does not change where an altitude stems from.
* **The viewer** shows a browser what was last written to its connection; the
  pages under `static/` are not modelled. What is older is decided by the order of
  arrival: an older report that a UAV's publisher sends again after a broken
  connection counts as a new one. The snapshot is shown when it is handed over
  (`Accept`); its send is awaited after the client is listed, but the connection
  keeps the order in which the two are written.
* **Scenario files** are lists of UAVs; reading and validating one fails before
  anything is started. `Popen` succeeds or raises; how long a signal takes is a
  nondeterministic `Ends`.
* **A session's queue** is a set in `Fleet`, where only whether a command is
  executed matters, and a sequence with redelivery in `UavAgent`, where order does.
* **Not modelled:** CoAP and gRPC (no part of this system calls them), function
  runtimes other than the handler loop, the ns-3 interface, tracing, file
  utilities, examples (reasons in `PROJECT.json`, `components`).

## 8. Plan

What is left, in order of weight:

1. The two executions of section 4 that are not runs yet, as runs: an unlisted
   process after a shutdown, and the states that a drain of the viewer drops.
2. The ingester's subscription after a reconnect and at its shutdown.
3. `Readiness`: the attempts of `Start`'s loop (`handler.go:275`) and its timeouts.
4. A numeric check of prediction and mutation against the units of the reports.
