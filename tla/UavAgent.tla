------------------------------ MODULE UavAgent ------------------------------
(***************************************************************************)
(* One UAV process of sky_viewer: the 50 Hz loop of main.py and the paho   *)
(* thread that runs _on_message_for_uav's callback share position.uav      *)
(* without a lock.  Releases reach the callback through the broker's       *)
(* persistent session (clean_session=False, QoS 1): in order, and again    *)
(* from the first unacknowledged one after a reconnect.                    *)
(*                                                                         *)
(* A value of the UAV is abstracted to where it stems from: 0 is the       *)
(* scenario's value, c the value of command c; integrating vertical_speed  *)
(* does not change where an altitude stems from.                           *)
(***************************************************************************)
EXTENDS Integers, Sequences

CONSTANTS
    MaxCommands,    \* bound: commands released for this UAV
    MaxReconnects   \* bound: broken connections

ASSUME AgentAssumption == MaxCommands \in Nat /\ MaxReconnects \in Nat

Source == 0 .. MaxCommands

\* The altitude 0.0 of a new geopy Point, which no command and no scenario has.
Zero == -1

VARIABLES
    commands,   \* how many commands release has published for this UAV
    subscribed, \* whether the broker holds a session for this UAV
    session,    \* the commands queued in it
    acked,      \* how many of them are acknowledged
    next,       \* the position of the next one to deliver
    reconnects, \* broken connections so far
    callback,   \* control state of the paho thread
    command,    \* the command it is executing
    readAlt,    \* the uav.altitude it is about to copy to the Point
    pc,         \* control state of the 50 Hz loop
    newAlt,     \* its local new_altitude
    syncAlt,    \* what sync_from_point is about to write
    motion,     \* uav.speed, uav.direction and uav.vertical_speed
    alt,        \* uav.altitude
    pointAlt,   \* uav.position.altitude
    report      \* the UAV as last published on the updates topic

broker == <<commands, subscribed, session, acked, next, reconnects>>
thread == <<callback, command, readAlt>>
loop == <<pc, newAlt, syncAlt>>
uav == <<motion, alt, pointAlt>>
vars == <<broker, thread, loop, uav, report>>

Init ==
    /\ commands = 0
    /\ subscribed = FALSE
    /\ session = <<>>
    /\ acked = 0
    /\ next = 1
    /\ reconnects = 0
    /\ callback = "idle"
    /\ command = 0
    /\ readAlt = 0
    /\ pc = "read"
    /\ newAlt = 0
    /\ syncAlt = 0
    /\ motion = 0
    /\ alt = 0
    /\ pointAlt = 0
    /\ report = [motion |-> 0, alt |-> 0]

-----------------------------------------------------------------------------
(***************************************************************************)
(* The releases topic and the broker's session (external)                  *)
(***************************************************************************)

\* _on_connect subscribes; the first time creates the session.
Subscribe ==
    /\ ~subscribed
    /\ subscribed' = TRUE
    /\ UNCHANGED <<commands, session, acked, next, reconnects, thread, loop, uav, report>>

\* release publishes a list with a command for this UAV; without a session it
\* is not kept (retain is off).
Release ==
    /\ commands < MaxCommands
    /\ commands' = commands + 1
    /\ session' = IF subscribed THEN Append(session, commands + 1) ELSE session
    /\ UNCHANGED <<subscribed, acked, next, reconnects, thread, loop, uav, report>>

\* The broker receives the acknowledgement of the oldest delivered command.
Acknowledge ==
    /\ acked < next - 1
    /\ acked' = acked + 1
    /\ UNCHANGED <<commands, subscribed, session, next, reconnects, thread, loop, uav, report>>

\* Defective variant of Reconnect: clean_session=True, the queue is dropped.
ReconnectClean ==
    /\ subscribed
    /\ reconnects < MaxReconnects
    /\ reconnects' = reconnects + 1
    /\ acked' = next - 1
    /\ next' = Len(session) + 1
    /\ UNCHANGED <<commands, subscribed, session, thread, loop, uav, report>>

\* The connection breaks: what was not acknowledged is delivered again.
Reconnect ==
    /\ subscribed
    /\ reconnects < MaxReconnects
    /\ reconnects' = reconnects + 1
    /\ next' = acked + 1
    /\ UNCHANGED <<commands, subscribed, session, acked, thread, loop, uav, report>>

-----------------------------------------------------------------------------
(***************************************************************************)
(* The paho thread                                                         *)
(***************************************************************************)

\* Defective variant of OnMessage: commands are taken in any order.
OnMessageUnordered ==
    /\ callback = "idle"
    /\ next <= Len(session)
    /\ \E k \in acked + 1 .. Len(session) : command' = session[k]
    /\ next' = next + 1
    /\ callback' = "motion"
    /\ UNCHANGED <<commands, subscribed, session, acked, reconnects, readAlt, loop, uav, report>>

OnMessage ==
    /\ callback = "idle"
    /\ next <= Len(session)
    /\ command' = session[next]
    /\ next' = next + 1
    /\ callback' = "motion"
    /\ UNCHANGED <<commands, subscribed, session, acked, reconnects, readAlt, loop, uav, report>>

\* Speed, direction and vertical speed, which nothing else writes.
SetMotion ==
    /\ callback = "motion"
    /\ motion' = command
    /\ callback' = "altitude"
    /\ UNCHANGED <<broker, command, readAlt, loop, alt, pointAlt, report>>

SetAltitude ==
    /\ callback = "altitude"
    /\ alt' = command
    /\ callback' = "copy"
    /\ UNCHANGED <<broker, command, readAlt, loop, motion, pointAlt, report>>

\* uav.position.altitude = uav.altitude reads what the loop may have written
\* since, and writes to the current Point.  (A write to a Point that the loop
\* has just replaced is one that came right before the replacement.)
CopyAltitude ==
    /\ callback = "copy"
    /\ readAlt' = alt
    /\ callback' = "point"
    /\ UNCHANGED <<broker, command, loop, uav, report>>

SetPointAltitude ==
    /\ callback = "point"
    /\ pointAlt' = readAlt
    /\ callback' = "idle"
    /\ UNCHANGED <<broker, command, readAlt, loop, motion, alt, report>>

-----------------------------------------------------------------------------
(***************************************************************************)
(* The 50 Hz loop                                                          *)
(***************************************************************************)

\* Defective variant of ReadAltitude: the loop integrates an altitude of its own.
ReadAltitudeCached ==
    /\ pc = "read"
    /\ pc' = "move"
    /\ UNCHANGED <<broker, thread, newAlt, syncAlt, uav, report>>

ReadAltitude ==
    /\ pc = "read"
    /\ newAlt' = alt
    /\ pc' = "move"
    /\ UNCHANGED <<broker, thread, syncAlt, uav, report>>

\* A moving UAV gets a new Point, at altitude 0.0; a hovering one keeps its own.
Move ==
    /\ pc = "move"
    /\ pointAlt' \in {pointAlt, Zero}
    /\ pc' = "writePoint"
    /\ UNCHANGED <<broker, thread, newAlt, syncAlt, motion, alt, report>>

\* Defective variant of WritePoint: the Point's altitude is not written.
WritePointSkipped ==
    /\ pc = "writePoint"
    /\ pc' = "writeAltitude"
    /\ UNCHANGED <<broker, thread, newAlt, syncAlt, uav, report>>

WritePoint ==
    /\ pc = "writePoint"
    /\ pointAlt' = newAlt
    /\ pc' = "writeAltitude"
    /\ UNCHANGED <<broker, thread, newAlt, syncAlt, motion, alt, report>>

WriteAltitude ==
    /\ pc = "writeAltitude"
    /\ alt' = newAlt
    /\ pc' = "sync"
    /\ UNCHANGED <<broker, thread, newAlt, syncAlt, motion, pointAlt, report>>

\* sync_from_point: position.altitude, or uav.altitude where that is 0.0.
SyncRead ==
    /\ pc = "sync"
    /\ syncAlt' = IF pointAlt = Zero THEN alt ELSE pointAlt
    /\ pc' = "syncWrite"
    /\ UNCHANGED <<broker, thread, newAlt, uav, report>>

SyncWrite ==
    /\ pc = "syncWrite"
    /\ alt' = syncAlt
    /\ pc' = "publish"
    /\ UNCHANGED <<broker, thread, newAlt, syncAlt, motion, pointAlt, report>>

Publish ==
    /\ pc = "publish"
    /\ report' = [motion |-> motion, alt |-> alt]
    /\ pc' = "read"
    /\ UNCHANGED <<broker, thread, newAlt, syncAlt, uav>>

-----------------------------------------------------------------------------
Callback ==
    \/ OnMessage
    \/ SetMotion
    \/ SetAltitude
    \/ CopyAltitude
    \/ SetPointAltitude

Loop ==
    \/ ReadAltitude
    \/ Move
    \/ WritePoint
    \/ WriteAltitude
    \/ SyncRead
    \/ SyncWrite
    \/ Publish

Next ==
    \/ Subscribe
    \/ Release
    \/ Acknowledge
    \/ Reconnect
    \/ Callback
    \/ Loop

Spec == Init /\ [][Next]_vars

\* Both threads run, and a client that has connected once connects again for ever.
\* Nothing is assumed of the first connect: where it raises, the thread ends.
FairSpec == Spec /\ WF_vars(Callback) /\ WF_vars(Loop)

-----------------------------------------------------------------------------
(***************************************************************************)
(* Properties                                                              *)
(***************************************************************************)

Quiet == callback = "idle" /\ next > Len(session)

\* Every variable has its type; and when sync_from_point runs, the new Point has
\* a real altitude (message_types.py:46), whatever the callback wrote meanwhile.
TypeOK ==
    /\ commands \in Source
    /\ subscribed \in BOOLEAN
    /\ session \in Seq(1 .. MaxCommands)
    /\ acked \in 0 .. next - 1
    /\ next \in 1 .. Len(session) + 1
    /\ reconnects \in 0 .. MaxReconnects
    /\ callback \in {"idle", "motion", "altitude", "copy", "point"}
    /\ command \in Source
    /\ readAlt \in Source
    /\ pc \in {"read", "move", "writePoint", "writeAltitude", "sync", "syncWrite", "publish"}
    /\ newAlt \in Source
    /\ syncAlt \in Source
    /\ motion \in Source
    /\ alt \in Source
    /\ pointAlt \in Source \union {Zero}
    /\ report \in [motion : Source, alt : Source]
    /\ pc \in {"sync", "syncWrite", "publish"} => pointAlt # Zero

\* Whatever is redelivered after a reconnect, the UAV ends up flying the motion
\* of the newest command of its session (subscriber.py:26-30).
NewestMotionWins ==
    Quiet => motion = IF session = <<>> THEN 0 ELSE session[Len(session)]

\* Once a report shows motion and altitude of the command that was executed
\* last, the race between the threads is over: only a further command changes
\* the altitude that reports stem from (while nothing is redelivered).
SettledStays ==
    [][reconnects = 0 /\ report.alt = report.motion /\ motion = report.motion =>
           report'.alt = report.alt]_vars

\* Every command queued for the UAV is executed, and the reports come to show
\* its motion, or that of a newer one.
CommandsReported ==
    \A c \in 1 .. MaxCommands :
        (\E k \in 1 .. Len(session) : session[k] = c) ~> report.motion >= c

\* What the docstring of update_trajectory_from_collision_avoidance_msg says:
\* the commands of a release are applied directly (position.py:27), so that a
\* report made while no command is being executed shows altitude and motion of
\* the same command.
CommandsApplied ==
    Quiet /\ pc = "publish" => alt = motion

=============================================================================
