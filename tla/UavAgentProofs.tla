--------------------------- MODULE UavAgentProofs ---------------------------
(***************************************************************************)
(* Proofs about the two threads of a UAV process, for any number of        *)
(* commands and of broken connections.                                     *)
(***************************************************************************)
EXTENDS UavAgent, TLAPS, SequenceTheorems

LEMMA ZeroIsNoSource == Zero \notin Source
BY AgentAssumption DEF Zero, Source

LEMMA BrokerType ==
  ASSUME TypeOK, Subscribe \/ Release \/ Acknowledge \/ Reconnect
  PROVE  TypeOK'
<1>1. CASE Subscribe
  BY <1>1 DEF Subscribe, TypeOK, thread, loop, uav
<1>2. CASE Release
  <2>1. commands + 1 \in 1 .. MaxCommands /\ commands' \in Source
    BY <1>2, AgentAssumption DEF Release, TypeOK, Source
  <2>2. session' \in Seq(1 .. MaxCommands) /\ Len(session') \in {Len(session), Len(session) + 1}
    <3>1. CASE subscribed
      <4>1. session' = Append(session, commands + 1)
        BY <1>2, <3>1 DEF Release
      <4> QED
        BY <2>1, <4>1 DEF TypeOK
    <3>2. CASE ~subscribed
      BY <1>2, <3>2 DEF Release, TypeOK
    <3> QED
      BY <3>1, <3>2
  <2>3. Len(session) \in Nat /\ next \in 1 .. Len(session') + 1
    BY <1>2, <2>2 DEF Release, TypeOK
  <2>4. UNCHANGED <<subscribed, acked, next, reconnects, thread, loop, uav, report>>
    BY <1>2 DEF Release
  <2> QED
    BY <2>1, <2>2, <2>3, <2>4 DEF TypeOK, thread, loop, uav
<1>3. CASE Acknowledge
  BY <1>3 DEF Acknowledge, TypeOK, thread, loop, uav
<1>4. CASE Reconnect
  <2>1. Len(session) \in Nat
    BY DEF TypeOK
  <2>2. acked' \in 0 .. next' - 1 /\ next' \in 1 .. Len(session') + 1
    BY <1>4, <2>1 DEF Reconnect, TypeOK
  <2>3. reconnects' \in 0 .. MaxReconnects
    BY <1>4, AgentAssumption DEF Reconnect, TypeOK
  <2> QED
    BY <1>4, <2>2, <2>3 DEF Reconnect, TypeOK, thread, loop, uav
<1> QED
  BY <1>1, <1>2, <1>3, <1>4

LEMMA CallbackType ==
  ASSUME TypeOK, Callback
  PROVE  TypeOK'
<1>1. CASE OnMessage
  <2>1. /\ Len(session) \in Nat
        /\ next \in 1 .. Len(session)
    BY <1>1 DEF OnMessage, TypeOK
  <2>2. session[next] \in Source
    BY <2>1, AgentAssumption DEF TypeOK, Source
  <2>3. acked' \in 0 .. next' - 1 /\ next' \in 1 .. Len(session') + 1
    BY <1>1, <2>1 DEF OnMessage, TypeOK
  <2> QED
    BY <1>1, <2>2, <2>3 DEF OnMessage, TypeOK, loop, uav
<1>2. CASE SetMotion
  BY <1>2 DEF SetMotion, TypeOK, broker, loop
<1>3. CASE SetAltitude
  BY <1>3 DEF SetAltitude, TypeOK, broker, loop
<1>4. CASE CopyAltitude
  BY <1>4 DEF CopyAltitude, TypeOK, broker, loop, uav
<1>5. CASE SetPointAltitude
  BY <1>5, ZeroIsNoSource DEF SetPointAltitude, TypeOK, broker, loop
<1> QED
  BY <1>1, <1>2, <1>3, <1>4, <1>5 DEF Callback

\* The types alone are not inductive: the Point has its altitude again before
\* the loop goes on to uav.altitude.
PointInv == pc = "writeAltitude" => pointAlt # Zero

LEMMA LoopType ==
  ASSUME TypeOK, PointInv, Loop
  PROVE  TypeOK'
<1>1. CASE ReadAltitude
  BY <1>1 DEF ReadAltitude, TypeOK, broker, thread, uav
<1>2. CASE Move
  BY <1>2 DEF Move, TypeOK, broker, thread
<1>3. CASE WritePoint
  BY <1>3, ZeroIsNoSource DEF WritePoint, TypeOK, broker, thread
<1>4. CASE WriteAltitude
  BY <1>4 DEF WriteAltitude, TypeOK, PointInv, broker, thread
<1>5. CASE SyncRead
  BY <1>5 DEF SyncRead, TypeOK, broker, thread, uav
<1>6. CASE SyncWrite
  BY <1>6 DEF SyncWrite, TypeOK, broker, thread
<1>7. CASE Publish
  <2>1. report' \in [motion : Source, alt : Source]
    BY <1>7 DEF Publish, TypeOK
  <2>2. pc' = "read" /\ UNCHANGED <<broker, thread, newAlt, syncAlt, uav>>
    BY <1>7 DEF Publish
  <2> QED
    BY <2>1, <2>2 DEF TypeOK, broker, thread, uav
<1> QED
  BY <1>1, <1>2, <1>3, <1>4, <1>5, <1>6, <1>7 DEF Loop

LEMMA PointHasAltitude ==
  ASSUME TypeOK, PointInv, [Next]_vars
  PROVE  PointInv'
<1>1. CASE Subscribe \/ Release \/ Acknowledge \/ Reconnect
  BY <1>1 DEF Subscribe, Release, Acknowledge, Reconnect, PointInv, loop, uav
<1>2. CASE Callback
  BY <1>2, ZeroIsNoSource DEF Callback, OnMessage, SetMotion, SetAltitude, CopyAltitude,
     SetPointAltitude, PointInv, TypeOK, loop, uav
<1>3. CASE Loop
  BY <1>3, ZeroIsNoSource DEF Loop, ReadAltitude, Move, WritePoint, WriteAltitude,
     SyncRead, SyncWrite, Publish, PointInv, TypeOK
<1>4. CASE UNCHANGED vars
  BY <1>4 DEF vars, PointInv, loop, uav
<1> QED
  BY <1>1, <1>2, <1>3, <1>4 DEF Next

\* Every variable keeps its type, and the altitude 0.0 of a new Point never
\* reaches sync_from_point, however the callback's writes fall between those of
\* the loop.
THEOREM TypeInvariant == Spec => []TypeOK
<1>1. Init => TypeOK /\ PointInv
  <2> SUFFICES ASSUME Init PROVE TypeOK /\ PointInv
    OBVIOUS
  <2>1. 0 \in Source /\ 0 \in 0 .. MaxReconnects
    BY AgentAssumption DEF Source
  <2>2. report \in [motion : Source, alt : Source]
    BY <2>1 DEF Init
  <2>3. session \in Seq(1 .. MaxCommands) /\ Len(session) = 0
    BY DEF Init
  <2>4. acked \in 0 .. next - 1 /\ next \in 1 .. Len(session) + 1
    BY <2>3 DEF Init
  <2> QED
    BY <2>1, <2>2, <2>3, <2>4 DEF Init, TypeOK, PointInv
<1>2. TypeOK /\ PointInv /\ [Next]_vars => TypeOK' /\ PointInv'
  <2> SUFFICES ASSUME TypeOK, PointInv, [Next]_vars PROVE TypeOK'
    BY PointHasAltitude
  <2>1. CASE Subscribe \/ Release \/ Acknowledge \/ Reconnect
    BY <2>1, BrokerType
  <2>2. CASE Callback
    BY <2>2, CallbackType
  <2>3. CASE Loop
    BY <2>3, LoopType
  <2>4. CASE UNCHANGED vars
    BY <2>4 DEF vars, broker, thread, loop, uav, TypeOK
  <2> QED
    BY <2>1, <2>2, <2>3, <2>4 DEF Next
<1> QED
  BY <1>1, <1>2, PTL DEF Spec

-----------------------------------------------------------------------------
\* NewestMotionWins speaks of quiet states only.  What holds in between: once the
\* newest command has been delivered, it is being executed or has set the
\* motion; and nothing is executed from an empty session.
NewestInv ==
    /\ session = <<>> => callback = "idle" /\ motion = 0
    /\ session # <<>> /\ next > Len(session) =>
           IF callback = "motion" THEN command = session[Len(session)]
                                  ELSE motion = session[Len(session)]

\* Redelivery starts at the first unacknowledged command and ends at the newest
\* one, so however often the connection breaks the newest motion is set last.
THEOREM NewestMotion == Spec => []NewestMotionWins
<1>1. Init => NewestInv
  BY DEF Init, NewestInv
<1>2. TypeOK /\ NewestInv /\ [Next]_vars => NewestInv'
  <2> SUFFICES ASSUME TypeOK, NewestInv, [Next]_vars PROVE NewestInv'
    OBVIOUS
  <2>0. /\ Len(session) \in Nat /\ next \in 1 .. Len(session) + 1
        /\ acked \in 0 .. next - 1
        /\ session \in Seq(1 .. MaxCommands)
    BY DEF TypeOK
  <2>1. CASE Release
    <3>1. CASE subscribed
      <4>1. Len(session') = Len(session) + 1 /\ session' # <<>>
        BY <2>0, <2>1, <3>1 DEF Release
      <4>2. ~(next' > Len(session'))
        BY <2>0, <2>1, <4>1 DEF Release
      <4> QED
        BY <4>1, <4>2 DEF NewestInv
    <3>2. CASE ~subscribed
      BY <2>1, <3>2 DEF Release, NewestInv, thread, uav
    <3> QED
      BY <3>1, <3>2
  <2>2. CASE Reconnect
    <3>1. next' > Len(session) => next > Len(session)
      BY <2>0, <2>2 DEF Reconnect
    <3> QED
      BY <2>2, <3>1 DEF Reconnect, NewestInv, thread, uav
  <2>3. CASE OnMessage
    <3>1. session # <<>> /\ session' = session
      BY <2>0, <2>3 DEF OnMessage
    <3>2. next' > Len(session) => next = Len(session)
      BY <2>0, <2>3 DEF OnMessage
    <3> QED
      BY <2>3, <3>1, <3>2 DEF OnMessage, NewestInv, uav
  <2>4. CASE SetMotion
    BY <2>4 DEF SetMotion, NewestInv, broker
  <2>5. CASE SetAltitude \/ CopyAltitude \/ SetPointAltitude
    BY <2>5 DEF SetAltitude, CopyAltitude, SetPointAltitude, NewestInv, broker, uav
  <2>6. ASSUME UNCHANGED <<session, next, callback, command, motion>> PROVE NewestInv'
    BY <2>6 DEF NewestInv
  <2>7. CASE Subscribe \/ Acknowledge \/ Loop \/ UNCHANGED vars
    BY <2>6, <2>7 DEF Subscribe, Acknowledge, Loop, ReadAltitude, Move, WritePoint,
       WriteAltitude, SyncRead, SyncWrite, Publish, vars, broker, thread, uav
  <2> QED
    BY <2>1, <2>2, <2>3, <2>4, <2>5, <2>7 DEF Next, Callback
<1>3. NewestInv => NewestMotionWins
  BY DEF NewestInv, NewestMotionWins, Quiet
<1> QED
  BY <1>1, <1>2, <1>3, TypeInvariant, PTL DEF Spec

-----------------------------------------------------------------------------
(***************************************************************************)
(* SettledStays: how the race for the altitude of one command ends         *)
(***************************************************************************)

\* Where an altitude may be kept, and all that may stem from a command.
Altitudes == {alt, pointAlt, newAlt, syncAlt, readAlt, report.alt}
Traces == Altitudes \union {motion, report.motion}

\* Commands are queued in the order of their release.
QueueInv ==
    /\ \A j, k \in 1 .. Len(session) : j < k => session[j] < session[k]
    /\ \A k \in 1 .. Len(session) : session[k] <= commands

\* Until a connection breaks, a command is new when it is executed: nothing
\* stems from it before its motion, and then its altitude, is set.
FreshInv ==
    reconnects = 0 =>
        /\ command <= commands
        /\ \A k \in next .. Len(session) : command < session[k]
        /\ \A v \in Traces : v <= command
        /\ callback = "motion" => \A v \in Traces : v < command
        /\ callback = "altitude" => \A v \in Altitudes : v < command
        /\ callback # "motion" => motion = command

\* The loop carries the altitude of command c: it will be written back.
Carries(c) ==
    \/ pc \in {"move", "writePoint", "writeAltitude"} /\ newAlt = c
    \/ pc \in {"writeAltitude", "sync"} /\ pointAlt = c
    \/ pc = "syncWrite" /\ syncAlt = c

\* Everything the loop and the callback will still write is the altitude of c.
Settled(c) ==
    /\ alt = c
    /\ pc \in {"move", "writePoint", "writeAltitude"} => newAlt = c
    /\ pc \in {"writeAltitude", "sync"} => pointAlt = c
    /\ pc = "syncWrite" => syncAlt = c
    /\ callback = "point" => readAlt = c

\* The race: until the altitude is copied to the Point, what the loop carries of
\* the command is in alt; a copy that came too late finds nothing of it.
RaceInv ==
    reconnects = 0 =>
        /\ callback = "copy" =>
              /\ Carries(motion) => alt = motion
              /\ pc = "writeAltitude" /\ pointAlt = motion => newAlt = motion
        /\ callback = "point" /\ readAlt # motion => alt # motion /\ ~Carries(motion)
        /\ report.alt = report.motion /\ motion = report.motion => Settled(motion)

LEMMA QueuedAreNumbers ==
  ASSUME TypeOK
  PROVE  \A k \in 1 .. Len(session) : session[k] \in Nat
<1>1. session \in Seq(1 .. MaxCommands)
  BY DEF TypeOK
<1>2. \A k \in 1 .. Len(session) : session[k] \in 1 .. MaxCommands
  BY <1>1, ElementOfSeq
<1> QED
  BY <1>2

LEMMA QueueStays ==
  ASSUME TypeOK, QueueInv, [Next]_vars
  PROVE  QueueInv'
<1>0. Len(session) \in Nat /\ commands \in Nat
  BY DEF TypeOK, Source
<1>1. CASE Release /\ subscribed
  <2>1. session' = Append(session, commands + 1) /\ commands' = commands + 1
    BY <1>1 DEF Release
  <2>2. /\ Len(session') = Len(session) + 1
        /\ \A k \in 1 .. Len(session) : session'[k] = session[k]
        /\ session'[Len(session) + 1] = commands + 1
    BY <2>1 DEF TypeOK
  <2>3. \A k \in 1 .. Len(session) : session[k] \in Nat /\ session[k] <= commands
    BY QueuedAreNumbers DEF QueueInv
  <2>4. \A k \in 1 .. Len(session') : session'[k] <= commands'
    BY <1>0, <2>1, <2>2, <2>3
  <2>5. ASSUME NEW j \in 1 .. Len(session'), NEW k \in 1 .. Len(session'), j < k
        PROVE  session'[j] < session'[k]
    <3>1. CASE k \in 1 .. Len(session)
      BY <1>0, <2>2, <2>5, <3>1 DEF QueueInv
    <3>2. CASE k = Len(session) + 1
      BY <1>0, <2>2, <2>3, <2>5, <3>2
    <3> QED
      BY <1>0, <2>2, <3>1, <3>2
  <2> QED
    BY <2>4, <2>5 DEF QueueInv
<1>2. CASE Release /\ ~subscribed
  <2>1. session' = session /\ commands' = commands + 1
    BY <1>2 DEF Release
  <2> QED
    BY <1>0, <2>1, QueuedAreNumbers DEF QueueInv
<1>3. CASE UNCHANGED <<commands, session>>
  BY <1>3 DEF QueueInv
<1> QED
  BY <1>1, <1>2, <1>3 DEF Next, Subscribe, Acknowledge, Reconnect, Callback, OnMessage,
     SetMotion, SetAltitude, CopyAltitude, SetPointAltitude, Loop, ReadAltitude, Move,
     WritePoint, WriteAltitude, SyncRead, SyncWrite, Publish, vars, broker

\* What an altitude, a motion or a report may be.
LEMMA TracesAreSources ==
  ASSUME TypeOK
  PROVE  /\ \A v \in Traces : v \in Int
         /\ command \in Nat /\ Zero \in Int /\ Zero < 0
         /\ Altitudes \subseteq Traces
BY DEF TypeOK, Traces, Altitudes, Source, Zero

\* A step of the loop only moves altitudes around: what is new stays new.
LEMMA FreshInLoop ==
  ASSUME TypeOK, FreshInv, Loop
  PROVE  FreshInv'
<1>0. /\ command \in Nat /\ Zero \in Int /\ Zero < 0
      /\ \A v \in Traces : v \in Int
  BY TracesAreSources
<1>1. UNCHANGED <<reconnects, commands, command, callback, motion, session, next>>
  BY DEF Loop, ReadAltitude, Move, WritePoint, WriteAltitude, SyncRead, SyncWrite,
         Publish, broker, thread, uav
<1>2. Altitudes' \subseteq Altitudes \union {Zero} /\ report'.motion \in {motion, report.motion}
  <2>1. CASE ReadAltitude
    BY <2>1 DEF ReadAltitude, thread, uav, Altitudes
  <2>2. CASE Move
    BY <2>2 DEF Move, thread, Altitudes
  <2>3. CASE WritePoint
    BY <2>3 DEF WritePoint, thread, Altitudes
  <2>4. CASE WriteAltitude
    BY <2>4 DEF WriteAltitude, thread, Altitudes
  <2>5. CASE SyncRead
    BY <2>5 DEF SyncRead, thread, uav, Altitudes
  <2>6. CASE SyncWrite
    BY <2>6 DEF SyncWrite, thread, Altitudes
  <2>7. CASE Publish
    BY <2>7 DEF Publish, thread, uav, Altitudes
  <2> QED
    BY <2>1, <2>2, <2>3, <2>4, <2>5, <2>6, <2>7 DEF Loop
<1>3. Traces' \subseteq Traces \union {Zero}
  BY <1>1, <1>2 DEF Traces
<1> QED
  BY <1>0, <1>1, <1>2, <1>3 DEF FreshInv

\* A delivered command is newer than all before it; its motion and its altitude
\* are set when nothing stems from it yet.
LEMMA FreshInCallback ==
  ASSUME TypeOK, QueueInv, FreshInv, Callback
  PROVE  FreshInv'
<1> SUFFICES ASSUME reconnects = 0
             PROVE  FreshInv'
  BY DEF FreshInv, Callback, OnMessage, SetMotion, SetAltitude, CopyAltitude,
         SetPointAltitude, broker
<1>0. /\ command \in Nat /\ Zero \in Int /\ Zero < 0
      /\ \A v \in Traces : v \in Int
      /\ Altitudes \subseteq Traces
      /\ Len(session) \in Nat /\ next \in 1 .. Len(session) + 1
      /\ \A k \in 1 .. Len(session) : session[k] \in Nat
      /\ commands \in Nat
  BY TracesAreSources, QueuedAreNumbers DEF TypeOK, Source
<1>1. CASE OnMessage
  <2>1. /\ next \in 1 .. Len(session) /\ command' = session[next] /\ next' = next + 1
        /\ callback' = "motion" /\ callback = "idle"
        /\ UNCHANGED <<commands, session, Traces>>
    BY <1>0, <1>1 DEF OnMessage, loop, uav, Traces, Altitudes
  <2>2. command < session[next]
    BY <1>0, <2>1 DEF FreshInv
  <2>3. \A v \in Traces : v < session[next]
    BY <1>0, <2>1, <2>2 DEF FreshInv
  <2>4. \A k \in next' .. Len(session) : session[next] < session[k]
    BY <1>0, <2>1 DEF QueueInv
  <2>5. command' <= commands
    BY <2>1 DEF QueueInv
  <2>6. Traces' = Traces /\ Len(session') = Len(session)
    BY <2>1
  <2>7. \A v \in Traces : v <= session[next]
    BY <1>0, <2>1, <2>3
  <2> QED
    BY <2>1, <2>3, <2>4, <2>5, <2>6, <2>7 DEF FreshInv
<1>2. CASE SetMotion
  <2>1. /\ motion' = command /\ callback' = "altitude" /\ callback = "motion"
        /\ UNCHANGED <<reconnects, commands, session, next, command, Altitudes, report>>
    BY <1>2 DEF SetMotion, broker, loop, Altitudes
  <2>2. Traces' \subseteq Traces \union {command} /\ Altitudes' = Altitudes
    BY <2>1 DEF Traces
  <2>3. \A v \in Altitudes' : v < command
    BY <1>0, <2>1, <2>2 DEF FreshInv
  <2>4. \A v \in Traces' : v <= command
    BY <1>0, <2>2 DEF FreshInv
  <2> QED
    BY <2>1, <2>3, <2>4 DEF FreshInv
<1>3. CASE SetAltitude
  <2>1. /\ alt' = command /\ callback' = "copy" /\ callback = "altitude"
        /\ UNCHANGED <<reconnects, commands, session, next, command, motion, report,
                       pointAlt, newAlt, syncAlt, readAlt>>
    BY <1>3 DEF SetAltitude, broker, loop
  <2>2. Traces' \subseteq Traces \union {command}
    BY <2>1 DEF Traces, Altitudes
  <2> QED
    BY <1>0, <2>1, <2>2 DEF FreshInv
<1>4. CASE CopyAltitude \/ SetPointAltitude
  <2>1. /\ callback \notin {"motion", "altitude"} /\ callback' \notin {"motion", "altitude"}
        /\ UNCHANGED <<reconnects, commands, session, next, command, motion, report,
                       alt, newAlt, syncAlt>>
        /\ readAlt' \in {readAlt, alt} /\ pointAlt' \in {pointAlt, readAlt}
    BY <1>4 DEF CopyAltitude, SetPointAltitude, broker, loop, uav
  <2>2. Traces' \subseteq Traces
    BY <2>1 DEF Traces, Altitudes
  <2> QED
    BY <1>0, <2>1, <2>2 DEF FreshInv
<1> QED
  BY <1>1, <1>2, <1>3, <1>4 DEF Callback

LEMMA FreshStays ==
  ASSUME TypeOK, QueueInv, FreshInv, [Next]_vars
  PROVE  FreshInv'
<1>1. CASE Subscribe \/ Acknowledge \/ UNCHANGED vars
  <2>1. UNCHANGED <<reconnects, commands, session, next, command, callback, motion, Altitudes, report>>
    BY <1>1 DEF Subscribe, Acknowledge, vars, broker, thread, loop, uav, Altitudes
  <2>2. Traces' = Traces /\ Altitudes' = Altitudes
    BY <2>1 DEF Traces
  <2> QED
    BY <2>1, <2>2 DEF FreshInv
<1>2. CASE Release
  <2>1. /\ UNCHANGED <<reconnects, next, command, callback, motion, Altitudes, report>>
        /\ commands' = commands + 1
    BY <1>2 DEF Release, thread, loop, uav, Altitudes
  <2>2. Traces' = Traces /\ Altitudes' = Altitudes
    BY <2>1 DEF Traces
  <2>3. ASSUME reconnects = 0
        PROVE  \A k \in next .. Len(session') : command < session'[k]
    <3>1. commands \in Nat /\ command \in Nat /\ command <= commands
      BY <2>3 DEF TypeOK, Source, FreshInv
    <3>2. CASE subscribed
      <4>1. session' = Append(session, commands + 1) /\ Len(session) \in Nat /\ next \in Nat \ {0}
        BY <1>2, <3>2 DEF Release, TypeOK
      <4>2. /\ Len(session') = Len(session) + 1
            /\ \A k \in 1 .. Len(session) : session'[k] = session[k]
            /\ session'[Len(session) + 1] = commands + 1
        BY <4>1 DEF TypeOK
      <4> QED
        BY <2>3, <3>1, <4>1, <4>2 DEF FreshInv
    <3>3. CASE ~subscribed
      BY <1>2, <2>3, <3>3 DEF Release, FreshInv
    <3> QED
      BY <3>2, <3>3
  <2>4. commands \in Nat /\ command \in Nat
    BY DEF TypeOK, Source
  <2> QED
    BY <2>1, <2>2, <2>3, <2>4 DEF FreshInv
<1>3. CASE Reconnect
  BY <1>3 DEF Reconnect, TypeOK, FreshInv
<1> QED
  BY <1>1, <1>2, <1>3, FreshInLoop, FreshInCallback DEF Next

\* How the steps of the loop move the altitude of the command along.
LEMMA RaceInLoop ==
  ASSUME TypeOK, FreshInv, RaceInv, Loop, reconnects = 0
  PROVE  RaceInv'
<1>0. /\ command \in Nat /\ \A v \in Traces : v \in Int
      /\ alt \in Traces /\ pointAlt \in Traces /\ newAlt \in Traces /\ syncAlt \in Traces
      /\ readAlt \in Traces /\ report.alt \in Traces /\ report.motion \in Traces
      /\ pc \in {"sync", "syncWrite", "publish"} => pointAlt # Zero
      /\ callback # "motion" => motion = command
  BY TracesAreSources DEF Traces, Altitudes, TypeOK, FreshInv
<1>1. CASE ReadAltitude
  BY <1>1 DEF ReadAltitude, RaceInv, Carries, Settled, thread, uav
<1>2. CASE Move
  BY <1>2 DEF Move, RaceInv, Carries, Settled, thread
<1>3. CASE WritePoint
  BY <1>3 DEF WritePoint, RaceInv, Carries, Settled, thread
<1>4. CASE WriteAltitude
  BY <1>4 DEF WriteAltitude, RaceInv, Carries, Settled, thread
<1>5. CASE SyncRead
  BY <1>0, <1>5 DEF SyncRead, RaceInv, Carries, Settled, thread, uav
<1>6. CASE SyncWrite
  BY <1>6 DEF SyncWrite, RaceInv, Carries, Settled, thread
<1>7. CASE Publish
  <2>1. /\ report'.motion = motion /\ report'.alt = alt /\ pc' = "read" /\ pc = "publish"
        /\ UNCHANGED <<reconnects, callback, command, readAlt, newAlt, syncAlt, motion, alt, pointAlt>>
    BY <1>7 DEF Publish, thread, uav, broker
  <2>2. alt = motion /\ callback = "point" => readAlt = motion
    BY DEF RaceInv
  <2> QED
    BY <2>1, <2>2 DEF RaceInv, Carries, Settled
<1> QED
  BY <1>1, <1>2, <1>3, <1>4, <1>5, <1>6, <1>7 DEF Loop

\* The callback starts the race with an altitude that nothing else carries.
LEMMA RaceInCallback ==
  ASSUME TypeOK, FreshInv, RaceInv, Callback, reconnects = 0
  PROVE  RaceInv'
<1>0. /\ command \in Nat /\ \A v \in Traces : v \in Int
      /\ alt \in Altitudes /\ pointAlt \in Altitudes /\ newAlt \in Altitudes
      /\ syncAlt \in Altitudes /\ readAlt \in Altitudes /\ report.alt \in Altitudes
      /\ report.motion \in Traces /\ Altitudes \subseteq Traces
  BY TracesAreSources DEF Traces, Altitudes
<1>1. CASE OnMessage
  <2>1. /\ callback' = "motion" /\ callback = "idle"
        /\ UNCHANGED <<pc, newAlt, syncAlt, readAlt, alt, pointAlt, motion, report>>
    BY <1>1 DEF OnMessage, loop, uav
  <2> QED
    BY <2>1 DEF RaceInv, Carries, Settled
<1>2. CASE SetMotion
  <2>1. motion' = command /\ callback' = "altitude" /\ report' = report /\ callback = "motion"
    BY <1>2 DEF SetMotion
  <2>2. report.motion < command
    BY <1>0, <2>1 DEF FreshInv
  <2>3. report'.motion # motion'
    BY <1>0, <2>1, <2>2
  <2> QED
    BY <2>1, <2>3 DEF RaceInv
<1>3. CASE SetAltitude
  <2>1. /\ alt' = command /\ callback' = "copy" /\ callback = "altitude"
        /\ UNCHANGED <<motion, report, pc, newAlt, syncAlt, pointAlt, readAlt>>
    BY <1>3 DEF SetAltitude, loop
  <2>2. /\ motion = command
        /\ report.alt < command /\ pointAlt < command
    BY <1>0, <2>1 DEF FreshInv
  <2>3. pointAlt # command /\ report.alt # command
    BY <1>0, <2>2
  <2> QED
    BY <2>1, <2>2, <2>3 DEF RaceInv, Carries, Settled
<1>4. CASE CopyAltitude
  <2>1. /\ readAlt' = alt /\ callback' = "point" /\ callback = "copy"
        /\ UNCHANGED <<motion, report, pc, newAlt, syncAlt, pointAlt, alt>>
    BY <1>4 DEF CopyAltitude, loop, uav
  <2> QED
    BY <2>1 DEF RaceInv, Carries, Settled
<1>5. CASE SetPointAltitude
  <2>1. /\ pointAlt' = readAlt /\ callback' = "idle" /\ callback = "point"
        /\ UNCHANGED <<motion, report, pc, newAlt, syncAlt, readAlt, alt>>
    BY <1>5 DEF SetPointAltitude, loop
  <2> QED
    BY <2>1 DEF RaceInv, Carries, Settled
<1> QED
  BY <1>1, <1>2, <1>3, <1>4, <1>5 DEF Callback

\* Once a report shows motion and altitude of the last command, the race is over:
\* as long as nothing is redelivered, no stale write of the loop brings an older
\* altitude back.
THEOREM SettledAltitude == Spec => SettledStays
<1> DEFINE Inv == QueueInv /\ FreshInv /\ RaceInv
<1>1. Init => Inv
  BY AgentAssumption
  DEF Init, QueueInv, FreshInv, RaceInv, Traces, Altitudes, Carries, Settled
<1>2. TypeOK /\ Inv /\ [Next]_vars => Inv'
  <2> SUFFICES ASSUME TypeOK, Inv, [Next]_vars PROVE RaceInv'
    BY QueueStays, FreshStays
  <2>1. CASE Subscribe \/ Release \/ Acknowledge \/ UNCHANGED vars
    <3>1. UNCHANGED <<reconnects, callback, pc, newAlt, syncAlt, readAlt, alt, pointAlt, motion, report>>
      BY <2>1 DEF Subscribe, Release, Acknowledge, vars, broker, thread, loop, uav
    <3> QED
      BY <3>1 DEF RaceInv, Carries, Settled
  <2>2. CASE Reconnect
    BY <2>2 DEF Reconnect, TypeOK, RaceInv
  <2>3. CASE Callback \/ Loop
    <3>1. reconnects' = reconnects
      BY <2>3 DEF Callback, OnMessage, SetMotion, SetAltitude, CopyAltitude, SetPointAltitude,
         Loop, ReadAltitude, Move, WritePoint, WriteAltitude, SyncRead, SyncWrite, Publish, broker
    <3>2. CASE reconnects = 0
      BY <2>3, <3>2, RaceInLoop, RaceInCallback
    <3>3. CASE reconnects # 0
      BY <3>1, <3>3 DEF RaceInv
    <3> QED
      BY <3>2, <3>3
  <2> QED
    BY <2>1, <2>2, <2>3 DEF Next
<1>3. TypeOK /\ Inv /\ [Next]_vars =>
        [reconnects = 0 /\ report.alt = report.motion /\ motion = report.motion =>
            report'.alt = report.alt]_vars
  <2> SUFFICES ASSUME TypeOK, Inv, [Next]_vars,
                      reconnects = 0, report.alt = report.motion, motion = report.motion
               PROVE  report'.alt = report.alt
    OBVIOUS
  <2>1. alt = motion
    BY DEF RaceInv, Settled
  <2>2. CASE Publish
    BY <2>1, <2>2 DEF Publish
  <2>3. CASE ~Publish
    BY <2>3 DEF Next, Subscribe, Release, Acknowledge, Reconnect, Callback, OnMessage, SetMotion,
       SetAltitude, CopyAltitude, SetPointAltitude, Loop, ReadAltitude, Move, WritePoint,
       WriteAltitude, SyncRead, SyncWrite, vars, uav
  <2> QED
    BY <2>2, <2>3
<1> QED
  BY <1>1, <1>2, <1>3, TypeInvariant, PTL DEF Spec, SettledStays

-----------------------------------------------------------------------------
(***************************************************************************)
(* What an acknowledgement is worth                                        *)
(***************************************************************************)

\* The motion the UAV has, or is about to get from the command it executes.
Flown == IF callback = "motion" THEN command ELSE motion

\* A command that the broker counts as acknowledged has been executed, and no
\* redelivery of an older one takes the UAV back behind it
\* (subscriber.py:26-41).
AcknowledgedFlown == \A k \in 1 .. acked : session[k] <= Flown

\* What has been delivered since the last connection was made is not behind.
DeliveredFlown == \A k \in 1 .. next - 1 : session[k] <= Flown

\* Commands are neither lost by an early acknowledgement nor undone by a late
\* redelivery, for any number of commands and broken connections: the safety
\* part of CommandsReported.
THEOREM AcknowledgedStaysFlown == Spec => []AcknowledgedFlown
<1>1. Init => QueueInv /\ DeliveredFlown
  BY DEF Init, QueueInv, DeliveredFlown
<1>2. ASSUME TypeOK, QueueInv, DeliveredFlown, [Next]_vars
      PROVE  DeliveredFlown'
  <2>0. /\ Len(session) \in Nat /\ next \in 1 .. Len(session) + 1 /\ acked \in 0 .. next - 1
        /\ \A k \in 1 .. Len(session) : session[k] \in Nat
        /\ motion \in Nat /\ command \in Nat
    BY <1>2, QueuedAreNumbers DEF TypeOK, Source
  <2>1. CASE Release
    <3>1. /\ \A k \in 1 .. Len(session) : session'[k] = session[k]
          /\ UNCHANGED <<next, callback, command, motion>>
      <4>1. session' \in {session, Append(session, commands + 1)}
        BY <2>1 DEF Release
      <4> QED
        BY <1>2, <2>1, <4>1 DEF Release, TypeOK, thread, uav
    <3> QED
      BY <1>2, <2>0, <3>1 DEF DeliveredFlown, Flown
  <2>2. CASE Reconnect
    <3>1. next' - 1 <= next - 1 /\ UNCHANGED <<session, callback, command, motion>>
      BY <2>0, <2>2 DEF Reconnect, thread, uav
    <3> QED
      BY <1>2, <2>0, <2>2, <3>1 DEF DeliveredFlown, Flown, Reconnect
  <2>3. CASE OnMessage
    <3>1. /\ session' = session /\ next' = next + 1 /\ next \in 1 .. Len(session)
          /\ Flown' = session[next]
      BY <2>0, <2>3 DEF OnMessage, Flown
    <3>2. \A k \in 1 .. next - 1 : session[k] < session[next]
      BY <1>2, <2>0, <3>1 DEF QueueInv
    <3>3. ASSUME NEW k \in 1 .. next' - 1
          PROVE  session'[k] <= Flown'
      <4>1. CASE k = next
        BY <2>0, <3>1, <4>1
      <4>2. CASE k \in 1 .. next - 1
        BY <2>0, <3>1, <3>2, <4>2
      <4> QED
        BY <2>0, <3>1, <3>3, <4>1, <4>2
    <3> QED
      BY <3>3 DEF DeliveredFlown
  <2>4. ASSUME UNCHANGED <<session, next>>, Flown' = Flown PROVE DeliveredFlown'
    BY <1>2, <2>4 DEF DeliveredFlown
  <2>5. CASE SetMotion
    BY <2>4, <2>5 DEF SetMotion, Flown, broker
  <2>6. CASE SetAltitude \/ CopyAltitude \/ SetPointAltitude
    BY <2>4, <2>6 DEF SetAltitude, CopyAltitude, SetPointAltitude, Flown, broker, uav
  <2>7. CASE Subscribe \/ Acknowledge \/ Loop \/ UNCHANGED vars
    BY <2>4, <2>7 DEF Subscribe, Acknowledge, Loop, ReadAltitude, Move, WritePoint,
       WriteAltitude, SyncRead, SyncWrite, Publish, vars, broker, thread, uav, Flown
  <2> QED
    BY <1>2, <2>1, <2>2, <2>3, <2>5, <2>6, <2>7 DEF Next, Callback
<1>3. TypeOK /\ DeliveredFlown => AcknowledgedFlown
  BY DEF TypeOK, DeliveredFlown, AcknowledgedFlown
<1>4. TypeOK /\ QueueInv /\ [Next]_vars => QueueInv'
  BY QueueStays
<1> QED
  BY <1>1, <1>2, <1>3, <1>4, TypeInvariant, PTL DEF Spec

=============================================================================
