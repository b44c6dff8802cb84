---------------------------- MODULE ViewerProofs ----------------------------
(***************************************************************************)
(* Proofs about the viewer's hub and frame publisher, for any number of    *)
(* UAVs, browsers and payloads.                                            *)
(***************************************************************************)
EXTENDS Viewer, TLAPS

\* What the hub knows stays a state, whichever queued payload is taken.
LEMMA UpdatedType ==
  ASSUME TypeOK, queue # <<>>
  PROVE  Updated(Last(queue)) \in State
<1>1. Last(queue) \in 1 .. Len(received)
  BY DEF TypeOK, Last
<1>2. Last(queue) \in 0 .. MaxPayloads
  BY <1>1, ViewerAssumption DEF TypeOK
<1> QED
  BY <1>2 DEF TypeOK, State, Updated

\* A payload is appended to the topic and to the queue.
LEMMA ReceiveType ==
  ASSUME TypeOK, Receive
  PROVE  TypeOK'
<1>1. PICK u \in Uav \union {"bad"} : received' = Append(received, u)
  BY DEF Receive
<1>2. /\ received' \in Seq(Uav \union {"bad"})
      /\ Len(received') = Len(received) + 1
      /\ Len(received') <= MaxPayloads
  BY <1>1, ViewerAssumption DEF TypeOK, Receive
<1>3. queue' \in Seq(1 .. Len(received'))
  <2>1. queue \in Seq(1 .. Len(received'))
    BY <1>2 DEF TypeOK
  <2>2. Len(received') \in 1 .. Len(received')
    BY <1>2 DEF TypeOK
  <2> QED
    BY <2>1, <2>2 DEF Receive
<1> QED
  BY <1>2, <1>3 DEF TypeOK, Receive, hub, frames, State

\* The types alone are not inductive: no send and no failure of an earlier frame
\* may be left over when the next one begins.
TypeInv ==
    /\ TypeOK
    /\ publisher = "sleeping" => sending = {} /\ failed = {}

\* Every variable keeps its type, and the publisher's lists fit each other: no
\* client fails twice in a frame or fails without being one of its targets.
THEOREM TypeInvariant == Spec => []TypeOK
<1>1. Init => TypeInv
  BY ViewerAssumption DEF Init, TypeInv, TypeOK, State
<1>2. ASSUME TypeInv, [Next]_vars PROVE TypeInv'
  <2>0. TypeOK
    BY <1>2 DEF TypeInv
  <2>1. CASE Receive
    BY <2>1, <2>0, <1>2, ReceiveType DEF TypeInv, Receive, frames
  <2>2. CASE Consume
    BY <2>2, <2>0, <1>2, UpdatedType DEF TypeInv, TypeOK, Consume, frames
  <2>3. ASSUME NEW c \in Client, Leave(c) PROVE TypeInv'
    BY <2>3, <1>2 DEF TypeInv, TypeOK, Leave, hub, frames
  <2>4. ASSUME NEW c \in Client, Accept(c) PROVE TypeInv'
    BY <2>4, <1>2 DEF TypeInv, TypeOK, Accept, frames
  <2>5. ASSUME NEW c \in Client, SnapshotSent(c) PROVE TypeInv'
    BY <2>5, <1>2 DEF TypeInv, TypeOK, SnapshotSent, hub, frames
  <2>6. ASSUME NEW c \in Client, FeedEnd(c) PROVE TypeInv'
    BY <2>6, <1>2 DEF TypeInv, TypeOK, FeedEnd, frames
  <2>7. CASE BeginFrame
    BY <2>7, <1>2 DEF TypeInv, TypeOK, BeginFrame, hub
  <2>8. ASSUME NEW c \in Client, SendFrame(c) PROVE TypeInv'
    BY <2>8, <1>2 DEF TypeInv, TypeOK, SendFrame, hub
  <2>9. CASE EndFrame
    BY <2>9, <1>2, ViewerAssumption DEF TypeInv, TypeOK, EndFrame, Forget, State
  <2>10. CASE UNCHANGED vars
    BY <2>10, <1>2 DEF TypeInv, TypeOK, vars, hub, frames, State
  <2> QED
    BY <1>2, <2>1, <2>2, <2>3, <2>4, <2>5, <2>6, <2>7, <2>8, <2>9, <2>10
    DEF Next, Feed, Publish
<1>3. TypeInv => TypeOK
  BY DEF TypeInv
<1> QED
  BY <1>1, <1>2, <1>3, PTL DEF Spec

-----------------------------------------------------------------------------
\* ConnectedListed needs to know whom the end of a frame removes: a send fails
\* only on a connection that is closed.
ListInv == TypeOK /\ failed \subseteq gone /\ ConnectedListed

\* Every browser that is connected stays on the list, for any number of
\* browsers that join, leave and fail while a frame is on its way.
THEOREM ConnectedStaysListed == Spec => []ConnectedListed
<1>1. Init => failed \subseteq gone /\ ConnectedListed
  BY DEF Init, ConnectedListed
<1>2. ASSUME ListInv, TypeOK', [Next]_vars
      PROVE  (failed \subseteq gone /\ ConnectedListed)'
  <2>1. CASE Receive
    BY <2>1, <1>2 DEF ListInv, ConnectedListed, Receive, hub, frames
  <2>2. CASE Consume
    BY <2>2, <1>2 DEF ListInv, ConnectedListed, Consume, frames
  <2>3. ASSUME NEW c \in Client, Leave(c)
        PROVE  (failed \subseteq gone /\ ConnectedListed)'
    BY <2>3, <1>2 DEF ListInv, ConnectedListed, Leave, hub, frames
  <2>4. ASSUME NEW c \in Client, Accept(c)
        PROVE  (failed \subseteq gone /\ ConnectedListed)'
    BY <2>4, <1>2 DEF ListInv, TypeOK, ConnectedListed, Accept, frames
  <2>5. ASSUME NEW c \in Client, SnapshotSent(c)
        PROVE  (failed \subseteq gone /\ ConnectedListed)'
    BY <2>5, <1>2 DEF ListInv, TypeOK, ConnectedListed, SnapshotSent, hub, frames
  <2>6. ASSUME NEW c \in Client, FeedEnd(c)
        PROVE  (failed \subseteq gone /\ ConnectedListed)'
    BY <2>6, <1>2 DEF ListInv, TypeOK, ConnectedListed, FeedEnd, frames
  <2>7. CASE BeginFrame
    BY <2>7, <1>2 DEF ListInv, ConnectedListed, BeginFrame, hub
  <2>8. ASSUME NEW c \in Client, SendFrame(c)
        PROVE  (failed \subseteq gone /\ ConnectedListed)'
    BY <2>8, <1>2 DEF ListInv, ConnectedListed, SendFrame, hub
  <2>9. CASE EndFrame
    BY <2>9, <1>2 DEF ListInv, ConnectedListed, EndFrame, Forget
  <2>10. CASE UNCHANGED vars
    BY <2>10, <1>2 DEF ListInv, ConnectedListed, vars, hub, frames
  <2> QED
    BY <1>2, <2>1, <2>2, <2>3, <2>4, <2>5, <2>6, <2>7, <2>8, <2>9, <2>10
    DEF Next, Feed, Publish
<1>3. ListInv => ConnectedListed
  BY DEF ListInv
<1> QED
  BY <1>1, <1>2, <1>3, TypeInvariant, PTL DEF Spec, ListInv

-----------------------------------------------------------------------------
\* Payloads are numbered as they arrive: the queue is in order, and what the hub
\* knows arrived before what is still queued.
QueueInv ==
    /\ \A i, j \in 1 .. Len(queue) : i < j => queue[i] < queue[j]
    /\ \A u \in Uav : latest[u] <= Len(received)
    /\ \A u \in Uav : \A i \in 1 .. Len(queue) : latest[u] < queue[i]

\* A browser is not ahead of the hub, nor of the frame that is on its way to it;
\* a frame goes to listed browsers, which have got their snapshot before.
ShownInv ==
    /\ \A c \in clients \union sending : feed[c] # "new"
    /\ \A u \in Uav : frame[u] <= latest[u]
    /\ \A c \in Client, u \in Uav : shown[c][u] <= latest[u]
    /\ \A c \in sending, u \in Uav : shown[c][u] <= frame[u]

\* The hub never falls back: a drain takes a payload newer than all it knows.
LEMMA HubGoesForward ==
  ASSUME TypeOK, QueueInv, queue # <<>>, NEW u \in Uav
  PROVE  /\ latest[u] <= Updated(Last(queue))[u]
         /\ Updated(Last(queue))[u] <= Len(received)
<1>1. Len(queue) \in 1 .. Len(queue) /\ Last(queue) = queue[Len(queue)]
  BY DEF TypeOK, Last
<1>2. Last(queue) \in 1 .. Len(received) /\ latest[u] < Last(queue)
  BY <1>1 DEF TypeOK, QueueInv
<1>3. latest[u] \in Nat /\ latest[u] <= Len(received) /\ Len(received) \in Nat
  BY ViewerAssumption DEF TypeOK, State, QueueInv
<1>4. Updated(Last(queue))[u] \in {Last(queue), latest[u]}
  BY DEF Updated
<1> QED
  BY <1>2, <1>3, <1>4

LEMMA QueueStays ==
  ASSUME TypeOK, QueueInv, [Next]_vars
  PROVE  QueueInv'
<1>0. /\ Len(queue) \in Nat /\ Len(received) \in Nat
      /\ \A i \in 1 .. Len(queue) : queue[i] \in 1 .. Len(received)
      /\ \A u \in Uav : latest[u] \in Nat
  BY ViewerAssumption DEF TypeOK, State
<1>1. CASE Receive
  <2>1. Len(received') = Len(received) + 1 /\ latest' = latest
    BY <1>1 DEF Receive, TypeOK, hub
  <2>2. queue' = Append(queue, Len(received) + 1)
    BY <1>1, <2>1 DEF Receive
  <2>3. /\ Len(queue') = Len(queue) + 1
        /\ \A i \in 1 .. Len(queue) : queue'[i] = queue[i]
        /\ queue'[Len(queue) + 1] = Len(received) + 1
    BY <2>2 DEF TypeOK
  <2>4. ASSUME NEW i \in 1 .. Len(queue'), NEW j \in 1 .. Len(queue'), i < j
        PROVE  queue'[i] < queue'[j]
    <3>1. CASE j \in 1 .. Len(queue)
      BY <1>0, <2>3, <2>4, <3>1 DEF QueueInv
    <3>2. CASE j = Len(queue) + 1
      BY <1>0, <2>3, <2>4, <3>2
    <3> QED
      BY <1>0, <2>3, <3>1, <3>2
  <2>5. ASSUME NEW u \in Uav, NEW i \in 1 .. Len(queue')
        PROVE  latest'[u] < queue'[i]
    <3>1. CASE i \in 1 .. Len(queue)
      BY <2>1, <2>3, <3>1 DEF QueueInv
    <3>2. CASE i = Len(queue) + 1
      BY <1>0, <2>1, <2>3, <3>2 DEF QueueInv
    <3> QED
      BY <1>0, <2>3, <3>1, <3>2
  <2>6. \A u \in Uav : latest'[u] <= Len(received')
    BY <1>0, <2>1 DEF QueueInv
  <2> QED
    BY <2>4, <2>5, <2>6 DEF QueueInv
<1>2. CASE Consume
  <2>1. Len(queue') = 0 /\ received' = received
    BY <1>2 DEF Consume
  <2>2. \A u \in Uav : latest'[u] <= Len(received)
    BY <1>2, HubGoesForward DEF Consume
  <2> QED
    BY <2>1, <2>2 DEF QueueInv
<1>3. CASE UNCHANGED <<received, queue, latest>>
  BY <1>3 DEF QueueInv
<1> QED
  BY <1>1, <1>2, <1>3 DEF Next, Leave, Accept, Feed, SnapshotSent, FeedEnd, Publish,
     BeginFrame, SendFrame, EndFrame, vars, hub

\* A browser that is shown something is shown what is at least as new.
LEMMA ShownStays ==
  ASSUME TypeOK, TypeOK', QueueInv, ShownInv, [Next]_vars
  PROVE  /\ ShownInv'
         /\ \A c \in Client, u \in Uav : shown'[c][u] >= shown[c][u]
<1> DEFINE Goal == /\ ShownInv'
                   /\ \A c \in Client, u \in Uav : shown'[c][u] >= shown[c][u]
<1>0. /\ \A u \in Uav : latest[u] \in Nat /\ frame[u] \in Nat
      /\ \A c \in Client, u \in Uav : shown[c][u] \in Nat
      /\ sending \subseteq Client /\ clients \subseteq Client
  <2>1. \A c \in Client : shown[c] \in State
    BY DEF TypeOK
  <2> QED
    BY <2>1, ViewerAssumption DEF TypeOK, State
<1>1. CASE Receive
  BY <1>0, <1>1 DEF Receive, ShownInv, hub, frames
<1>2. CASE Consume
  <2>1. \A u \in Uav : latest[u] <= latest'[u] /\ latest'[u] \in Nat
    BY <1>2, HubGoesForward, ViewerAssumption DEF Consume, TypeOK, State
  <2>2. UNCHANGED <<clients, sending, frame, feed, shown>>
    BY <1>2 DEF Consume, frames
  <2>3. \A u \in Uav : frame[u] <= latest'[u]
    BY <1>0, <2>1 DEF ShownInv
  <2>4. \A c \in Client, u \in Uav : shown[c][u] <= latest'[u]
    BY <1>0, <2>1 DEF ShownInv
  <2> QED
    BY <1>0, <2>2, <2>3, <2>4 DEF ShownInv
<1>3. ASSUME NEW c \in Client, Leave(c) PROVE Goal
  BY <1>0, <1>3 DEF Leave, ShownInv, hub, frames
<1>4. ASSUME NEW c \in Client, Accept(c) PROVE Goal
  <2>1. /\ feed[c] = "new" /\ feed'[c] # "new"
        /\ \A d \in Client : d # c => feed'[d] = feed[d] /\ shown'[d] = shown[d]
        /\ shown'[c] = latest \/ shown'[c] = shown[c]
        /\ clients' \subseteq clients \union {c}
        /\ UNCHANGED <<sending, frame, latest>>
    BY <1>4 DEF Accept, TypeOK, frames
  <2>2. c \notin sending
    BY <2>1 DEF ShownInv
  <2>3. \A d \in clients' \union sending' : feed'[d] # "new"
    BY <1>0, <2>1 DEF ShownInv
  <2>4. \A d \in Client, u \in Uav : shown[d][u] <= shown'[d][u] /\ shown'[d][u] <= latest[u]
    BY <1>0, <2>1 DEF ShownInv
  <2>5. \A d \in sending, u \in Uav : shown'[d][u] <= frame[u]
    BY <1>0, <2>1, <2>2 DEF ShownInv
  <2> QED
    BY <1>0, <2>1, <2>3, <2>4, <2>5 DEF ShownInv
<1>5. ASSUME NEW c \in Client, Feed(c) PROVE Goal
  <2>1. /\ feed[c] # "new" /\ feed'[c] # "new"
        /\ \A d \in Client : d # c => feed'[d] = feed[d]
        /\ clients' \subseteq clients
        /\ UNCHANGED <<sending, frame, latest, shown>>
    BY <1>5 DEF Feed, SnapshotSent, FeedEnd, TypeOK, hub, frames
  <2> QED
    BY <1>0, <2>1 DEF ShownInv
<1>6. CASE BeginFrame
  <2>1. /\ frame' = latest /\ sending' = clients
        /\ UNCHANGED <<clients, feed, latest, shown>>
    BY <1>6 DEF BeginFrame, hub
  <2> QED
    BY <1>0, <2>1 DEF ShownInv
<1>7. ASSUME NEW c \in Client, SendFrame(c) PROVE Goal
  <2>1. /\ c \in sending /\ sending' = sending \ {c}
        /\ \A d \in Client : d # c => shown'[d] = shown[d]
        /\ shown'[c] = frame \/ shown'[c] = shown[c]
        /\ UNCHANGED <<clients, feed, frame, latest>>
    BY <1>7 DEF SendFrame, TypeOK, hub
  <2>2. \A d \in Client, u \in Uav : shown[d][u] <= shown'[d][u] /\ shown'[d][u] <= latest[u]
    BY <1>0, <2>1 DEF ShownInv
  <2>3. \A d \in sending', u \in Uav : shown'[d][u] <= frame[u]
    BY <1>0, <2>1 DEF ShownInv
  <2> QED
    BY <1>0, <2>1, <2>2, <2>3 DEF ShownInv
<1>8. CASE EndFrame
  <2>1. /\ sending' = {} /\ clients' \subseteq clients
        /\ \A u \in Uav : frame'[u] = 0
        /\ UNCHANGED <<feed, latest, shown>>
    BY <1>8 DEF EndFrame, Forget
  <2> QED
    BY <1>0, <2>1 DEF ShownInv
<1>9. CASE UNCHANGED vars
  BY <1>0, <1>9 DEF vars, ShownInv, hub, frames
<1> QED
  BY <1>1, <1>2, <1>3, <1>4, <1>5, <1>6, <1>7, <1>8, <1>9 DEF Next, Publish

\* Whatever is dropped by a drain and whenever snapshot and frames are serialised
\* and sent, no browser is ever shown an older state than before.
THEOREM ShownGoesForward == Spec => NeverBackwards
<1>1. Init => QueueInv /\ ShownInv
  BY DEF Init, QueueInv, ShownInv
<1>2. TypeOK /\ TypeOK' /\ QueueInv /\ ShownInv /\ [Next]_vars => QueueInv' /\ ShownInv'
  BY QueueStays, ShownStays
<1>3. TypeOK /\ TypeOK' /\ QueueInv /\ ShownInv /\ [Next]_vars =>
        [\A c \in Client, u \in Uav : shown'[c][u] >= shown[c][u]]_vars
  BY ShownStays
<1> QED
  BY <1>1, <1>2, <1>3, TypeInvariant, PTL DEF Spec, NeverBackwards

-----------------------------------------------------------------------------
\* What is known of each UAV is the number of one of its own payloads.
Genuine(state) ==
    \A u \in Uav : state[u] = 0 \/ (state[u] \in 1 .. Len(received) /\ received[state[u]] = u)

\* When the queue is empty, the last payload of the topic is what the hub knows of
\* its UAV, unless it could not be read (server.py:93-101).  No state is attributed
\* to another UAV.
LastInHub ==
    /\ queue = <<>> /\ received # <<>> /\ received[Len(received)] # "bad" =>
           latest[received[Len(received)]] = Len(received)
    /\ Genuine(latest)
    /\ \A c \in Client : Genuine(shown[c])

\* The last payload of a queue is the last one that arrived, and a frame is as
\* genuine as the hub it was serialised from.
LastInv ==
    /\ LastInHub
    /\ queue # <<>> => Last(queue) = Len(received)
    /\ Genuine(frame)

\* A longer topic attributes the payloads it had as before.
LEMMA GenuineStays ==
  ASSUME TypeOK, NEW u, received' = Append(received, u), NEW state \in State, Genuine(state)
  PROVE  Genuine(state)'
BY DEF TypeOK, Genuine

\* Once the queue is empty the hub knows the last payload of the topic, if it can be
\* read, however much was dropped before it, and nothing is shown of a UAV that it
\* did not send: the safety part of NewestKept, for any number of UAVs, browsers and
\* payloads.  Of the payloads before the last one it says nothing: a drain drops
\* them, the readable ones before an unreadable one too.
THEOREM LastReachesHub == Spec => []LastInHub
<1>1. Init => LastInv
  BY DEF Init, LastInv, LastInHub, Genuine
<1>2. ASSUME TypeOK, LastInv, [Next]_vars PROVE LastInv'
  <2>0. /\ latest \in State /\ frame \in State /\ \A c \in Client : shown[c] \in State
        /\ Len(received) \in Nat /\ received \in Seq(Uav \union {"bad"})
    BY <1>2 DEF TypeOK
  <2>1. CASE Receive
    <3>1. PICK u \in Uav \union {"bad"} : received' = Append(received, u)
      BY <2>1 DEF Receive
    <3>2. UNCHANGED <<latest, frame, shown>>
      BY <2>1 DEF Receive, hub, frames
    <3>3. Genuine(latest)' /\ Genuine(frame)' /\ \A c \in Client : Genuine(shown[c])'
      <4>1. \A state \in State : Genuine(state) => Genuine(state)'
        BY <1>2, <3>1, GenuineStays
      <4> QED
        BY <1>2, <2>0, <3>2, <4>1 DEF LastInv, LastInHub
    <3>4. queue' # <<>> /\ Last(queue') = Len(received')
      <4>1. queue' = Append(queue, Len(received')) /\ queue \in Seq(1 .. Len(received))
        BY <1>2, <2>1 DEF Receive, TypeOK
      <4> QED
        BY <4>1 DEF Last
    <3> QED
      BY <3>3, <3>4 DEF LastInv, LastInHub
  <2>2. CASE Consume
    <3>1. /\ queue # <<>> /\ queue' = <<>> /\ latest' = Updated(Len(received))
          /\ UNCHANGED <<received, frame, shown>>
      BY <1>2, <2>2 DEF Consume, LastInv, frames
    <3>2. Len(received) \in 1 .. Len(received)
      <4>1. Last(queue) \in 1 .. Len(received)
        BY <1>2, <3>1 DEF TypeOK, Last
      <4> QED
        BY <2>0, <4>1
    <3>3. \A u \in Uav : latest'[u] = IF received[Len(received)] = u
                                      THEN Len(received) ELSE latest[u]
      BY <3>1 DEF Updated
    <3>4. Genuine(latest)'
      BY <1>2, <3>1, <3>2, <3>3 DEF LastInv, LastInHub, Genuine
    <3>5. received[Len(received)] \in Uav \union {"bad"}
      BY <2>0, <3>2
    <3>6. Genuine(frame)' /\ \A c \in Client : Genuine(shown[c])'
      BY <1>2, <3>1 DEF LastInv, LastInHub, Genuine
    <3> QED
      BY <3>1, <3>3, <3>4, <3>5, <3>6 DEF LastInv, LastInHub
  <2>3. ASSUME UNCHANGED <<received, queue, latest>>,
               frame' \in {frame, latest, [u \in Uav |-> 0]},
               \A c \in Client : shown'[c] \in {shown[c], latest, frame}
        PROVE  LastInv'
    <3>1. Genuine(frame)'
      BY <1>2, <2>3 DEF LastInv, LastInHub, Genuine
    <3>2. \A c \in Client : Genuine(shown[c])'
      BY <1>2, <2>3 DEF LastInv, LastInHub, Genuine
    <3> QED
      BY <1>2, <2>3, <3>1, <3>2 DEF LastInv, LastInHub, Genuine
  <2>4. ASSUME NEW c \in Client, Leave(c) \/ Feed(c) PROVE LastInv'
    BY <2>3, <2>4 DEF Leave, Feed, SnapshotSent, FeedEnd, hub, frames
  <2>5. ASSUME NEW c \in Client, Accept(c) PROVE LastInv'
    BY <1>2, <2>3, <2>5 DEF Accept, frames, TypeOK
  <2>6. CASE BeginFrame
    BY <2>3, <2>6 DEF BeginFrame, hub
  <2>7. ASSUME NEW c \in Client, SendFrame(c) PROVE LastInv'
    BY <1>2, <2>3, <2>7 DEF SendFrame, hub, TypeOK
  <2>8. CASE EndFrame
    BY <2>3, <2>8 DEF EndFrame, Forget
  <2>9. CASE UNCHANGED vars
    BY <2>3, <2>9 DEF vars, hub, frames
  <2> QED
    BY <1>2, <2>1, <2>2, <2>4, <2>5, <2>6, <2>7, <2>8, <2>9 DEF Next, Publish
<1>3. LastInv => LastInHub
  BY DEF LastInv
<1> QED
  BY <1>1, <1>2, <1>3, TypeInvariant, PTL DEF Spec

-----------------------------------------------------------------------------
\* When a send of the gather has returned, its browser shows the frame or
\* something newer, or it has failed and will be taken off the list: no target
\* is skipped, whoever else fails (server.py:46-53).
FrameDelivered ==
    \A c \in targets \ (sending \union failed), u \in Uav : shown[c][u] >= frame[u]

\* Every frame reaches each browser that was listed when it was serialised and
\* whose connection holds: the safety part of FramesArrive, for any number of
\* UAVs, browsers and payloads.
THEOREM FramesAreDelivered == Spec => []FrameDelivered
<1>1. Init => QueueInv /\ ShownInv /\ FrameDelivered
  BY DEF Init, QueueInv, ShownInv, FrameDelivered
<1>2. ASSUME TypeOK, TypeOK', QueueInv, ShownInv, FrameDelivered, [Next]_vars
      PROVE  QueueInv' /\ ShownInv' /\ FrameDelivered'
  <2>1. /\ QueueInv' /\ ShownInv'
        /\ \A c \in Client, u \in Uav : shown'[c][u] >= shown[c][u]
    BY <1>2, QueueStays, ShownStays
  <2>2. /\ targets \subseteq Client
        /\ \A u \in Uav : frame[u] \in Nat
        /\ \A c \in Client, u \in Uav : shown[c][u] \in Nat /\ shown'[c][u] \in Nat
    <3>1. \A c \in Client : shown[c] \in State /\ shown'[c] \in State
      BY <1>2 DEF TypeOK
    <3> QED
      BY <1>2, <3>1, ViewerAssumption DEF TypeOK, State
  <2>3. ASSUME UNCHANGED <<targets, sending, failed, frame>>
        PROVE  FrameDelivered'
    BY <1>2, <2>1, <2>2, <2>3 DEF FrameDelivered
  <2>4. ASSUME NEW c \in Client, Leave(c) \/ Accept(c) \/ Feed(c) PROVE FrameDelivered'
    BY <2>3, <2>4 DEF Leave, Accept, Feed, SnapshotSent, FeedEnd, frames
  <2>5. CASE BeginFrame
    BY <2>1, <2>5 DEF BeginFrame, FrameDelivered
  <2>6. ASSUME NEW c \in Client, SendFrame(c) PROVE FrameDelivered'
    <3>1. /\ targets' = targets /\ sending' = sending \ {c} /\ frame' = frame
          /\ failed \subseteq failed'
          /\ c \in failed' \/ shown'[c] = frame
      BY <1>2, <2>6 DEF SendFrame, TypeOK
    <3>2. ASSUME NEW d \in targets' \ (sending' \union failed'), NEW u \in Uav
          PROVE  shown'[d][u] >= frame'[u]
      <4>1. CASE d = c
        BY <2>2, <3>1, <3>2, <4>1
      <4>2. CASE d # c
        BY <1>2, <2>1, <2>2, <3>1, <3>2, <4>2 DEF FrameDelivered
      <4> QED
        BY <4>1, <4>2
    <3> QED
      BY <3>2 DEF FrameDelivered
  <2>7. CASE EndFrame
    BY <2>1, <2>7 DEF EndFrame, Forget, FrameDelivered
  <2>8. CASE Receive \/ Consume \/ UNCHANGED vars
    BY <2>1, <2>3, <2>8 DEF Receive, Consume, vars, frames
  <2> QED
    BY <1>2, <2>1, <2>4, <2>5, <2>6, <2>7, <2>8 DEF Next, Publish
<1> QED
  BY <1>1, <1>2, TypeInvariant, PTL DEF Spec

=============================================================================
