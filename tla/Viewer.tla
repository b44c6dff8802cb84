------------------------------- MODULE Viewer -------------------------------
(***************************************************************************)
(* viz/server.py.  The paho thread queues the payloads of the updates      *)
(* topic; on the event loop mqtt_consumer, frame_publisher and one ws_feed *)
(* per browser interleave at their awaits only.  A payload is the number   *)
(* of its arrival, so a later state of a UAV is a larger number; 0 stands  *)
(* for a UAV that the hub does not know.                                   *)
(***************************************************************************)
EXTENDS Naturals, Sequences, SequencesExt

CONSTANTS
    Uav,
    Client,         \* browsers, each connecting once
    MaxPayloads     \* bound: payloads on the updates topic

ASSUME ViewerAssumption == MaxPayloads \in Nat

VARIABLES
    received,   \* the payloads received so far: the UAV, or "bad"
    queue,      \* _mqtt_queue
    latest,     \* [Uav -> Nat]: hub.latest
    clients,    \* hub.clients
    publisher,  \* "sleeping", or "sending" while gather is awaited
    frame,      \* the frame being sent
    targets,    \* the clients it is sent to, as listed when it began
    sending,    \* those whose send_text has not run yet
    failed,     \* those whose send_text raised
    feed,       \* [Client -> control state of ws_feed]
    gone,       \* the clients whose connection is closed
    shown       \* [Client -> [Uav -> Nat]]: what the browser shows

hub == <<latest, clients>>
frames == <<publisher, frame, targets, sending, failed>>
vars == <<received, queue, hub, frames, feed, gone, shown>>

Payload == 1 .. MaxPayloads
State == [Uav -> 0 .. MaxPayloads]

Init ==
    /\ received = <<>>
    /\ queue = <<>>
    /\ latest = [u \in Uav |-> 0]
    /\ clients = {}
    /\ publisher = "sleeping"
    /\ frame = [u \in Uav |-> 0]
    /\ targets = {}
    /\ sending = {}
    /\ failed = {}
    /\ feed = [c \in Client |-> "new"]
    /\ gone = {}
    /\ shown = [c \in Client |-> [u \in Uav |-> 0]]

-----------------------------------------------------------------------------
(***************************************************************************)
(* From MQTT to the hub                                                    *)
(***************************************************************************)

\* _on_message hands the payload to the event loop, whatever it contains.
Receive ==
    /\ Len(received) < MaxPayloads
    /\ \E u \in Uav \union {"bad"} : received' = Append(received, u)
    /\ queue' = Append(queue, Len(received'))
    /\ UNCHANGED <<hub, frames, feed, gone, shown>>

\* What the hub knows after payload p; one that cannot be read changes nothing.
Updated(p) == [u \in Uav |-> IF received[p] = u THEN p ELSE latest[u]]

\* Defective variants of Consume: payloads are taken one by one from the wrong
\* end, or one that cannot be read is met again for ever.
ConsumeNewestFirst ==
    /\ queue # <<>>
    /\ latest' = Updated(Last(queue))
    /\ queue' = Front(queue)
    /\ UNCHANGED <<received, clients, frames, feed, gone, shown>>

ConsumeOrStop ==
    /\ queue # <<>>
    /\ received[Head(queue)] # "bad"
    /\ latest' = Updated(Last(queue))
    /\ queue' = <<>>
    /\ UNCHANGED <<received, clients, frames, feed, gone, shown>>

\* mqtt_consumer empties the queue and keeps its last payload only; it does not
\* wait again before it has updated the hub.
Consume ==
    /\ queue # <<>>
    /\ latest' = Updated(Last(queue))
    /\ queue' = <<>>
    /\ UNCHANGED <<received, clients, frames, feed, gone, shown>>

-----------------------------------------------------------------------------
(***************************************************************************)
(* ws_feed                                                                 *)
(***************************************************************************)

\* The browser closes the connection.
Leave(c) ==
    /\ c \notin gone
    /\ gone' = gone \union {c}
    /\ UNCHANGED <<received, queue, hub, frames, feed, shown>>

\* accept returns, the client is listed and its snapshot is on the way; or
\* accept raises.
Accept(c) ==
    /\ feed[c] = "new"
    /\ \/ /\ clients' = clients \union {c}
          /\ feed' = [feed EXCEPT ![c] = "snapshot"]
          /\ shown' = [shown EXCEPT ![c] = latest]
       \/ /\ c \in gone
          /\ feed' = [feed EXCEPT ![c] = "ended"]
          /\ UNCHANGED <<clients, shown>>
    /\ UNCHANGED <<received, queue, latest, frames, gone>>

\* add returns; or send_text raises outside the try and the client stays listed.
SnapshotSent(c) ==
    /\ feed[c] = "snapshot"
    /\ feed' = [feed EXCEPT ![c] = IF c \in gone THEN "ended" ELSE "feeding"]
    /\ UNCHANGED <<received, queue, hub, frames, gone, shown>>

\* The client's disconnect ends iter_text, and the finally removes it.
FeedEnd(c) ==
    /\ feed[c] = "feeding"
    /\ c \in gone
    /\ feed' = [feed EXCEPT ![c] = "ended"]
    /\ clients' = clients \ {c}
    /\ UNCHANGED <<received, queue, latest, frames, gone, shown>>

-----------------------------------------------------------------------------
(***************************************************************************)
(* frame_publisher                                                         *)
(***************************************************************************)

\* broadcast_frame serialises the hub once for the clients listed now.
BeginFrame ==
    /\ publisher = "sleeping"
    /\ clients # {}
    /\ publisher' = "sending"
    /\ frame' = latest
    /\ targets' = clients
    /\ sending' = clients
    /\ UNCHANGED <<received, queue, hub, failed, feed, gone, shown>>

\* Defective variant of SendFrame: a send that failed is tried again.
SendFrameAgain(c) ==
    /\ c \in sending
    /\ \/ /\ c \notin gone
          /\ sending' = sending \ {c}
          /\ shown' = [shown EXCEPT ![c] = frame]
          /\ UNCHANGED failed
       \/ /\ c \in gone
          /\ failed' = failed \union {c}
          /\ UNCHANGED <<sending, shown>>
    /\ UNCHANGED <<received, queue, hub, publisher, frame, targets, feed, gone>>

\* One send_text of the gather: the browser shows the frame, or it raises.
SendFrame(c) ==
    /\ c \in sending
    /\ sending' = sending \ {c}
    /\ \/ /\ c \notin gone
          /\ shown' = [shown EXCEPT ![c] = frame]
          /\ UNCHANGED failed
       \/ /\ c \in gone
          /\ failed' = failed \union {c}
          /\ UNCHANGED shown
    /\ UNCHANGED <<received, queue, hub, publisher, frame, targets, feed, gone>>

\* The locals of broadcast_frame are gone when it returns.
Forget == frame' = [u \in Uav |-> 0] /\ targets' = {} /\ failed' = {}

\* Defective variants of EndFrame: clients that failed stay listed; the list is
\* the one of the beginning without them; or their exception ends the task.
EndFrameKeepsFailed ==
    /\ publisher = "sending"
    /\ sending = {}
    /\ publisher' = "sleeping"
    /\ Forget
    /\ UNCHANGED <<received, queue, hub, sending, feed, gone, shown>>

EndFrameOverwrites ==
    /\ publisher = "sending"
    /\ sending = {}
    /\ publisher' = "sleeping"
    /\ clients' = targets \ failed
    /\ Forget
    /\ UNCHANGED <<received, queue, latest, sending, feed, gone, shown>>

EndFrameRaises ==
    /\ publisher = "sending"
    /\ sending = {}
    /\ publisher' = IF failed = {} THEN "sleeping" ELSE "ended"
    /\ clients' = clients \ failed
    /\ Forget
    /\ UNCHANGED <<received, queue, latest, sending, feed, gone, shown>>

\* gather has returned and the clients that failed are removed.
EndFrame ==
    /\ publisher = "sending"
    /\ sending = {}
    /\ publisher' = "sleeping"
    /\ clients' = clients \ failed
    /\ Forget
    /\ UNCHANGED <<received, queue, latest, sending, feed, gone, shown>>

Feed(c) == SnapshotSent(c) \/ FeedEnd(c)
Publish == BeginFrame \/ EndFrame \/ \E c \in Client : SendFrame(c)

Next ==
    \/ Receive
    \/ Consume
    \/ \E c \in Client : Leave(c) \/ Accept(c) \/ Feed(c)
    \/ Publish

Spec == Init /\ [][Next]_vars

\* The event loop runs every ready task; a send completes or fails, because
\* uvicorn closes a connection that no longer answers its pings.
FairSpec ==
    /\ Spec
    /\ WF_vars(Consume)
    /\ WF_vars(Publish)
    /\ \A c \in Client : WF_vars(Feed(c))

-----------------------------------------------------------------------------
(***************************************************************************)
(* Properties                                                              *)
(***************************************************************************)

\* Every variable has its type, and the publisher's lists fit.
TypeOK ==
    /\ received \in Seq(Uav \union {"bad"})
    /\ Len(received) <= MaxPayloads
    /\ queue \in Seq(1 .. Len(received))
    /\ latest \in State
    /\ clients \subseteq Client
    /\ publisher \in {"sleeping", "sending"}
    /\ frame \in State
    /\ targets \subseteq Client
    /\ sending \subseteq targets
    /\ failed \subseteq targets \ sending
    /\ feed \in [Client -> {"new", "snapshot", "feeding", "ended"}]
    /\ gone \subseteq Client
    /\ shown \in [Client -> State]

\* A browser that is connected is on the list, whoever joins, leaves or fails
\* while a frame is being sent (server.py:46-53).
ConnectedListed ==
    \A c \in Client : feed[c] \in {"snapshot", "feeding"} /\ c \notin gone => c \in clients

\* No browser ever shows an older state of a UAV than it did, although its
\* snapshot and the frames are serialised at different times.
NeverBackwards ==
    [][\A c \in Client, u \in Uav : shown'[c][u] >= shown[c][u]]_vars

\* A browser that has gone does not stay on the list, even when it left during
\* its snapshot and no finally is there to remove it (server.py:63).
GoneForgotten ==
    \A c \in Client : c \in gone /\ c \in clients ~> c \notin clients

\* What the hub knows of a UAV, or something newer, reaches every browser that
\* stays, whatever happens to the other ones.
FramesArrive ==
    \A c \in Client, u \in Uav, p \in Payload :
        feed[c] = "feeding" /\ latest[u] = p ~> c \in gone \/ shown[c][u] >= p

\* The last payload on the topic, when it can be read, comes to be what the hub
\* knows, however much was dropped before it, unless a further one arrives first;
\* one that cannot be read holds nothing up.  (Nothing is said of a payload that is
\* followed by another one in its drain.)
NewestKept ==
    \A u \in Uav, p \in Payload :
        Len(received) = p /\ received[p] = u ~> latest[u] >= p \/ Len(received) > p

=============================================================================
