------------------------------ MODULE RunStream ------------------------------
(***************************************************************************)
(* The live event stream of one run: RuntimeJobStore.subscribe,            *)
(* _publish_locked and unsubscribe, the handler thread of _stream_sse, and *)
(* the browser hook web/src/lib/useRunEvents.ts at the other end.          *)
(*                                                                         *)
(* The run itself is RunLifecycle, which RuntimeJobs implements: whatever  *)
(* the store does to a run, a stream sees one lifecycle step per publish.  *)
(***************************************************************************)
EXTENDS RunLifecycle, Naturals, Sequences

CONSTANTS
    Screens,    \* browser tabs watching the run
    Reopens,    \* whether a runtime may still move a run that is completed
    MaxQueue,   \* bound on the frames waiting for one screen
    MaxDrops    \* bound on lost connections

ASSUME StreamAssumption == Reopens \in BOOLEAN /\ MaxQueue \in Nat /\ MaxDrops \in Nat

VARIABLES
    queue,      \* the frames in the screen's listener queue
    handler,    \* its handler thread; registered as a listener unless "off"
    view,       \* the hook: "closed", "live", "done" or "timeout"
    shown,      \* the hook's progress: the last state and finished set received
    drops

streamVars == <<queue, handler, view, shown, drops>>
allVars    == <<lifecycleVars, streamVars>>

Nothing == [state |-> "none", finished |-> {}]

\* Mutant of Frames: the state overtakes the trials.
StateFirst(s, f) == << [name |-> "state",  state |-> s, finished |-> f],
                       [name |-> "trials", state |-> s, finished |-> f] >>

\* _frames_locked: the trials first, since a terminal state ends the stream.
Frames(s, f) == << [name |-> "trials", state |-> s, finished |-> f],
                   [name |-> "state",  state |-> s, finished |-> f] >>

Init ==
    /\ LifecycleInit
    /\ queue = [s \in Screens |-> << >>]
    /\ handler = [s \in Screens |-> "off"]
    /\ view = [s \in Screens |-> "closed"]
    /\ shown = [s \in Screens |-> Nothing]
    /\ drops = 0

\* The mutation and the push to every listener are one lock region.
Publish ==
    /\ state = "completed" => Reopens
    /\ \A s \in Screens : handler[s] # "off" => Len(queue[s]) + 2 <= MaxQueue
    /\ LifecycleNext
    /\ queue' = [s \in Screens |->
                    IF handler[s] = "off" THEN queue[s]
                    ELSE queue[s] \o Frames(state', finished')]
    /\ UNCHANGED <<handler, view, shown, drops>>

\* The operator opens the run's screen, or reconnects one that timed out.  A
\* screen has one connection: opened again while its old thread is still leaving,
\* it is another screen.
OpenScreen(s) ==
    /\ state # "none"
    /\ handler[s] = "off"
    /\ view[s] \in {"closed", "timeout"}
    /\ view' = [view EXCEPT ![s] = "live"]
    /\ shown' = [shown EXCEPT ![s] = Nothing]
    /\ UNCHANGED <<lifecycleVars, queue, handler, drops>>

CloseScreen(s) ==
    /\ view[s] = "live"
    /\ view' = [view EXCEPT ![s] = "closed"]
    /\ UNCHANGED <<lifecycleVars, queue, handler, shown, drops>>

\* Mutant of Subscribe: the state is read before, not through the queue.
SubscribeWithoutSnapshot(s) ==
    /\ view[s] = "live"
    /\ handler[s] = "off"
    /\ handler' = [handler EXCEPT ![s] = "streaming"]
    /\ queue' = [queue EXCEPT ![s] = << >>]
    /\ UNCHANGED <<lifecycleVars, view, shown, drops>>

\* The EventSource connects, or reconnects by itself after a dropped
\* connection.  The snapshot goes through the queue inside the lock.
Subscribe(s) ==
    /\ view[s] = "live"
    /\ handler[s] = "off"
    /\ handler' = [handler EXCEPT ![s] = "streaming"]
    /\ queue' = [queue EXCEPT ![s] = Frames(state, finished)]
    /\ UNCHANGED <<lifecycleVars, view, shown, drops>>

\* Mutant of Deliver: a terminal state is a frame like any other.
DeliverForever(s) ==
    /\ handler[s] = "streaming"
    /\ view[s] = "live"
    /\ queue[s] # << >>
    /\ LET frame == Head(queue[s]) IN
       shown' = [shown EXCEPT ![s] =
                    IF frame.name = "trials"
                    THEN [@ EXCEPT !.finished = frame.finished]
                    ELSE [@ EXCEPT !.state = frame.state]]
    /\ queue' = [queue EXCEPT ![s] = Tail(@)]
    /\ UNCHANGED <<lifecycleVars, handler, view, drops>>

\* One frame is taken and written.
Deliver(s) ==
    /\ handler[s] = "streaming"
    /\ view[s] = "live"
    /\ queue[s] # << >>
    /\ LET frame == Head(queue[s]) IN
       /\ shown' = [shown EXCEPT ![s] =
                       IF frame.name = "trials"
                       THEN [@ EXCEPT !.finished = frame.finished]
                       ELSE [@ EXCEPT !.state = frame.state]]
       /\ handler' = [handler EXCEPT ![s] =
                         IF frame.name = "state" /\ frame.state \in Terminal
                         THEN "ending" ELSE @]
    /\ queue' = [queue EXCEPT ![s] = Tail(@)]
    /\ UNCHANGED <<lifecycleVars, view, drops>>

\* `done` follows the terminal state; the hook then closes for good.
SendDone(s) ==
    /\ handler[s] = "ending"
    /\ view[s] = "live"
    /\ view' = [view EXCEPT ![s] = "done"]
    /\ handler' = [handler EXCEPT ![s] = "leaving"]
    /\ UNCHANGED <<lifecycleVars, queue, shown, drops>>

\* max_seconds are over: `timeout` is sent, whatever is still queued.
StreamTimeout(s) ==
    /\ handler[s] = "streaming"
    /\ view[s] = "live"
    /\ view' = [view EXCEPT ![s] = "timeout"]
    /\ handler' = [handler EXCEPT ![s] = "leaving"]
    /\ UNCHANGED <<lifecycleVars, queue, shown, drops>>

\* Mutant of FindGone: without the keep-alive, only a frame is written.
FindGoneOnFrame(s) ==
    /\ queue[s] # << >>
    /\ handler[s] \in {"streaming", "ending"}
    /\ view[s] # "live"
    /\ handler' = [handler EXCEPT ![s] = "leaving"]
    /\ UNCHANGED <<lifecycleVars, queue, view, shown, drops>>

\* A write, of a frame or a keep-alive, finds the client gone.
FindGone(s) ==
    /\ handler[s] \in {"streaming", "ending"}
    /\ view[s] # "live"
    /\ handler' = [handler EXCEPT ![s] = "leaving"]
    /\ UNCHANGED <<lifecycleVars, queue, view, shown, drops>>

\* The connection breaks although the screen is still open.
DropConnection(s) ==
    /\ drops < MaxDrops
    /\ handler[s] \in {"streaming", "ending"}
    /\ handler' = [handler EXCEPT ![s] = "leaving"]
    /\ drops' = drops + 1
    /\ UNCHANGED <<lifecycleVars, queue, view, shown>>

Unsubscribe(s) ==
    /\ handler[s] = "leaving"
    /\ handler' = [handler EXCEPT ![s] = "off"]
    /\ queue' = [queue EXCEPT ![s] = << >>]
    /\ UNCHANGED <<lifecycleVars, view, shown, drops>>

HandlerStep(s) ==
    \/ Subscribe(s)
    \/ Deliver(s)
    \/ SendDone(s)
    \/ FindGone(s)
    \/ Unsubscribe(s)

Next ==
    \/ Publish
    \/ \E s \in Screens :
          \/ OpenScreen(s)
          \/ CloseScreen(s)
          \/ HandlerStep(s)
          \/ StreamTimeout(s)
          \/ DropConnection(s)

Spec == Init /\ [][Next]_allVars

\* A handler thread runs whenever it can, an idle one writes a keep-alive every
\* 15 seconds, and a browser reconnects an EventSource by itself.
FairSpec == Spec /\ \A s \in Screens : WF_allVars(HandlerStep(s))
-----------------------------------------------------------------------------
\* The queues hold frames, two more per publish, and a thread has one of the
\* four phases of _stream_sse.
TypeOK ==
    /\ state \in States
    /\ finished \subseteq Units
    /\ planned \subseteq Units
    /\ queue \in [Screens -> Seq([name: {"trials", "state"}, state: States,
                                  finished: SUBSET Units])]
    /\ handler \in [Screens -> {"off", "streaming", "ending", "leaving"}]
    /\ view \in [Screens -> {"closed", "live", "done", "timeout"}]
    /\ shown \in [Screens -> [state: States, finished: SUBSET Units]]
    /\ drops \in 0..MaxDrops

\* What a screen will show once it has received everything queued for it.
Eventual(s) ==
    IF queue[s] = << >> THEN shown[s]
    ELSE [state    |-> queue[s][Len(queue[s])].state,
          finished |-> queue[s][Len(queue[s])].finished]

\* No lost update: what a streaming screen shows, with what is queued for it, is
\* the run as it is now, wherever between a change and the subscription the
\* screen came in (subscribe).
NoLostUpdate ==
    \A s \in Screens :
        handler[s] = "streaming" /\ view[s] = "live" =>
            Eventual(s) = [state |-> state, finished |-> finished]

\* A screen that was told `done` shows the run's terminal state with all the
\* trials of it: the frame that ends the stream never overtakes the progress
\* before it (_frames_locked).  It holds as long as the run stays completed.
DoneShowsRun ==
    \A s \in Screens :
        ~Reopens /\ view[s] = "done" =>
            state \in Terminal /\ shown[s] = [state |-> state, finished |-> finished]

\* A screen left open on a run that is over is told so, over lost connections.
ScreenLearnsEnd ==
    \A s \in Screens : view[s] = "live" /\ state \in Terminal ~> view[s] # "live"

\* Not leaking a thread: a stream whose run is over, or whose client is gone,
\* ends and is no longer registered.
HandlerFreed ==
    \A s \in Screens :
        handler[s] # "off" /\ (state \in Terminal \/ view[s] # "live")
            ~> handler[s] = "off"
=============================================================================
