--------------------------- MODULE RunStream_proofs ---------------------------
(***************************************************************************)
(* Theorems about RunStream, for every set of units, plans and screens, and *)
(* every bound on the queues and the lost connections.                      *)
(***************************************************************************)
EXTENDS RunStream, SequenceTheorems, TLAPS

USE DEF Waiting, Open, Terminal, States

Frame == [name: {"trials", "state"}, state: States, finished: SUBSET Units]
Current == [state |-> state, finished |-> finished]
Receiving(s) == handler[s] = "streaming" /\ view[s] = "live"

LEMMA FramesTyped ==
  ASSUME NEW st \in States, NEW f \in SUBSET Units
  PROVE  /\ Frames(st, f) \in Seq(Frame) /\ Len(Frames(st, f)) = 2
         /\ Frames(st, f)[1] = [name |-> "trials", state |-> st, finished |-> f]
         /\ Frames(st, f)[2] = [name |-> "state", state |-> st, finished |-> f]
  BY DEF Frames, Frame
-----------------------------------------------------------------------------
\* What a screen gets of the run is well formed.
LEMMA LifecycleTyped ==
  ASSUME state \in States, finished \subseteq Units, planned \subseteq Units, LifecycleNext
  PROVE  state' \in States /\ finished' \subseteq Units /\ planned' \subseteq Units
  BY PlanAssumption
     DEF LifecycleNext, Create, Confirm, Claim, Receive, Result, AfterResult, Complete, Cancel

LEMMA DeliverTyped ==
  ASSUME TypeOK, NEW s \in Screens, Deliver(s)
  PROVE  TypeOK'
  <1> DEFINE frame == Head(queue[s])
  <1>1. queue[s] \in Seq(Frame) /\ queue[s] # << >>
    BY DEF TypeOK, Deliver, Frame
  <1>2. frame \in Frame /\ Tail(queue[s]) \in Seq(Frame)
    BY <1>1, HeadTailProperties
  <1>3. queue' \in [Screens -> Seq(Frame)]
    BY <1>2 DEF Deliver, TypeOK, Frame
  <1>4. shown' \in [Screens -> [state: States, finished: SUBSET Units]]
    BY <1>2 DEF Deliver, TypeOK, Frame
  <1>5. handler' \in [Screens -> {"off", "streaming", "ending", "leaving"}]
    BY DEF Deliver, TypeOK
  <1> QED BY <1>3, <1>4, <1>5 DEF Deliver, TypeOK, Frame, lifecycleVars

LEMMA PublishTyped ==
  ASSUME TypeOK, Publish
  PROVE  TypeOK'
  <1>1. state' \in States /\ finished' \subseteq Units /\ planned' \subseteq Units
    BY LifecycleTyped DEF TypeOK, Publish
  <1>2. queue' \in [Screens -> Seq(Frame)]
    <2>1. Frames(state', finished') \in Seq(Frame)
      BY <1>1, FramesTyped
    <2>2. \A s \in Screens : queue[s] \o Frames(state', finished') \in Seq(Frame)
      BY <2>1, ConcatProperties DEF TypeOK, Frame
    <2> QED BY <2>2 DEF Publish, TypeOK, Frame
  <1> QED BY <1>1, <1>2 DEF Publish, TypeOK, Frame

LEMMA TypeStep ==
  ASSUME TypeOK, [Next]_allVars
  PROVE  TypeOK'
  <1> USE DEF TypeOK, lifecycleVars
  <1>1. CASE Publish
    BY <1>1, PublishTyped
  <1>2. ASSUME NEW s \in Screens, Deliver(s)
        PROVE  TypeOK'
    BY <1>2, DeliverTyped
  <1>3. ASSUME NEW s \in Screens, Subscribe(s)
        PROVE  TypeOK'
    <2>1. Frames(state, finished) \in Seq(Frame)
      BY FramesTyped
    <2> QED BY <1>3, <2>1 DEF Subscribe, Frame
  <1>4. ASSUME NEW s \in Screens, OpenScreen(s) \/ CloseScreen(s)
        PROVE  TypeOK'
    <2>1. Nothing \in [state: States, finished: SUBSET Units]
      BY DEF Nothing
    <2>2. shown' \in [Screens -> [state: States, finished: SUBSET Units]]
      BY <1>4, <2>1 DEF OpenScreen, CloseScreen
    <2>3. view' \in [Screens -> {"closed", "live", "done", "timeout"}]
      BY <1>4 DEF OpenScreen, CloseScreen
    <2> QED BY <1>4, <2>2, <2>3 DEF OpenScreen, CloseScreen
  <1>5. ASSUME NEW s \in Screens,
               SendDone(s) \/ FindGone(s) \/ StreamTimeout(s)
        PROVE  TypeOK'
    BY <1>5 DEF SendDone, FindGone, StreamTimeout
  <1>6. ASSUME NEW s \in Screens, Unsubscribe(s)
        PROVE  TypeOK'
    <2>1. << >> \in Seq(Frame)
      BY EmptySeq
    <2> QED BY <1>6, <2>1 DEF Unsubscribe, Frame
  <1>7. ASSUME NEW s \in Screens, DropConnection(s)
        PROVE  TypeOK'
    <2>1. drops' \in 0..MaxDrops
      BY <1>7, StreamAssumption DEF DropConnection
    <2>2. handler' \in [Screens -> {"off", "streaming", "ending", "leaving"}]
      BY <1>7 DEF DropConnection
    <2> QED BY <1>7, <2>1, <2>2 DEF DropConnection
  <1>8. CASE UNCHANGED allVars
    BY <1>8 DEF allVars, streamVars
  <1> QED BY <1>1, <1>2, <1>3, <1>4, <1>5, <1>6, <1>7, <1>8 DEF Next, HandlerStep

LEMMA TypeInit == Init => TypeOK
  <1>1. << >> \in Seq(Frame)
    BY EmptySeq
  <1>2. Nothing \in [state: States, finished: SUBSET Units]
    BY DEF Nothing
  <1> QED BY <1>1, <1>2, StreamAssumption DEF Init, LifecycleInit, TypeOK, Frame

\* Every queue, thread and screen has the shape the code gives it.
THEOREM StreamTypeCorrect == Spec => []TypeOK
  BY TypeInit, TypeStep, PTL DEF Spec
-----------------------------------------------------------------------------
(* A queue a thread reads: the frames of a publish stay together, and it    *)
(* ends with a state.                                                       *)
Ordered(q) ==
    /\ q # << >> => q[Len(q)].name = "state"
    /\ \A i \in 1 .. Len(q) - 1 :
          IF q[i].name = "trials"
          THEN q[i + 1].name = "state" /\ q[i + 1].finished = q[i].finished
          ELSE q[i + 1].name = "trials"

LEMMA FramesOrdered ==
  ASSUME NEW st \in States, NEW f \in SUBSET Units
  PROVE  Ordered(Frames(st, f))
  <1> DEFINE two == Frames(st, f)
  <1>1. Len(two) = 2 /\ two[1].name = "trials" /\ two[2].name = "state"
        /\ two[2].finished = two[1].finished
    <2>1. /\ Len(two) = 2
          /\ two[1] = [name |-> "trials", state |-> st, finished |-> f]
          /\ two[2] = [name |-> "state", state |-> st, finished |-> f]
      BY FramesTyped
    <2> QED BY <2>1
  <1> HIDE DEF two
  <1>2. Ordered(two)
    BY <1>1 DEF Ordered
  <1> QED BY <1>2 DEF two

\* What publishing two frames of one change does to a queue.
LEMMA PublishOrdered ==
  ASSUME NEW q \in Seq(Frame), Ordered(q),
         NEW two \in Seq(Frame), Len(two) = 2, Ordered(two), two[1].name = "trials"
  PROVE  /\ q \o two \in Seq(Frame) /\ Len(q \o two) = Len(q) + 2 /\ q \o two # << >>
         /\ Ordered(q \o two)
         /\ (q \o two)[Len(q) + 2] = two[2]
         /\ (q \o two)[1].name = "state" => q # << >> /\ (q \o two)[1] = q[1]
         /\ \A i \in 1 .. Len(q) + 2 :
                (i \in 1 .. Len(q) /\ (q \o two)[i] = q[i])
                    \/ (q \o two)[i] = two[1] \/ (q \o two)[i] = two[2]
  <1> DEFINE longer == q \o two
  <1>1. Len(q) \in Nat
    BY LenProperties
  <1>2. /\ longer \in Seq(Frame) /\ Len(longer) = Len(q) + Len(two)
        /\ \A i \in 1 .. Len(q) + Len(two) :
              longer[i] = IF i <= Len(q) THEN q[i] ELSE two[i - Len(q)]
    BY ConcatProperties
  <1> HIDE DEF longer
  <1>3. /\ longer[Len(q) + 1] = two[1] /\ longer[Len(q) + 2] = two[2]
        /\ \A i \in 1 .. Len(q) : longer[i] = q[i]
    BY <1>1, <1>2
  <1>4. longer # << >>
    BY <1>1, <1>2, EmptySeq
  <1>5. q # << >> => Len(q) \in 1 .. Len(q) /\ q[Len(q)].name = "state"
    BY <1>1, EmptySeq DEF Ordered
  <1>6. two[2].name = "state" /\ two[2].finished = two[1].finished
    BY DEF Ordered
  <1>7. ASSUME NEW i \in 1 .. Len(longer) - 1
        PROVE  IF longer[i].name = "trials"
               THEN longer[i + 1].name = "state" /\ longer[i + 1].finished = longer[i].finished
               ELSE longer[i + 1].name = "trials"
    <2>1. CASE i \in 1 .. Len(q) - 1
      BY <1>1, <1>2, <1>3, <2>1 DEF Ordered
    <2>2. CASE i = Len(q)
      <3>1. longer[i].name = "state"
        BY <1>1, <1>2, <1>3, <1>5, <2>2, EmptySeq
      <3> QED BY <1>3, <2>2, <3>1
    <2>3. CASE i = Len(q) + 1
      <3>1. i + 1 = Len(q) + 2
        BY <1>1, <2>3
      <3> QED BY <1>3, <1>6, <2>3, <3>1
    <2> QED BY <1>1, <1>2, <2>1, <2>2, <2>3
  <1>8. Ordered(longer)
    BY <1>1, <1>2, <1>3, <1>6, <1>7 DEF Ordered
  <1>9. longer[1].name = "state" => q # << >> /\ longer[1] = q[1]
    <2>1. CASE q = << >>
      <3>1. longer[1] = two[1]
        BY <1>3, <2>1, EmptySeq
      <3> QED BY <3>1
    <2>2. CASE q # << >>
      BY <1>1, <1>3, <2>2, EmptySeq
    <2> QED BY <2>1, <2>2
  <1>10. ASSUME NEW i \in 1 .. Len(q) + 2
         PROVE  (i \in 1 .. Len(q) /\ longer[i] = q[i]) \/ longer[i] = two[1] \/ longer[i] = two[2]
    <2>1. i \in 1 .. Len(q) \/ i = Len(q) + 1 \/ i = Len(q) + 2
      BY <1>1
    <2> QED BY <1>3, <2>1
  <1> QED BY <1>2, <1>3, <1>4, <1>8, <1>9, <1>10 DEF longer

LEMMA DeliverOrdered ==
  ASSUME NEW q \in Seq(Frame), q # << >>, Ordered(q)
  PROVE  /\ Ordered(Tail(q)) /\ Tail(q) \in Seq(Frame) /\ Head(q) = q[1]
         /\ Tail(q) # << >> => /\ Tail(q)[Len(Tail(q))] = q[Len(q)]
                              /\ (Tail(q)[1].name = "state" =>
                                    q[1].name = "trials" /\ Tail(q)[1].finished = q[1].finished)
         /\ Tail(q) = << >> => Len(q) = 1 /\ q[1].name = "state"
         /\ \A i \in 1 .. Len(Tail(q)) : i + 1 \in 1 .. Len(q) /\ Tail(q)[i] = q[i + 1]
  <1> DEFINE rest == Tail(q)
  <1>1. /\ rest \in Seq(Frame) /\ Len(rest) = Len(q) - 1 /\ Len(q) \in Nat \ {0}
        /\ \A i \in 1 .. Len(rest) : rest[i] = q[i + 1]
        /\ \A i \in 1 .. Len(q) : q[i] \in Frame
    BY HeadTailProperties, EmptySeq, ElementOfSeq
  <1>2. Head(q) = q[1]
    OBVIOUS
  <1>3. rest = << >> => Len(q) = 1
    BY <1>1, EmptySeq, LenProperties
  <1>4. rest # << >> => Len(rest) \in Nat \ {0}
    BY <1>1, EmptySeq
  <1> HIDE DEF rest
  <1>5. rest # << >> => rest[Len(rest)] = q[Len(q)]
    BY <1>1, <1>4
  <1>6. Ordered(rest)
    BY <1>1, <1>4, <1>5 DEF Ordered
  <1>7. rest # << >> /\ rest[1].name = "state" =>
            q[1].name = "trials" /\ rest[1].finished = q[1].finished
    BY <1>1, <1>4 DEF Ordered
  <1> QED BY <1>1, <1>2, <1>3, <1>5, <1>6, <1>7 DEF Ordered, rest
-----------------------------------------------------------------------------
(* What a screen that receives has got is what its queue continues.         *)
Follows(s) ==
    /\ Ordered(queue[s])
    /\ (queue[s] # << >> /\ queue[s][1].name = "state") => shown[s].finished = queue[s][1].finished
    /\ Eventual(s) = Current

(* In a run that does not reopen, a terminal state is the last one there is. *)
Settled(s) ==
    /\ Receiving(s) =>
          \A i \in 1 .. Len(queue[s]) :
              queue[s][i].state \in Terminal =>
                  queue[s][i].state = state /\ queue[s][i].finished = finished
    /\ handler[s] = "ending" /\ view[s] = "live" => state \in Terminal /\ shown[s] = Current
    /\ view[s] = "done" => state \in Terminal /\ shown[s] = Current

StreamInv ==
    \A s \in Screens : /\ Receiving(s) => Follows(s)
                       /\ ~Reopens => Settled(s)

LEMMA InvImplies == StreamInv => NoLostUpdate /\ DoneShowsRun
  BY DEF StreamInv, Follows, Settled, Receiving, Current, NoLostUpdate, DoneShowsRun

LEMMA InvInit == Init => StreamInv
  BY DEF Init, StreamInv, Settled, Receiving

\* A step that leaves the run, and the queue and screen of s, as they are.
LEMMA Undisturbed ==
  ASSUME StreamInv, NEW s \in Screens, UNCHANGED <<state, finished>>,
         queue'[s] = queue[s], shown'[s] = shown[s],
         Receiving(s)' => Receiving(s),
         handler'[s] = "ending" /\ view'[s] = "live" => handler[s] = "ending" /\ view[s] = "live",
         view'[s] = "done" => view[s] = "done" \/ (handler[s] = "ending" /\ view[s] = "live")
  PROVE  (Receiving(s) => Follows(s))' /\ (~Reopens => Settled(s))'
  <1>1. Receiving(s)' => Follows(s)'
    BY DEF StreamInv, Follows, Eventual, Current
  <1>2. ~Reopens => Settled(s)'
    BY DEF StreamInv, Settled, Current
  <1> QED BY <1>1, <1>2

\* A run that is over and does not reopen publishes nothing.
LEMMA OverIsQuiet ==
  ASSUME ~Reopens, state \in Terminal, Publish
  PROVE  FALSE
  BY DEF Publish, LifecycleNext, Create, Confirm, Claim, Receive, Result, Complete, Cancel

LEMMA PublishFollows ==
  ASSUME TypeOK, StreamInv, Publish
  PROVE  StreamInv'
  <1> SUFFICES ASSUME NEW s \in Screens
               PROVE  (Receiving(s) => Follows(s))' /\ (~Reopens => Settled(s))'
    BY DEF StreamInv
  <1>1. state' \in States /\ finished' \in SUBSET Units
    BY LifecycleTyped DEF TypeOK, Publish
  <1>2. queue[s] \in Seq(Frame)
    BY DEF TypeOK, Frame
  <1>3. UNCHANGED <<handler, view, shown>>
    BY DEF Publish
  <1>4. Receiving(s)' = Receiving(s)
    BY <1>3 DEF Receiving
  <1> DEFINE two == Frames(state', finished')
  <1>5. Receiving(s) => queue'[s] = queue[s] \o two
    BY DEF Publish, Receiving
  <1>6. /\ two \in Seq(Frame) /\ Len(two) = 2 /\ Ordered(two)
        /\ two[1] = [name |-> "trials", state |-> state', finished |-> finished']
        /\ two[2] = [name |-> "state", state |-> state', finished |-> finished']
    BY <1>1, FramesTyped, FramesOrdered
  <1> HIDE DEF two
  <1>7. ASSUME Receiving(s)
        PROVE  /\ Follows(s) /\ Ordered(queue'[s]) /\ queue'[s] # << >>
               /\ Len(queue'[s]) = Len(queue[s]) + 2
               /\ queue'[s][Len(queue[s]) + 2] = two[2]
               /\ queue'[s][1].name = "state" => queue[s] # << >> /\ queue'[s][1] = queue[s][1]
               /\ \A i \in 1 .. Len(queue[s]) + 2 :
                      (i \in 1 .. Len(queue[s]) /\ queue'[s][i] = queue[s][i])
                          \/ queue'[s][i] = two[1] \/ queue'[s][i] = two[2]
    <2>1. Follows(s) /\ Ordered(queue[s]) /\ queue'[s] = queue[s] \o two
      BY <1>5, <1>7 DEF StreamInv, Follows
    <2>2. two[1].name = "trials"
      BY <1>6
    <2> DEFINE q == queue[s]
    <2> HIDE DEF q
    <2>3. q \in Seq(Frame) /\ Ordered(q)
      BY <1>2, <2>1 DEF q
    <2>4. /\ Len(q \o two) = Len(q) + 2 /\ q \o two # << >> /\ Ordered(q \o two)
          /\ (q \o two)[Len(q) + 2] = two[2]
          /\ (q \o two)[1].name = "state" => q # << >> /\ (q \o two)[1] = q[1]
          /\ \A i \in 1 .. Len(q) + 2 :
                 (i \in 1 .. Len(q) /\ (q \o two)[i] = q[i])
                     \/ (q \o two)[i] = two[1] \/ (q \o two)[i] = two[2]
      BY <1>6, <2>2, <2>3, PublishOrdered
    <2>5. queue[s] = q /\ queue'[s] = q \o two
      BY <2>1 DEF q
    <2> QED BY <2>1, <2>4, <2>5
  <1>8. ASSUME Receiving(s)
        PROVE  Follows(s)'
    <2>1. (queue'[s] # << >> /\ queue'[s][1].name = "state") => shown'[s].finished = queue'[s][1].finished
      BY <1>3, <1>7, <1>8 DEF Follows
    <2>2. Eventual(s)' = Current'
      BY <1>6, <1>7, <1>8 DEF Eventual, Current
    <2> QED BY <1>7, <1>8, <2>1, <2>2 DEF Follows
  <1>9. ASSUME ~Reopens
        PROVE  Settled(s)'
    <2>1. state \notin Terminal
      BY <1>9, OverIsQuiet
    <2>2. Settled(s)
      BY <1>9 DEF StreamInv
    <2>3. view'[s] # "done" /\ ~(handler'[s] = "ending" /\ view'[s] = "live")
      BY <1>3, <2>1, <2>2 DEF Settled
    <2>4. ASSUME Receiving(s), NEW i \in 1 .. Len(queue'[s]), queue'[s][i].state \in Terminal
          PROVE  queue'[s][i].state = state' /\ queue'[s][i].finished = finished'
      <3>1. \/ i \in 1 .. Len(queue[s]) /\ queue'[s][i] = queue[s][i]
            \/ queue'[s][i] = two[1] \/ queue'[s][i] = two[2]
        BY <1>7, <2>4
      <3>2. \A j \in 1 .. Len(queue[s]) : queue[s][j].state \notin Terminal
        BY <2>1, <2>2, <2>4 DEF Settled
      <3> QED BY <1>6, <2>4, <3>1, <3>2
    <2> QED BY <1>4, <2>3, <2>4 DEF Settled
  <1> QED BY <1>4, <1>8, <1>9

\* The frame a thread writes: what the screen then shows, its queue continues.
LEMMA DeliverFollows ==
  ASSUME TypeOK, StreamInv, NEW s \in Screens, Deliver(s)
  PROVE  (Receiving(s) => Follows(s))' /\ (~Reopens => Settled(s))'
  <1> DEFINE q == queue[s]
             rest == Tail(q)
  <1>1. q \in Seq(Frame) /\ q # << >> /\ Receiving(s) /\ Follows(s)
    BY DEF TypeOK, Frame, Deliver, Receiving, StreamInv
  <1>2. Ordered(q) /\ (q[1].name = "state" => shown[s].finished = q[1].finished)
        /\ q[Len(q)].state = state /\ q[Len(q)].finished = finished
    BY <1>1 DEF Follows, Eventual, Current
  <1>3. /\ queue'[s] = rest /\ UNCHANGED <<state, finished, view>>
        /\ Head(q).name = "trials" => shown'[s] = [shown[s] EXCEPT !.finished = Head(q).finished]
        /\ Head(q).name # "trials" => shown'[s] = [shown[s] EXCEPT !.state = Head(q).state]
        /\ handler'[s] = "ending" => Head(q).name = "state" /\ Head(q).state \in Terminal
    <2>1. queue'[s] = rest /\ UNCHANGED <<state, finished, view>>
      BY DEF Deliver, TypeOK, lifecycleVars
    <2>2. /\ shown \in [Screens -> [state: States, finished: SUBSET Units]]
          /\ shown' = [shown EXCEPT ![s] =
                        IF Head(q).name = "trials"
                        THEN [@ EXCEPT !.finished = Head(q).finished]
                        ELSE [@ EXCEPT !.state = Head(q).state]]
      BY DEF Deliver, TypeOK
    <2>3. /\ Head(q).name = "trials" => shown'[s] = [shown[s] EXCEPT !.finished = Head(q).finished]
          /\ Head(q).name # "trials" => shown'[s] = [shown[s] EXCEPT !.state = Head(q).state]
      BY <2>2, Zenon
    <2>4. handler'[s] = "ending" => Head(q).name = "state" /\ Head(q).state \in Terminal
      BY DEF Deliver, TypeOK
    <2> QED BY <2>1, <2>3, <2>4
  <1>4. shown[s] \in [state: States, finished: SUBSET Units]
    BY DEF TypeOK
  <1> HIDE DEF q, rest
  <1>5. /\ Ordered(rest) /\ Head(q) = q[1]
        /\ rest # << >> => /\ rest[Len(rest)] = q[Len(q)]
                          /\ (rest[1].name = "state" =>
                                q[1].name = "trials" /\ rest[1].finished = q[1].finished)
        /\ rest = << >> => Len(q) = 1 /\ q[1].name = "state"
        /\ \A i \in 1 .. Len(rest) : i + 1 \in 1 .. Len(q) /\ rest[i] = q[i + 1]
    BY <1>1, <1>2, DeliverOrdered DEF rest
  <1>6. /\ q[1].name = "trials" => shown'[s].finished = q[1].finished
        /\ q[1].name # "trials" => shown'[s].state = q[1].state
                                   /\ shown'[s].finished = shown[s].finished
        /\ shown'[s] = [state |-> shown'[s].state, finished |-> shown'[s].finished]
    BY <1>3, <1>4, <1>5
  <1>7. Follows(s)'
    <2>1. queue'[s] # << >> /\ queue'[s][1].name = "state" => shown'[s].finished = queue'[s][1].finished
      BY <1>3, <1>5, <1>6
    <2>2. CASE rest # << >>
      BY <1>2, <1>3, <1>5, <2>1, <2>2 DEF Follows, Eventual, Current
    <2>3. CASE rest = << >>
      <3>1. shown'[s].state = state /\ shown'[s].finished = finished
        BY <1>2, <1>5, <1>6, <2>3
      <3>2. Eventual(s)' = Current'
        BY <1>3, <1>6, <2>3, <3>1 DEF Eventual, Current
      <3> QED BY <1>3, <1>5, <2>1, <3>2 DEF Follows
    <2> QED BY <2>2, <2>3
  <1>8. ASSUME ~Reopens
        PROVE  Settled(s)'
    <2>1. \A i \in 1 .. Len(q) : q[i].state \in Terminal => q[i].state = state /\ q[i].finished = finished
      BY <1>1, <1>8 DEF StreamInv, Settled, q
    <2>2. \A i \in 1 .. Len(rest) :
             rest[i].state \in Terminal => rest[i].state = state /\ rest[i].finished = finished
      BY <1>5, <2>1
    <2>3. ASSUME handler'[s] = "ending"
          PROVE  state' \in Terminal /\ shown'[s] = Current'
      <3>1. q[1].name = "state" /\ q[1].state \in Terminal
        BY <1>3, <1>5, <2>3
      <3>2. 1 \in 1 .. Len(q)
        BY <1>1, LenProperties, EmptySeq
      <3>3. q[1].state = state /\ q[1].finished = finished
        BY <2>1, <3>1, <3>2
      <3> QED BY <1>2, <1>3, <1>6, <3>1, <3>3 DEF Current
    <2>4. view'[s] # "done"
      BY <1>1, <1>3 DEF Receiving
    <2> QED BY <1>3, <2>2, <2>3, <2>4 DEF Settled
  <1> QED BY <1>7, <1>8

\* A thread that subscribes starts from the run as it is.
LEMMA SubscribeFollows ==
  ASSUME TypeOK, StreamInv, NEW s \in Screens, Subscribe(s)
  PROVE  (Receiving(s) => Follows(s))' /\ (~Reopens => Settled(s))'
  <1> DEFINE two == Frames(state, finished)
  <1>1. queue'[s] = two /\ handler'[s] = "streaming" /\ view'[s] = "live"
        /\ UNCHANGED <<state, finished>>
    BY DEF Subscribe, TypeOK, lifecycleVars
  <1>2. /\ two \in Seq(Frame) /\ Len(two) = 2 /\ Ordered(two)
        /\ two[1] = [name |-> "trials", state |-> state, finished |-> finished]
        /\ two[2] = [name |-> "state", state |-> state, finished |-> finished]
    BY FramesTyped, FramesOrdered DEF TypeOK
  <1> HIDE DEF two
  <1>3. two # << >> /\ two[1].name # "state"
    <2>1. two # << >>
      <3>1. Len(<< >>) # 2
        BY EmptySeq
      <3> QED BY <1>2, <3>1
    <2>2. two[1].name = "trials"
      BY <1>2
    <2> QED BY <2>1, <2>2
  <1>4. Follows(s)'
    BY <1>1, <1>2, <1>3 DEF Follows, Eventual, Current
  <1>5. \A i \in 1 .. Len(two) : two[i].state = state /\ two[i].finished = finished
    <2>1. \A i \in 1 .. Len(two) : i = 1 \/ i = 2
      BY <1>2
    <2> QED BY <1>2, <2>1
  <1>6. Settled(s)'
    BY <1>1, <1>5 DEF Settled
  <1> QED BY <1>4, <1>6

LEMMA StreamStep ==
  ASSUME TypeOK, StreamInv, [Next]_allVars
  PROVE  StreamInv'
  <1> DEFINE Kept(s) == (Receiving(s) => Follows(s))' /\ (~Reopens => Settled(s))'
  <1>1. CASE Publish
    BY <1>1, PublishFollows
  <1>2. ASSUME NEW t \in Screens, Deliver(t) \/ Subscribe(t)
        PROVE  StreamInv'
    <2>1. Kept(t)
      BY <1>2, DeliverFollows, SubscribeFollows
    <2>2. ASSUME NEW s \in Screens, s # t
          PROVE  Kept(s)
      <3>1. UNCHANGED <<state, finished>> /\ queue'[s] = queue[s] /\ shown'[s] = shown[s]
            /\ handler'[s] = handler[s] /\ view'[s] = view[s]
        BY <1>2, <2>2 DEF Deliver, Subscribe, TypeOK, lifecycleVars
      <3> QED BY <3>1, Undisturbed DEF Receiving
    <2> QED BY <2>1, <2>2 DEF StreamInv
  <1>3. ASSUME NEW t \in Screens,
               \/ OpenScreen(t) \/ CloseScreen(t) \/ SendDone(t) \/ StreamTimeout(t)
               \/ FindGone(t) \/ DropConnection(t) \/ Unsubscribe(t)
        PROVE  StreamInv'
    <2>1. ASSUME NEW s \in Screens
          PROVE  Kept(s)
      <3>1. UNCHANGED <<state, finished>>
        BY <1>3 DEF OpenScreen, CloseScreen, SendDone, StreamTimeout, FindGone, DropConnection,
                    Unsubscribe, lifecycleVars
      <3>2. s # t => queue'[s] = queue[s] /\ shown'[s] = shown[s]
                     /\ handler'[s] = handler[s] /\ view'[s] = view[s]
        BY <1>3 DEF OpenScreen, CloseScreen, SendDone, StreamTimeout, FindGone, DropConnection,
                    Unsubscribe, TypeOK
      <3>3. CASE s = t /\ (CloseScreen(t) \/ SendDone(t) \/ StreamTimeout(t) \/ FindGone(t)
                             \/ DropConnection(t))
        <4>1. queue'[s] = queue[s] /\ shown'[s] = shown[s]
          BY <3>3 DEF CloseScreen, SendDone, StreamTimeout, FindGone, DropConnection
        <4>2. /\ Receiving(s)' => Receiving(s)
              /\ handler'[s] = "ending" /\ view'[s] = "live" => handler[s] = "ending" /\ view[s] = "live"
              /\ view'[s] = "done" => view[s] = "done" \/ (handler[s] = "ending" /\ view[s] = "live")
          BY <3>3 DEF CloseScreen, SendDone, StreamTimeout, FindGone, DropConnection, TypeOK, Receiving
        <4> QED BY <3>1, <4>1, <4>2, Undisturbed
      <3>4. CASE s = t /\ (OpenScreen(t) \/ Unsubscribe(t))
        <4>1. handler'[s] = "off"
          BY <3>4 DEF OpenScreen, Unsubscribe, TypeOK
        <4>2. ~Reopens /\ view'[s] = "done" => state' \in Terminal /\ shown'[s] = Current'
          BY <3>1, <3>4 DEF OpenScreen, Unsubscribe, TypeOK, StreamInv, Settled, Current
        <4> QED BY <4>1, <4>2 DEF Receiving, Settled
      <3>5. CASE s # t
        BY <3>1, <3>2, <3>5, Undisturbed DEF Receiving
      <3> QED BY <1>3, <3>3, <3>4, <3>5
    <2> QED BY <2>1 DEF StreamInv
  <1>4. CASE UNCHANGED allVars
    <2>1. ASSUME NEW s \in Screens
          PROVE  Kept(s)
      BY <1>4, Undisturbed DEF allVars, streamVars, lifecycleVars, Receiving
    <2> QED BY <2>1 DEF StreamInv
  <1> QED BY <1>1, <1>2, <1>3, <1>4 DEF Next, HandlerStep

\* Whenever a screen subscribes, and whatever is published around it, what it
\* shows with what is queued for it is the run as it is.
THEOREM NoUpdateIsLost == Spec => []NoLostUpdate
  BY TypeInit, TypeStep, InvInit, StreamStep, InvImplies, PTL DEF Spec

\* A screen that was told `done` shows the run's last state and all its trials.
THEOREM DoneIsTheRun == Spec => []DoneShowsRun
  BY TypeInit, TypeStep, InvInit, StreamStep, InvImplies, PTL DEF Spec
=============================================================================
