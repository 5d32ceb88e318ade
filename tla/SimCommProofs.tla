---------------------------- MODULE SimCommProofs ----------------------------
(***************************************************************************)
(* Theorems about SimComm for every number of topics, every choice of      *)
(* limited topics, policies, queue capacity and bounds: the fault state    *)
(* machine, what becomes of messages, who writes to a socket. Most of them *)
(* are about faults started by the control server alone.                   *)
(***************************************************************************)
EXTENDS SimCommProperties, MessageSequencesProofs

-----------------------------------------------------------------------------
\* The threads are different from each other and sit where the sets say; the
\* numbers given to them in SimComm are used here and nowhere below.
LEMMA ThreadFacts ==
  /\ Main \in Workers
  /\ Workers \subseteq Flushers
  /\ Monitor \in Flushers
  /\ Monitor \notin Workers
  /\ Flushers \subseteq Threads
  /\ Control \in Threads /\ Timer \in Threads
  /\ Control \notin Flushers /\ Timer \notin Flushers
  /\ Control # Timer
  /\ Limited \subseteq Workers /\ RecvTopics \subseteq Workers
  /\ Main \notin Topics
  /\ Limited \subseteq Topics
  /\ SendTopics \subseteq Topics /\ RecvTopics \subseteq Topics
BY SimCommAssumption
   DEF SimCommAssumption, Main, Monitor, Control, Timer, Workers, Flushers, Threads,
       Topics, SendTopics, RecvTopics

\* A bitrate queue keeps its type and its bound when a message is added.
LEMMA EnqueueType ==
  ASSUME NEW q \in Seq(Nat), NEW m \in Nat, Len(q) <= QueueCap
  PROVE  Enqueue(q, m) \in Seq(Nat) /\ Len(Enqueue(q, m)) <= QueueCap
<1>1. CASE Len(q) < QueueCap
  BY <1>1, SimCommAssumption DEF SimCommAssumption, Enqueue
<1>2. CASE ~(Len(q) < QueueCap)
  <2>1. q # <<>>
    BY <1>2, SimCommAssumption DEF SimCommAssumption
  <2>2. Tail(q) \in Seq(Nat) /\ Len(Tail(q)) = Len(q) - 1
    BY <2>1
  <2> QED
    BY <1>2, <2>2, SimCommAssumption DEF SimCommAssumption, Enqueue
<1> QED
  BY <1>1, <1>2

\* Whatever the policy, a fault buffer remains a sequence of messages.
LEMMA ApplyFaultPolicyType ==
  ASSUME NEW policy \in Policies, NEW held \in Seq(Nat), NEW m \in Nat
  PROVE  ApplyFaultPolicy(policy, held, m) \in Seq(Nat)
BY DEF ApplyFaultPolicy, Policies

LEMMA EmptyBuffersType == EmptyBuffers \in [Topics -> Seq(Nat)]
BY DEF EmptyBuffers

\* Both ways out keep the types of the queues and of the output.
LEMMA DispatchType ==
  ASSUME TypeOK, NEW k \in Topics \cup {0}, NEW m \in Nat, NEW limited \in BOOLEAN,
         Dispatch(k, m, limited)
  PROVE  /\ queue' \in [Topics -> Seq(Nat)]
         /\ \A j \in Topics : Len(queue'[j]) <= QueueCap
         /\ out' \in [Topics -> Seq(Nat)]
<1>1. CASE limited
  <2>1. queue' = [queue EXCEPT ![k] = Enqueue(queue[k], m)] /\ out' = out
    BY <1>1 DEF Dispatch
  <2>2. CASE k \in Topics
    <3>1. Enqueue(queue[k], m) \in Seq(Nat) /\ Len(Enqueue(queue[k], m)) <= QueueCap
      BY <2>2, EnqueueType DEF TypeOK
    <3> QED
      BY <2>1, <2>2, <3>1 DEF TypeOK
  <2>3. CASE k \notin Topics
    BY <2>1, <2>3 DEF TypeOK
  <2> QED
    BY <2>2, <2>3
<1>2. CASE ~limited
  <2>1. out' = [out EXCEPT ![k] = Append(out[k], m)] /\ queue' = queue
    BY <1>2 DEF Dispatch
  <2>2. CASE k \in Topics
    BY <2>1, <2>2 DEF TypeOK
  <2>3. CASE k \notin Topics
    BY <2>1, <2>3 DEF TypeOK
  <2> QED
    BY <2>2, <2>3
<1> QED
  BY <1>1, <1>2

-----------------------------------------------------------------------------
LEMMA InitType == Init => TypeOK
<1> SUFFICES ASSUME Init PROVE TypeOK
  OBVIOUS
<1>1. pc \in [Threads -> Places]
  BY DEF Init, Places
<1>2. hand \in [Workers -> Message]
  BY DEF Init, Message, NoMessage
<1>3. todo \in [Flushers -> [Topics -> Seq(Nat)]]
  BY EmptyBuffersType DEF Init
<1>4. \A k \in Topics : Len(queue[k]) <= QueueCap
  BY SimCommAssumption DEF Init, EmptyBuffers, SimCommAssumption
<1> QED
  BY <1>1, <1>2, <1>3, <1>4, EmptyBuffersType DEF Init, TypeOK

\* Moving a thread, the commonest effect of a step, keeps the type of pc.
LEMMA GotoType ==
  ASSUME TypeOK, NEW t \in Threads, NEW place \in Places, Goto(t, place)
  PROVE  pc' \in [Threads -> Places]
BY DEF Goto, TypeOK

LEMMA MonitorLoopType ==
  ASSUME TypeOK, NEW waiting \in SUBSET Flushers, MonitorLoop(waiting)
  PROVE  pc' \in [Threads -> Places] /\ asleep' \subseteq Flushers
<1>1. (IF ~running THEN "done" ELSE IF active THEN "timed" ELSE "wait") \in Places
  BY DEF Places
<1> QED
  BY <1>1, GotoType, ThreadFacts DEF MonitorLoop

LEMMA StepType == TypeOK /\ [Next]_vars => TypeOK'
<1> SUFFICES ASSUME TypeOK, [Next]_vars PROVE TypeOK'
  OBVIOUS
<1> USE ThreadFacts
<1>1. ASSUME NEW k \in SendTopics, SubCallback(k) PROVE TypeOK'
  <2>1. pc' \in [Threads -> Places]
    BY <1>1, GotoType DEF SubCallback, Places
  <2>2. hand' \in [Workers -> Message]
    BY <1>1 DEF SubCallback, TypeOK, Message
  <2> QED
    BY <1>1, <2>1, <2>2 DEF SubCallback, TypeOK, faultVars
<1>2. ASSUME NEW k \in RecvTopics, Receive(k) PROVE TypeOK'
  <2>1. pc' \in [Threads -> Places]
    BY <1>2, GotoType DEF Receive, Places
  <2>2. hand' \in [Workers -> Message]
    BY <1>2 DEF Receive, TypeOK, Message
  <2> QED
    BY <1>2, <2>1, <2>2 DEF Receive, TypeOK, faultVars
<1>3. ASSUME NEW k \in Limited, SendFuncPop(k) PROVE TypeOK'
  <2>1. pc' \in [Threads -> Places]
    BY <1>3, GotoType DEF SendFuncPop, Places
  <2>2. queue[k] \in Seq(Nat) /\ queue[k] # <<>>
    BY <1>3 DEF SendFuncPop, TypeOK
  <2>3. /\ Head(queue[k]) \in Nat
        /\ Tail(queue[k]) \in Seq(Nat)
        /\ Len(Tail(queue[k])) = Len(queue[k]) - 1
    BY <2>2
  <2>4. hand' \in [Workers -> Message]
    BY <1>3, <2>3 DEF SendFuncPop, TypeOK, Message
  <2>5. queue' \in [Topics -> Seq(Nat)] /\ \A j \in Topics : Len(queue'[j]) <= QueueCap
    BY <1>3, <2>2, <2>3, SimCommAssumption, SMTT(30) DEF SendFuncPop, TypeOK, SimCommAssumption
  <2> QED
    BY <1>3, <2>1, <2>4, <2>5 DEF SendFuncPop, TypeOK, faultVars
<1>4. ASSUME NEW k \in Limited, SendFuncExit(k) PROVE TypeOK'
  <2>1. pc' \in [Threads -> Places]
    BY <1>4, GotoType DEF SendFuncExit, Places
  <2> QED
    BY <1>4, <2>1 DEF SendFuncExit, TypeOK, faultVars, pathVars
<1>5. ASSUME NEW w \in Workers, FlushExpiredFaultIfNeeded(w) PROVE TypeOK'
  <2>1. pc' \in [Threads -> Places]
    BY <1>5, GotoType DEF FlushExpiredFaultIfNeeded, BeginRecovery, Places
  <2>2. active' \in BOOLEAN /\ recovering' \in BOOLEAN
    BY <1>5 DEF FlushExpiredFaultIfNeeded, BeginRecovery, TypeOK
  <2> QED
    BY <1>5, <2>1, <2>2 DEF FlushExpiredFaultIfNeeded, TypeOK, pathVars
<1>6. ASSUME NEW w \in Workers, WaitForRecovery(w) PROVE TypeOK'
  BY <1>6 DEF WaitForRecovery, TypeOK, faultVars
<1>7. ASSUME NEW w \in Workers, ConsumeByFault(w) PROVE TypeOK'
  <2>1. pc' \in [Threads -> Places]
    BY <1>7, GotoType DEF ConsumeByFault, Places
  <2>2. hand' \in [Workers -> Message]
    BY <1>7 DEF ConsumeByFault, TypeOK, Message, NoMessage
  <2>3. buffer' \in [Topics -> Seq(Nat)]
    <3> DEFINE k == hand[w].topic
               b == ApplyFaultPolicy(Policy[k], buffer[k], hand[w].msg)
    <3>1. buffer' = [buffer EXCEPT ![k] = b]
      BY <1>7 DEF ConsumeByFault
    <3>2. CASE k \in Topics
      <4>1. hand[w].msg \in Nat /\ Policy[k] \in Policies /\ buffer[k] \in Seq(Nat)
        BY <3>2, SimCommAssumption DEF TypeOK, Message, SimCommAssumption
      <4>2. b \in Seq(Nat)
        BY <4>1, ApplyFaultPolicyType
      <4> QED
        BY <3>1, <3>2, <4>2 DEF TypeOK
    <3>3. CASE k \notin Topics
      BY <3>1, <3>3 DEF TypeOK
    <3> QED
      BY <3>2, <3>3
  <2> QED
    BY <1>7, <2>1, <2>2, <2>3 DEF ConsumeByFault, TypeOK, faultVars
<1>8. ASSUME NEW w \in Workers, PassFaultGate(w) PROVE TypeOK'
  <2>1. pc' \in [Threads -> Places]
    BY <1>8, GotoType DEF PassFaultGate, Places
  <2>2. hand' \in [Workers -> Message]
    <3>1. hand[w] \in Message
      BY DEF TypeOK
    <3>2. hand' = hand \/ hand' = [hand EXCEPT ![w] = [hand[w] EXCEPT !.gates = 1]]
      BY <1>8, Zenon DEF PassFaultGate
    <3>3. [hand[w] EXCEPT !.gates = 1] \in Message
      BY <3>1 DEF Message
    <3> QED
      BY <3>2, <3>3 DEF TypeOK
  <2> QED
    BY <1>8, <2>1, <2>2 DEF PassFaultGate, TypeOK, faultVars
<1>9. ASSUME NEW w \in Workers, Deliver(w) PROVE TypeOK'
  <2>1. pc' \in [Threads -> Places]
    BY <1>9, GotoType DEF Deliver, Places
  <2>2. hand' \in [Workers -> Message]
    BY <1>9 DEF Deliver, TypeOK, Message, NoMessage
  <2>3. hand[w].topic \in Topics \cup {0} /\ hand[w].msg \in Nat
    BY DEF TypeOK, Message
  <2>4. /\ queue' \in [Topics -> Seq(Nat)]
        /\ \A j \in Topics : Len(queue'[j]) <= QueueCap
        /\ out' \in [Topics -> Seq(Nat)]
    <3>1. Dispatch(hand[w].topic, hand[w].msg, w = Main /\ hand[w].topic \in Limited)
      BY <1>9 DEF Deliver
    <3> QED
      BY <2>3, <3>1, DispatchType
  <2> QED
    BY <1>9, <2>1, <2>2, <2>4 DEF Deliver, TypeOK, faultVars
<1>10. ASSUME NEW w \in Workers, FinishRecovery(w) PROVE TypeOK'
  <2>1. pc' \in [Threads -> Places]
    BY <1>10, GotoType DEF FinishRecovery, Places
  <2> QED
    BY <1>10, <2>1 DEF FinishRecovery, TypeOK, faultVars, pathVars
<1>11. ASSUME NEW w \in Workers, NotifyRecovered(w) PROVE TypeOK'
  <2>1. pc' \in [Threads -> Places]
    BY <1>11, GotoType DEF NotifyRecovered, Places
  <2> QED
    BY <1>11, <2>1 DEF NotifyRecovered, TypeOK, faultVars, pathVars
<1>12. ASSUME NEW t \in Flushers, SwapFaultBuffers(t) PROVE TypeOK'
  <2>1. pc' \in [Threads -> Places]
    BY <1>12, GotoType DEF SwapFaultBuffers, Places
  <2>2. todo' \in [Flushers -> [Topics -> Seq(Nat)]]
    BY <1>12 DEF SwapFaultBuffers, TypeOK
  <2> QED
    BY <1>12, <2>1, <2>2, EmptyBuffersType
    DEF SwapFaultBuffers, TypeOK, faultVars, pathVars
<1>13. ASSUME NEW t \in Flushers, ReplayOne(t) PROVE TypeOK'
  <2>1. PICK k \in Topics :
          /\ todo[t][k] # <<>>
          /\ Dispatch(k, Head(todo[t][k]), k \in Limited)
          /\ todo' = [todo EXCEPT ![t][k] = Tail(todo[t][k])]
    BY <1>13 DEF ReplayOne
  <2>2. todo[t] \in [Topics -> Seq(Nat)] /\ todo[t][k] \in Seq(Nat)
    BY DEF TypeOK
  <2>3. Head(todo[t][k]) \in Nat /\ Tail(todo[t][k]) \in Seq(Nat)
    BY <2>1, <2>2
  <2>4. todo' \in [Flushers -> [Topics -> Seq(Nat)]]
    BY <2>1, <2>2, <2>3 DEF TypeOK
  <2>5. /\ queue' \in [Topics -> Seq(Nat)]
        /\ \A j \in Topics : Len(queue'[j]) <= QueueCap
        /\ out' \in [Topics -> Seq(Nat)]
    <3>1. k \in Topics \cup {0} /\ (k \in Limited) \in BOOLEAN
      OBVIOUS
    <3>2. Dispatch(k, Head(todo[t][k]), k \in Limited)
      BY <2>1
    <3> QED
      BY <2>3, <3>1, <3>2, DispatchType
  <2> QED
    BY <1>13, <2>4, <2>5 DEF ReplayOne, TypeOK, faultVars
<1>14. ASSUME MonitorWake PROVE TypeOK'
  <2>1. pc' \in [Threads -> Places] /\ asleep' \subseteq Flushers
    BY <1>14, MonitorLoopType DEF MonitorWake, TypeOK
  <2> QED
    BY <1>14, <2>1 DEF MonitorWake, TypeOK, faultVars, pathVars
<1>15. ASSUME MonitorTimedWake PROVE TypeOK'
  <2>1. CASE running /\ FaultExpired
    <3>1. pc' \in [Threads -> Places]
      BY <1>15, <2>1, GotoType DEF MonitorTimedWake, BeginRecovery, Places
    <3> QED
      BY <1>15, <2>1, <3>1 DEF MonitorTimedWake, BeginRecovery, TypeOK, pathVars
  <2>2. CASE ~(running /\ FaultExpired)
    <3>1. pc' \in [Threads -> Places] /\ asleep' \subseteq Flushers
      BY <1>15, <2>2, MonitorLoopType DEF MonitorTimedWake, TypeOK
    <3> QED
      BY <1>15, <2>2, <3>1 DEF MonitorTimedWake, TypeOK, pathVars
  <2> QED
    BY <2>1, <2>2
<1>16. ASSUME MonitorFinishRecovery PROVE TypeOK'
  <2>1. pc' \in [Threads -> Places] /\ asleep' \subseteq Flushers
    BY <1>16, MonitorLoopType DEF MonitorFinishRecovery
  <2> QED
    BY <1>16, <2>1 DEF MonitorFinishRecovery, TypeOK, faultVars, pathVars
<1>17. ASSUME ControlRequest PROVE TypeOK'
  <2>1. pc' \in [Threads -> Places]
    BY <1>17, GotoType DEF ControlRequest, Places
  <2> QED
    BY <1>17, <2>1 DEF ControlRequest, TypeOK, faultVars, pathVars
<1>18. ASSUME TimerFires PROVE TypeOK'
  <2>1. pc' \in [Threads -> Places]
    BY <1>18, GotoType DEF TimerFires, Places
  <2> QED
    BY <1>18, <2>1 DEF TimerFires, TypeOK, faultVars, pathVars
<1>19. ASSUME NEW t \in {Control, Timer}, Start(t) PROVE TypeOK'
  <2>1. pc' \in [Threads -> Places]
    BY <1>19, GotoType DEF Start, Places
  <2>2. /\ active' \in BOOLEAN
        /\ expired' \in BOOLEAN
        /\ buffer' \in [Topics -> Seq(Nat)]
        /\ faults' \in Nat
        /\ since' \in [Topics -> Nat]
    <3>1. CASE running
      <4>1. /\ active' = TRUE /\ expired' = FALSE
            /\ buffer' = EmptyBuffers
            /\ faults' = faults + 1
            /\ since' = next
        BY <1>19, <3>1 DEF Start, StartNodeFault
      <4>2. faults' \in Nat
        BY <4>1 DEF TypeOK
      <4>3. since' \in [Topics -> Nat] /\ buffer' \in [Topics -> Seq(Nat)]
        BY <4>1, EmptyBuffersType DEF TypeOK
      <4> QED
        BY <4>1, <4>2, <4>3
    <3>2. CASE ~running
      BY <1>19, <3>2 DEF Start, StartNodeFault, TypeOK
    <3> QED
      BY <3>1, <3>2
  <2> QED
    BY <1>19, <2>1, <2>2 DEF Start, TypeOK, pathVars
<1>20. ASSUME NEW t \in {Control, Timer}, StartNotify(t) PROVE TypeOK'
  <2>1. pc' \in [Threads -> Places]
    BY <1>20, GotoType DEF StartNotify, Places
  <2>2. asleep' \subseteq Flushers
    BY <1>20 DEF StartNotify, NotifyOne, TypeOK
  <2> QED
    BY <1>20, <2>1, <2>2 DEF StartNotify, TypeOK, faultVars, pathVars
<1>21. ASSUME NEW t \in {Control, Timer}, StartReturn(t) PROVE TypeOK'
  <2>1. pc' \in [Threads -> Places]
    BY <1>21, GotoType DEF StartReturn, Places
  <2> QED
    BY <1>21, <2>1 DEF StartReturn, TypeOK, faultVars, pathVars
<1>22. ASSUME SpinReturns PROVE TypeOK'
  <2>1. pc' \in [Threads -> Places]
    BY <1>22, GotoType DEF SpinReturns, Places
  <2> QED
    BY <1>22, <2>1 DEF SpinReturns, TypeOK, faultVars, pathVars
<1>23. ASSUME ControlExit PROVE TypeOK'
  <2>1. pc' \in [Threads -> Places]
    BY <1>23, GotoType DEF ControlExit, Places
  <2> QED
    BY <1>23, <2>1 DEF ControlExit, TypeOK, faultVars, pathVars
<1>24. ASSUME StopNodeFaultControl PROVE TypeOK'
  <2>1. pc' \in [Threads -> Places]
    BY <1>24, GotoType DEF StopNodeFaultControl, Places
  <2> QED
    BY <1>24, <2>1 DEF StopNodeFaultControl, TypeOK, pathVars
<1>25. ASSUME StopNotify PROVE TypeOK'
  <2>1. pc' \in [Threads -> Places]
    BY <1>25, GotoType DEF StopNotify, Places
  <2> QED
    BY <1>25, <2>1 DEF StopNotify, TypeOK, faultVars, pathVars
<1>26. ASSUME JoinMonitor PROVE TypeOK'
  <2>1. pc' \in [Threads -> Places]
    BY <1>26, GotoType DEF JoinMonitor, Places
  <2> QED
    BY <1>26, <2>1 DEF JoinMonitor, TypeOK, faultVars, pathVars
<1>27. ASSUME NEW k \in Limited, StopSend(k) PROVE TypeOK'
  <2>1. pc' \in [Threads -> Places]
    BY <1>27, GotoType DEF StopSend, Places
  <2> QED
    BY <1>27, <2>1 DEF StopSend, TypeOK, faultVars, pathVars
<1>28. ASSUME JoinSend PROVE TypeOK'
  <2>1. pc' \in [Threads -> Places]
    BY <1>28, GotoType DEF JoinSend, Places
  <2> QED
    BY <1>28, <2>1 DEF JoinSend, TypeOK, faultVars, pathVars
<1>29. ASSUME Stopped PROVE TypeOK'
  <2>1. pc' \in [Threads -> Places]
    BY <1>29, GotoType DEF Stopped, Places
  <2> QED
    BY <1>29, <2>1 DEF Stopped, TypeOK, faultVars, pathVars
<1>30. ASSUME Expire PROVE TypeOK'
  BY <1>30 DEF Expire, TypeOK, pathVars
<1>31. ASSUME NEW t \in Flushers, SpuriousWakeup(t) PROVE TypeOK'
  BY <1>31 DEF SpuriousWakeup, TypeOK, faultVars, pathVars
<1>32. ASSUME UNCHANGED vars PROVE TypeOK'
  BY <1>32 DEF vars, TypeOK
<1> QED
  BY <1>1, <1>2, <1>3, <1>4, <1>5, <1>6, <1>7, <1>8, <1>9, <1>10, <1>11, <1>12, <1>13,
     <1>14, <1>15, <1>16, <1>17, <1>18, <1>19, <1>20, <1>21, <1>22, <1>23, <1>24, <1>25,
     <1>26, <1>27, <1>28, <1>29, <1>30, <1>31, <1>32
  DEF Next, SendFuncStep, GateStep, FlushStep, MonitorStep, StarterStep, StopStep,
      Terminated

\* Every variable keeps its type, the wait set holds only waiting threads and no
\* bitrate queue exceeds its bound, in every configuration.
THEOREM TypeCorrect == Spec => []TypeOK
BY InitType, StepType, PTL DEF Spec

-----------------------------------------------------------------------------
(***************************************************************************)
(* The fault state machine when faults come from the control server alone. *)
(* Coordination is inductive under TypeOK. Its argument: a fault is ended  *)
(* by whoever clears node_fault_active in the section that sets            *)
(* node_fault_recovering, so no second thread finds it active; the control *)
(* thread starts the next one only when both flags are down, and between   *)
(* its check and its start only a new fault could raise one of them.       *)
(***************************************************************************)
StopPlaces == {"stopNotify", "joinMonitor", "stopSend", "joinSend", "stopped"}
FlushPlaces == {"swap", "replay"}

coordVars == <<running, active, recovering, buffer, pc>>

LEMMA InitCoordination == ~ScheduledFault /\ Init => Coordination
<1> SUFFICES ASSUME ~ScheduledFault, Init PROVE Coordination
  OBVIOUS
<1>1. \A t \in Flushers : ~Flushing(t)
  BY ThreadFacts DEF Init, Flushing
<1>2. pc[Main] = "idle" /\ pc[Control] = "idle" /\ pc[Timer] = "done"
  BY ThreadFacts DEF Init, Main, Control, Timer, Monitor
<1>3. SingleFlusher
  BY <1>1 DEF SingleFlusher, Init
<1>4. BufferGuarded
  BY DEF BufferGuarded, Init
<1>5. Started /\ StopOrder
  BY <1>2 DEF Started, StopOrder, Init
<1> QED
  BY <1>1, <1>2, <1>3, <1>4, <1>5 DEF Coordination

\* A step that writes none of its variables keeps it.
LEMMA CoordinationFrame ==
  ASSUME Coordination, UNCHANGED coordVars
  PROVE  Coordination'
BY DEF coordVars, Coordination, SingleFlusher, BufferGuarded, Started, StopOrder, Flushing

\* A step that only moves one thread, neither out of a flush nor into one, keeps
\* it, if the control thread and the main thread respect the flags.
LEMMA QuietMove ==
  ASSUME TypeOK, Coordination,
         NEW t \in Threads, NEW place \in Places \ FlushPlaces,
         Goto(t, place), pc[t] \notin FlushPlaces,
         UNCHANGED <<running, active, recovering, buffer>>,
         t # Timer,
         t = Control => /\ place = "start" => running /\ ~active /\ ~recovering
                        /\ ~running => place = "done",
         t = Main => (pc[Main] \in StopPlaces <=> place \in StopPlaces)
  PROVE  Coordination'
<1> USE ThreadFacts
<1>1. pc' = [pc EXCEPT ![t] = place] /\ pc \in [Threads -> Places]
  BY DEF Goto, TypeOK
<1>2. \A u \in Flushers : Flushing(u)' <=> Flushing(u)
  BY <1>1 DEF Flushing, FlushPlaces
<1>3. \A u \in Flushers : pc'[u] = "swap" <=> pc[u] = "swap"
  BY <1>1 DEF FlushPlaces
<1>4. SingleFlusher'
  BY <1>2 DEF Coordination, SingleFlusher
<1>5. BufferGuarded'
  BY <1>3 DEF Coordination, BufferGuarded
<1>6. Started' /\ pc'[Timer] = "done"
  BY <1>1 DEF Coordination, Started
<1>7. StopOrder'
  BY <1>1 DEF Coordination, StopOrder, StopPlaces
<1> QED
  BY <1>2, <1>4, <1>5, <1>6, <1>7 DEF Coordination

\* The end of a fault, by a worker or by the monitor.
LEMMA BeginRecoveryCoordination ==
  ASSUME TypeOK, Coordination,
         NEW t \in Flushers, BeginRecovery(t), active,
         pc[t] \notin StopPlaces, UNCHANGED <<running, buffer>>
  PROVE  Coordination'
<1> USE ThreadFacts
<1>1. pc' = [pc EXCEPT ![t] = "swap"] /\ pc \in [Threads -> Places]
  BY DEF BeginRecovery, Goto, TypeOK
<1>2. ~active' /\ recovering'
  BY DEF BeginRecovery
<1>3. running /\ \A u \in Flushers : ~Flushing(u)
  BY DEF Coordination, StopOrder
<1>4. Flushing(t)' /\ \A u \in Flushers : Flushing(u)' => u = t
  BY <1>1, <1>3 DEF Flushing
<1>5. SingleFlusher'
  BY <1>2, <1>4 DEF SingleFlusher
<1>6. BufferGuarded'
  BY <1>1 DEF BufferGuarded
<1>7. Started' /\ pc'[Timer] = "done" /\ pc'[Control] = pc[Control]
  <2>1. pc[Control] # "start"
    BY DEF Coordination, Started
  <2> QED
    BY <1>1, <2>1 DEF Started, Coordination
<1>8. StopOrder'
  <2>1. pc'[Main] \notin StopPlaces
    BY <1>1, <1>3 DEF Coordination, StopOrder, StopPlaces
  <2> QED
    BY <1>3, <2>1 DEF StopOrder, StopPlaces
<1> QED
  BY <1>2, <1>5, <1>6, <1>7, <1>8 DEF Coordination

\* The end of a recovery, by a worker or by the monitor.
LEMMA EndRecoveryCoordination ==
  ASSUME TypeOK, Coordination,
         NEW t \in Flushers, pc[t] = "replay",
         NEW place \in Places \ (FlushPlaces \cup StopPlaces), Goto(t, place),
         recovering' = FALSE, UNCHANGED <<running, active, buffer>>
  PROVE  Coordination'
<1> USE ThreadFacts
<1>1. pc' = [pc EXCEPT ![t] = place] /\ pc \in [Threads -> Places]
  BY DEF Goto, TypeOK
<1>2. Flushing(t) /\ ~active /\ \A u \in Flushers : Flushing(u) => u = t
  BY DEF Flushing, Coordination, SingleFlusher
<1>3. \A u \in Flushers : ~Flushing(u)'
  BY <1>1, <1>2 DEF Flushing, FlushPlaces
<1>4. SingleFlusher'
  BY <1>3 DEF SingleFlusher
<1>5. BufferGuarded'
  <2>1. \A u \in Flushers : pc[u] # "swap"
    BY <1>2 DEF Flushing
  <2> QED
    BY <1>2, <2>1 DEF Coordination, BufferGuarded
<1>6. Started' /\ pc'[Timer] = "done" /\ pc'[Control] = pc[Control]
  BY <1>1, <1>2 DEF Coordination, Started
<1>7. StopOrder'
  <2>1. pc'[Main] \in StopPlaces <=> pc[Main] \in StopPlaces
    BY <1>1 DEF StopPlaces
  <2> QED
    BY <1>2, <1>6, <2>1 DEF Coordination, StopOrder, StopPlaces
<1> QED
  BY <1>2, <1>3, <1>4, <1>5, <1>6, <1>7 DEF Coordination

LEMMA StepCoordination == TypeOK /\ Coordination /\ [Next]_vars => Coordination'
<1> SUFFICES ASSUME TypeOK, Coordination, [Next]_vars PROVE Coordination'
  OBVIOUS
<1> USE ThreadFacts
<1>1. ASSUME NEW k \in SendTopics, SubCallback(k) PROVE Coordination'
  BY <1>1, QuietMove DEF SubCallback, faultVars, Places, FlushPlaces, StopPlaces
<1>2. ASSUME NEW k \in RecvTopics, Receive(k) PROVE Coordination'
  BY <1>2, QuietMove DEF Receive, faultVars, Places, FlushPlaces, StopPlaces
<1>3. ASSUME NEW k \in Limited, SendFuncPop(k) PROVE Coordination'
  BY <1>3, QuietMove DEF SendFuncPop, faultVars, Places, FlushPlaces, StopPlaces
<1>4. ASSUME NEW k \in Limited, SendFuncExit(k) PROVE Coordination'
  BY <1>4, QuietMove DEF SendFuncExit, faultVars, Places, FlushPlaces, StopPlaces
<1>5. ASSUME NEW w \in Workers, FlushExpiredFaultIfNeeded(w) PROVE Coordination'
  <2>1. CASE FaultExpired
    BY <1>5, <2>1, BeginRecoveryCoordination
    DEF FlushExpiredFaultIfNeeded, FaultExpired, StopPlaces
  <2>2. CASE ~FaultExpired
    BY <1>5, <2>2, QuietMove
    DEF FlushExpiredFaultIfNeeded, Places, FlushPlaces, StopPlaces
  <2> QED
    BY <2>1, <2>2
<1>6. ASSUME NEW w \in Workers, WaitForRecovery(w) PROVE Coordination'
  BY <1>6, CoordinationFrame DEF WaitForRecovery, coordVars, faultVars
<1>7. ASSUME NEW w \in Workers, ConsumeByFault(w) PROVE Coordination'
  <2>1. pc' = [pc EXCEPT ![w] = "idle"] /\ pc[w] = "gate" /\ pc \in [Threads -> Places]
    BY <1>7 DEF ConsumeByFault, AtGate, Goto, TypeOK
  <2>2. active /\ UNCHANGED <<running, active, recovering>>
    BY <1>7 DEF ConsumeByFault, FaultWindowOpen, faultVars
  <2>3. \A u \in Flushers : ~Flushing(u) /\ ~Flushing(u)'
    BY <2>1, <2>2 DEF Coordination, Flushing
  <2>4. SingleFlusher' /\ BufferGuarded'
    BY <2>2, <2>3 DEF Coordination, SingleFlusher, BufferGuarded
  <2>5. Started' /\ StopOrder' /\ pc'[Timer] = "done"
    BY <2>1, <2>2 DEF Coordination, Started, StopOrder
  <2> QED
    BY <2>3, <2>4, <2>5 DEF Coordination
<1>8. ASSUME NEW w \in Workers, PassFaultGate(w) PROVE Coordination'
  <2>1. PICK place \in {"check", "deliver"} : Goto(w, place)
    BY <1>8 DEF PassFaultGate
  <2> QED
    BY <1>8, <2>1, QuietMove
    DEF PassFaultGate, AtGate, faultVars, Places, FlushPlaces, StopPlaces
<1>9. ASSUME NEW w \in Workers, Deliver(w) PROVE Coordination'
  BY <1>9, QuietMove DEF Deliver, faultVars, Places, FlushPlaces, StopPlaces
<1>10. ASSUME NEW w \in Workers, FinishRecovery(w) PROVE Coordination'
  BY <1>10, EndRecoveryCoordination
  DEF FinishRecovery, faultVars, Places, FlushPlaces, StopPlaces
<1>11. ASSUME NEW w \in Workers, NotifyRecovered(w) PROVE Coordination'
  BY <1>11, QuietMove DEF NotifyRecovered, faultVars, Places, FlushPlaces, StopPlaces
<1>12. ASSUME NEW t \in Flushers, SwapFaultBuffers(t) PROVE Coordination'
  <2>1. pc' = [pc EXCEPT ![t] = "replay"] /\ pc[t] = "swap" /\ pc \in [Threads -> Places]
    BY <1>12 DEF SwapFaultBuffers, Goto, TypeOK
  <2>2. buffer' = EmptyBuffers /\ UNCHANGED <<running, active, recovering>>
    BY <1>12 DEF SwapFaultBuffers, faultVars
  <2>3. \A u \in Flushers : Flushing(u)' <=> Flushing(u)
    BY <2>1 DEF Flushing
  <2>4. SingleFlusher' /\ BufferGuarded'
    BY <2>2, <2>3 DEF Coordination, SingleFlusher, BufferGuarded, EmptyBuffers
  <2>5. Started' /\ StopOrder' /\ pc'[Timer] = "done"
    BY <2>1, <2>2 DEF Coordination, Started, StopOrder
  <2> QED
    BY <2>2, <2>3, <2>4, <2>5 DEF Coordination
<1>13. ASSUME NEW t \in Flushers, ReplayOne(t) PROVE Coordination'
  BY <1>13, CoordinationFrame DEF ReplayOne, coordVars, faultVars
<1>14. ASSUME MonitorWake PROVE Coordination'
  <2>1. PICK place \in {"done", "timed", "wait"} : Goto(Monitor, place)
    BY <1>14 DEF MonitorWake, MonitorLoop
  <2> QED
    BY <1>14, <2>1, QuietMove
    DEF MonitorWake, faultVars, Places, FlushPlaces, StopPlaces
<1>15. ASSUME MonitorTimedWake PROVE Coordination'
  <2>1. CASE running /\ FaultExpired
    BY <1>15, <2>1, BeginRecoveryCoordination
    DEF MonitorTimedWake, FaultExpired, StopPlaces
  <2>2. CASE ~(running /\ FaultExpired)
    <3>1. PICK place \in {"done", "timed", "wait"} : Goto(Monitor, place)
      BY <1>15, <2>2 DEF MonitorTimedWake, MonitorLoop
    <3> QED
      BY <1>15, <2>2, <3>1, QuietMove
      DEF MonitorTimedWake, Places, FlushPlaces, StopPlaces
  <2> QED
    BY <2>1, <2>2
<1>16. ASSUME MonitorFinishRecovery PROVE Coordination'
  <2>1. PICK place \in {"done", "timed", "wait"} : Goto(Monitor, place)
    BY <1>16 DEF MonitorFinishRecovery, MonitorLoop
  <2> QED
    BY <1>16, <2>1, EndRecoveryCoordination
    DEF MonitorFinishRecovery, faultVars, Places, FlushPlaces, StopPlaces
<1>17. ASSUME ControlRequest PROVE Coordination'
  <2>1. running
    BY <1>17 DEF ControlRequest, Coordination, StopOrder
  <2> QED
    BY <1>17, <2>1, QuietMove
    DEF ControlRequest, faultVars, Places, FlushPlaces, StopPlaces
<1>18. ASSUME TimerFires PROVE FALSE
  BY <1>18 DEF TimerFires, Coordination
<1>19. ASSUME NEW t \in {Control, Timer}, Start(t) PROVE Coordination'
  <2>1. t = Control /\ running /\ ~active /\ ~recovering
    BY <1>19 DEF Start, Coordination, Started
  <2>2. pc' = [pc EXCEPT ![Control] = "notifyOne"] /\ pc \in [Threads -> Places]
    BY <1>19, <2>1 DEF Start, Goto, TypeOK
  <2>3. active' = TRUE /\ UNCHANGED <<running, recovering>>
    BY <1>19, <2>1 DEF Start, StartNodeFault
  <2>4. \A u \in Flushers : ~Flushing(u)
    BY <2>1 DEF Coordination, SingleFlusher
  <2>5. \A u \in Flushers : ~Flushing(u)'
    BY <2>2, <2>4 DEF Flushing
  <2>6. SingleFlusher' /\ BufferGuarded'
    BY <2>1, <2>3, <2>5 DEF SingleFlusher, BufferGuarded
  <2>7. Started' /\ StopOrder' /\ pc'[Timer] = "done"
    BY <2>1, <2>2, <2>3 DEF Coordination, Started, StopOrder
  <2> QED
    BY <2>5, <2>6, <2>7 DEF Coordination
<1>20. ASSUME NEW t \in {Control, Timer}, StartNotify(t) PROVE Coordination'
  <2>1. t = Control /\ running
    BY <1>20 DEF StartNotify, Coordination, StopOrder
  <2> QED
    BY <1>20, <2>1, QuietMove
    DEF StartNotify, faultVars, Places, FlushPlaces, StopPlaces
<1>21. ASSUME NEW t \in {Control, Timer}, StartReturn(t) PROVE Coordination'
  <2>1. t = Control /\ running
    BY <1>21 DEF StartReturn, Coordination, StopOrder
  <2> QED
    BY <1>21, <2>1, QuietMove
    DEF StartReturn, faultVars, Places, FlushPlaces, StopPlaces
<1>22. ASSUME SpinReturns PROVE Coordination'
  BY <1>22, QuietMove DEF SpinReturns, faultVars, Places, FlushPlaces, StopPlaces
<1>23. ASSUME ControlExit PROVE Coordination'
  BY <1>23, QuietMove DEF ControlExit, faultVars, Places, FlushPlaces, StopPlaces
<1>24. ASSUME StopNodeFaultControl PROVE Coordination'
  <2>1. /\ pc' = [pc EXCEPT ![Main] = "stopNotify"]
        /\ pc[Main] = "joinControl" /\ pc[Control] = "done"
        /\ pc \in [Threads -> Places]
    BY <1>24 DEF StopNodeFaultControl, Goto, TypeOK
  <2>2. ~running' /\ ~active' /\ ~recovering'
    BY <1>24 DEF StopNodeFaultControl
  <2>3. \A u \in Flushers : Flushing(u)' <=> Flushing(u)
    BY <2>1 DEF Flushing
  <2>4. SingleFlusher' /\ BufferGuarded'
    BY <2>2, <2>3 DEF Coordination, SingleFlusher, BufferGuarded
  <2>5. Started' /\ StopOrder' /\ pc'[Timer] = "done"
    BY <2>1, <2>2 DEF Coordination, Started, StopOrder
  <2> QED
    BY <2>2, <2>4, <2>5 DEF Coordination
<1>25. ASSUME StopNotify PROVE Coordination'
  BY <1>25, QuietMove DEF StopNotify, faultVars, Places, FlushPlaces, StopPlaces
<1>26. ASSUME JoinMonitor PROVE Coordination'
  BY <1>26, QuietMove DEF JoinMonitor, faultVars, Places, FlushPlaces, StopPlaces
<1>27. ASSUME NEW k \in Limited, StopSend(k) PROVE Coordination'
  BY <1>27, QuietMove DEF StopSend, faultVars, Places, FlushPlaces, StopPlaces
<1>28. ASSUME JoinSend PROVE Coordination'
  BY <1>28, QuietMove DEF JoinSend, faultVars, Places, FlushPlaces, StopPlaces
<1>29. ASSUME Stopped PROVE Coordination'
  BY <1>29, QuietMove DEF Stopped, faultVars, Places, FlushPlaces, StopPlaces
<1>30. ASSUME Expire PROVE Coordination'
  BY <1>30, CoordinationFrame DEF Expire, coordVars
<1>31. ASSUME NEW t \in Flushers, SpuriousWakeup(t) PROVE Coordination'
  BY <1>31, CoordinationFrame DEF SpuriousWakeup, coordVars, faultVars
<1>32. ASSUME UNCHANGED vars PROVE Coordination'
  BY <1>32, CoordinationFrame DEF vars, coordVars
<1> QED
  BY <1>1, <1>2, <1>3, <1>4, <1>5, <1>6, <1>7, <1>8, <1>9, <1>10, <1>11, <1>12, <1>13,
     <1>14, <1>15, <1>16, <1>17, <1>18, <1>19, <1>20, <1>21, <1>22, <1>23, <1>24, <1>25,
     <1>26, <1>27, <1>28, <1>29, <1>30, <1>31, <1>32
  DEF Next, SendFuncStep, GateStep, FlushStep, MonitorStep, StarterStep, StopStep,
      Terminated

\* The invariant holds in every run without a timer fault.
THEOREM CoordinationHolds == ~ScheduledFault => (Spec => []Coordination)
<1> SUFFICES ASSUME ~ScheduledFault PROVE Spec => []Coordination
  OBVIOUS
<1>1. Init => Coordination
  BY InitCoordination
<1> QED
  BY <1>1, StepCoordination, TypeCorrect, PTL DEF Spec

\* Two recoveries never overlap, and node_fault_recovering says whether one runs.
THEOREM RecoveriesDoNotOverlap == ~ScheduledFault => (Spec => []SingleFlusher)
<1> SUFFICES ASSUME ~ScheduledFault PROVE Spec => []SingleFlusher
  OBVIOUS
<1>1. Coordination => SingleFlusher
  BY DEF Coordination
<1> QED
  BY <1>1, CoordinationHolds, PTL

\* No message is left behind in a fault buffer.
THEOREM NothingStranded == ~ScheduledFault => (Spec => []BufferGuarded)
<1> SUFFICES ASSUME ~ScheduledFault PROVE Spec => []BufferGuarded
  OBVIOUS
<1>1. Coordination => BufferGuarded
  BY DEF Coordination
<1> QED
  BY <1>1, CoordinationHolds, PTL

-----------------------------------------------------------------------------
\* Nothing but start_node_fault counts a fault.
LEMMA OnlyStartStarts ==
  ASSUME Next, faults' # faults
  PROVE  \E t \in {Control, Timer} : Start(t)
<1>1. \A k : SubCallback(k) \/ Receive(k) \/ SendFuncStep(k) => faults' = faults
  BY DEF SubCallback, Receive, SendFuncStep, SendFuncPop, SendFuncExit, faultVars
<1>2. \A w : GateStep(w) => faults' = faults
  BY DEF GateStep, FlushExpiredFaultIfNeeded, WaitForRecovery, ConsumeByFault,
         PassFaultGate, Deliver, FinishRecovery, NotifyRecovered, faultVars
<1>3. \A t : FlushStep(t) => faults' = faults
  BY DEF FlushStep, SwapFaultBuffers, ReplayOne, faultVars
<1>4. MonitorStep => faults' = faults
  BY DEF MonitorStep, MonitorWake, MonitorTimedWake, MonitorFinishRecovery, faultVars
<1>5. ControlRequest \/ TimerFires \/ SpinReturns => faults' = faults
  BY DEF ControlRequest, TimerFires, SpinReturns, faultVars
<1>6. \A t : StartNotify(t) \/ StartReturn(t) => faults' = faults
  BY DEF StartNotify, StartReturn, faultVars
<1>7. StopStep => faults' = faults
  BY DEF StopStep, ControlExit, StopNodeFaultControl, StopNotify, JoinMonitor, StopSend,
         JoinSend, Stopped, faultVars
<1>8. Expire \/ Terminated \/ (\E t \in Flushers : SpuriousWakeup(t)) => faults' = faults
  BY DEF Expire, Terminated, SpuriousWakeup, faultVars, vars
<1> QED
  BY <1>1, <1>2, <1>3, <1>4, <1>5, <1>6, <1>7, <1>8 DEF Next, StarterStep

\* Without a timer fault, what a start finds: both flags down and no message in a
\* fault buffer, although is_node_fault_busy was read in an earlier section.
LEMMA StartFindsQuiet ==
  ASSUME Coordination, NEW t \in {Control, Timer}, Start(t)
  PROVE  ~active /\ ~recovering /\ buffer = EmptyBuffers
<1>1. t = Control /\ running /\ ~active /\ ~recovering
  BY ThreadFacts DEF Start, Coordination, Started
<1>2. \A u \in Flushers : pc[u] # "swap"
  BY <1>1 DEF Coordination, SingleFlusher, Flushing
<1> QED
  BY <1>1, <1>2 DEF Coordination, BufferGuarded

\* A fault started through the control server never destroys a buffered message.
THEOREM StartDestroysNothing == ~ScheduledFault => (Spec => StartClearsNothing)
<1> SUFFICES ASSUME ~ScheduledFault PROVE Spec => StartClearsNothing
  OBVIOUS
<1>1. TypeOK /\ Coordination /\ [Next]_vars
        => [faults' > faults => buffer = EmptyBuffers]_vars
  <2> SUFFICES ASSUME TypeOK, Coordination, Next, faults' > faults
               PROVE  buffer = EmptyBuffers
    BY DEF vars
  <2>1. faults' # faults
    BY DEF TypeOK
  <2> QED
    BY <2>1, OnlyStartStarts, StartFindsQuiet
<1> QED
  BY <1>1, TypeCorrect, CoordinationHolds, PTL DEF Spec, StartClearsNothing

\* Nor does it start while the last fault is active or being replayed.
THEOREM RemoteStartNeverReenters == ~ScheduledFault => (Spec => NoReentrantStart)
<1> SUFFICES ASSUME ~ScheduledFault PROVE Spec => NoReentrantStart
  OBVIOUS
<1>1. TypeOK /\ Coordination /\ [Next]_vars
        => [faults' > faults => ~active /\ ~recovering]_vars
  <2> SUFFICES ASSUME TypeOK, Coordination, Next, faults' > faults
               PROVE  ~active /\ ~recovering
    BY DEF vars
  <2>1. faults' # faults
    BY DEF TypeOK
  <2> QED
    BY <2>1, OnlyStartStarts, StartFindsQuiet
<1> QED
  BY <1>1, TypeCorrect, CoordinationHolds, PTL DEF Spec, NoReentrantStart

-----------------------------------------------------------------------------
(* What the steps do to messages. *)

\* A topic is sent or received, and 0 stands for the spin thread or for no topic.
LEMMA TopicFacts ==
  /\ SendTopics \cap RecvTopics = {} /\ Limited \cap RecvTopics = {}
  /\ 0 \notin Topics /\ Main = 0
  /\ \A w \in Workers : w = Main \/ w \in Limited \/ w \in RecvTopics
  /\ \A k \in Topics : k \in SendTopics \/ k \in RecvTopics
BY SimCommAssumption, ThreadFacts
   DEF SimCommAssumption, SendTopics, RecvTopics, Topics, Workers, Main

CarryPlaces == {"check", "swap", "replay", "notify", "gate", "deliver"}
Unlimited == Topics \ Limited

\* The messages of topic k in the hands of workers, and in those of flushers.
Carried(k) == {hand[w].msg : w \in Carriers(k)}
Replayed(k) == UNION {ToSet(todo[t][k]) : t \in Flushers}

\* The places a message of topic k may be in, one by one.
LEMMA KnownPlaces ==
  ASSUME NEW k
  PROVE  Known(k) = ToSet(out[k]) \cup ToSet(queue[k]) \cup ToSet(buffer[k])
                    \cup Replayed(k) \cup Carried(k)
BY DEF Known, Carried, Replayed

LEMMA KnownPlacesNext ==
  ASSUME NEW k
  PROVE  Known(k)' = ToSet(out'[k]) \cup ToSet(queue'[k]) \cup ToSet(buffer'[k])
                     \cup Replayed(k)' \cup Carried(k)'
BY DEF Known, Carried, Replayed

\* A worker comes to the gate: from a check that found no expired fault, or after a
\* recovery of its own.
ComesToGate(w) ==
  /\ (pc[w] = "check" /\ ~FaultExpired) \/ pc[w] = "notify"
  /\ pc' = [pc EXCEPT ![w] = "gate"]
  /\ UNCHANGED <<faultVars, recovering, buffer, todo, pathVars>>

\* A worker or the monitor begins a recovery, and ends it.
RecoveryBegins(t) ==
  /\ pc[t] = IF t = Monitor THEN "timed" ELSE "check"
  /\ FaultExpired
  /\ BeginRecovery(t)
  /\ UNCHANGED <<running, expired, faults, since, buffer, todo, pathVars>>

RecoveryEnds(t) ==
  /\ pc[t] = "replay"
  /\ todo[t] = EmptyBuffers
  /\ recovering' = FALSE
  /\ \E place \in Places \ {"swap", "replay"} :
       /\ pc' = [pc EXCEPT ![t] = place]
       /\ IF t = Monitor THEN place \notin CarryPlaces ELSE place = "notify"
  /\ UNCHANGED <<faultVars, buffer, todo, pathVars>>

\* Whatever else happens touches no message and no thread that carries one; the fault
\* window may close, and the stop takes both flags down.
Aside ==
  /\ UNCHANGED <<buffer, todo, pathVars, faults, since>>
  /\ \A t \in Flushers :
       pc'[t] = pc[t] \/ (pc[t] \notin CarryPlaces /\ pc'[t] \notin CarryPlaces)
  /\ (running' => UNCHANGED <<running, active, recovering>>) /\ (active' => active)
  /\ expired => expired'

LEMMA StepMoves ==
  ASSUME TypeOK, [Next]_vars
  PROVE  \/ \E k \in SendTopics : SubCallback(k)
         \/ \E k \in RecvTopics : Receive(k)
         \/ \E k \in Limited : SendFuncPop(k)
         \/ \E w \in Workers :
              ComesToGate(w) \/ ConsumeByFault(w) \/ PassFaultGate(w) \/ Deliver(w)
         \/ \E t \in Flushers :
              RecoveryBegins(t) \/ SwapFaultBuffers(t) \/ ReplayOne(t) \/ RecoveryEnds(t)
         \/ \E t \in {Control, Timer} : Start(t)
         \/ Aside
<1> USE ThreadFacts
<1>1. ASSUME NEW k \in Limited, SendFuncExit(k) PROVE Aside
  BY <1>1 DEF SendFuncExit, Goto, Aside, CarryPlaces, TypeOK, faultVars, pathVars
<1>2. ASSUME NEW w \in Workers, FlushExpiredFaultIfNeeded(w)
      PROVE  ComesToGate(w) \/ RecoveryBegins(w)
  BY <1>2 DEF FlushExpiredFaultIfNeeded, ComesToGate, RecoveryBegins, Goto, faultVars
<1>3. ASSUME NEW w \in Workers, WaitForRecovery(w) PROVE Aside
  BY <1>3 DEF WaitForRecovery, Aside, faultVars, pathVars
<1>4. ASSUME NEW w \in Workers, FinishRecovery(w) PROVE RecoveryEnds(w)
  BY <1>4 DEF FinishRecovery, RecoveryEnds, Goto, Places
<1>5. ASSUME NEW w \in Workers, NotifyRecovered(w) PROVE ComesToGate(w)
  BY <1>5 DEF NotifyRecovered, ComesToGate, Goto
<1>6. ASSUME MonitorWake PROVE Aside
  BY <1>6 DEF MonitorWake, MonitorLoop, Goto, Aside, CarryPlaces, TypeOK, faultVars, pathVars
<1>7. ASSUME MonitorTimedWake PROVE RecoveryBegins(Monitor) \/ Aside
  <2>1. CASE running /\ FaultExpired
    BY <1>7, <2>1 DEF MonitorTimedWake, RecoveryBegins
  <2>2. CASE ~(running /\ FaultExpired)
    BY <1>7, <2>2
    DEF MonitorTimedWake, MonitorLoop, Goto, Aside, CarryPlaces, TypeOK, pathVars
  <2> QED
    BY <2>1, <2>2
<1>8. ASSUME MonitorFinishRecovery PROVE RecoveryEnds(Monitor)
  <2>1. PICK place \in {"done", "timed", "wait"} : pc' = [pc EXCEPT ![Monitor] = place]
    BY <1>8 DEF MonitorFinishRecovery, MonitorLoop, Goto
  <2> QED
    BY <1>8, <2>1 DEF MonitorFinishRecovery, RecoveryEnds, Places, CarryPlaces
<1>9. ASSUME ControlRequest \/ TimerFires PROVE Aside
  BY <1>9 DEF ControlRequest, TimerFires, Goto, Aside, TypeOK, faultVars, pathVars
<1>10. ASSUME NEW t \in {Control, Timer}, StartNotify(t) \/ StartReturn(t) PROVE Aside
  BY <1>10 DEF StartNotify, StartReturn, Goto, Aside, TypeOK, faultVars, pathVars
<1>11. ASSUME SpinReturns \/ StopStep PROVE Aside
  <2>1. CASE SpinReturns \/ ControlExit \/ StopNotify \/ JoinMonitor
    BY <2>1 DEF SpinReturns, ControlExit, StopNotify, JoinMonitor, Goto, Aside, CarryPlaces,
                TypeOK, faultVars, pathVars
  <2>2. CASE StopNodeFaultControl
    BY <2>2 DEF StopNodeFaultControl, Goto, Aside, CarryPlaces, TypeOK, pathVars
  <2>3. CASE (\E k \in Limited : StopSend(k)) \/ JoinSend \/ Stopped
    BY <2>3 DEF StopSend, JoinSend, Stopped, Goto, Aside, CarryPlaces, TypeOK, faultVars,
                pathVars
  <2> QED
    BY <1>11, <2>1, <2>2, <2>3 DEF StopStep
<1>12. ASSUME Expire PROVE Aside
  BY <1>12 DEF Expire, Aside, pathVars
<1>13. ASSUME NEW t \in Flushers, SpuriousWakeup(t) PROVE Aside
  BY <1>13 DEF SpuriousWakeup, Aside, faultVars, pathVars
<1>14. ASSUME UNCHANGED vars PROVE Aside
  BY <1>14 DEF vars, Aside, pathVars
<1>15. CASE Next
  BY <1>15, <1>1, <1>2, <1>3, <1>4, <1>5, <1>6, <1>7, <1>8, <1>9, <1>10, <1>11, <1>12, <1>13,
     <1>14
  DEF Next, SendFuncStep, GateStep, FlushStep, MonitorStep, StarterStep, Terminated
<1> QED
  BY <1>14, <1>15

-----------------------------------------------------------------------------
(* Who has messages: a worker between its entry point and its end, of one topic
   (the spin thread: of any send topic); a flusher while it replays, when the fault
   buffers are empty; a bitrate queue if its topic is limited. *)

HandCustody ==
  /\ \A w \in Workers : hand[w].topic # 0 <=> pc[w] \in CarryPlaces
  /\ \A w \in Workers \ {Main} : hand[w].topic \in {0, w}
  /\ hand[Main].topic \in SendTopics \cup {0}

StoreCustody ==
  /\ \A t \in Flushers : pc[t] # "replay" => todo[t] = EmptyBuffers
  /\ \A t \in Flushers : pc[t] = "replay" => buffer = EmptyBuffers
  /\ \A k \in Unlimited : queue[k] = <<>>

LEMMA InitCustody == Init => HandCustody /\ StoreCustody
<1> SUFFICES ASSUME Init PROVE HandCustody /\ StoreCustody
  OBVIOUS
<1>1. \A t \in Flushers : pc[t] \in {"loop", "idle"}
  BY ThreadFacts DEF Init
<1>2. \A w \in Workers : hand[w].topic = 0
  BY DEF Init, NoMessage
<1>3. HandCustody
  BY <1>1, <1>2, ThreadFacts DEF HandCustody, CarryPlaces
<1>4. StoreCustody
  BY <1>1 DEF Init, StoreCustody, EmptyBuffers, Unlimited
<1> QED
  BY <1>3, <1>4

\* A step in which only worker w moves and changes hands.
LEMMA HandMove ==
  ASSUME TypeOK, HandCustody, NEW w \in Workers, NEW place \in Places, NEW h \in Message,
         pc' = [pc EXCEPT ![w] = place], hand' = [hand EXCEPT ![w] = h],
         h.topic # 0 <=> place \in CarryPlaces,
         h.topic \in {0, hand[w].topic} \/ h.topic = w
           \/ (w = Main /\ h.topic \in SendTopics)
  PROVE  HandCustody'
<1> USE ThreadFacts
<1>1. /\ pc'[w] = place /\ hand'[w] = h
      /\ \A v \in Workers : v # w => pc'[v] = pc[v] /\ hand'[v] = hand[v]
  BY DEF TypeOK
<1>2. \A v \in Workers : hand'[v].topic # 0 <=> pc'[v] \in CarryPlaces
  BY <1>1 DEF HandCustody
<1>3. \A v \in Workers \ {Main} : hand'[v].topic \in {0, v}
  BY <1>1 DEF HandCustody
<1>4. hand'[Main].topic \in SendTopics \cup {0}
  BY <1>1 DEF HandCustody, Main
<1> QED
  BY <1>2, <1>3, <1>4 DEF HandCustody

LEMMA NoMessageType == NoMessage \in Message /\ NoMessage.topic = 0
BY DEF NoMessage, Message

\* Passing a gate leaves the message as it is, with no other gate before it.
LEMMA PassKeepsMessage ==
  ASSUME TypeOK, NEW w \in Workers, PassFaultGate(w)
  PROVE  /\ \A v \in Workers : hand'[v].topic = hand[v].topic /\ hand'[v].msg = hand[v].msg
         /\ hand'[w].gates = 1
<1>1. hand \in [Workers -> Message] /\ hand[w] \in Message
  BY DEF TypeOK
<1>2. \/ hand' = hand /\ hand[w].gates # 2
      \/ hand' = [hand EXCEPT ![w] = [hand[w] EXCEPT !.gates = 1]]
  BY Zenon DEF PassFaultGate
<1>3. CASE hand' = hand /\ hand[w].gates # 2
  BY <1>1, <1>3 DEF Message
<1>4. CASE hand' = [hand EXCEPT ![w] = [hand[w] EXCEPT !.gates = 1]]
  <2> DEFINE h == [hand[w] EXCEPT !.gates = 1]
  <2>1. h.topic = hand[w].topic /\ h.msg = hand[w].msg /\ h.gates = 1
    BY <1>1 DEF Message
  <2>2. \A v \in Workers : hand'[v] = IF v = w THEN h ELSE hand[v]
    BY <1>1, <1>4
  <2> HIDE DEF h
  <2> QED
    BY <2>1, <2>2
<1> QED
  BY <1>2, <1>3, <1>4

LEMMA StepHandCustody ==
  TypeOK /\ HandCustody /\ [Next]_vars => HandCustody'
<1> SUFFICES ASSUME TypeOK, HandCustody, [Next]_vars PROVE HandCustody'
  OBVIOUS
<1> USE ThreadFacts
<1>1. ASSUME NEW k \in SendTopics, SubCallback(k) PROVE HandCustody'
  <2> DEFINE h == [topic |-> k, msg |-> next[k] + 1,
                   gates |-> IF k \in Limited THEN 1 ELSE 2]
  <2>1. h \in Message /\ h.topic = k /\ k # 0 /\ "check" \in Places \cap CarryPlaces
    BY DEF Message, TypeOK, Places, CarryPlaces, Main
  <2>2. hand' = [hand EXCEPT ![Main] = h] /\ pc' = [pc EXCEPT ![Main] = "check"]
    BY <1>1 DEF SubCallback, Goto
  <2> HIDE DEF h
  <2> QED
    BY <2>1, <2>2, HandMove
<1>2. ASSUME NEW k \in RecvTopics, Receive(k) PROVE HandCustody'
  <2> DEFINE h == [topic |-> k, msg |-> next[k] + 1, gates |-> 1]
  <2>1. h \in Message /\ h.topic = k /\ k # 0 /\ "check" \in Places \cap CarryPlaces
    BY DEF Message, TypeOK, Places, CarryPlaces, Main
  <2>2. hand' = [hand EXCEPT ![k] = h] /\ pc' = [pc EXCEPT ![k] = "check"]
    BY <1>2 DEF Receive, Goto
  <2> HIDE DEF h
  <2> QED
    BY <2>1, <2>2, HandMove
<1>3. ASSUME NEW k \in Limited, SendFuncPop(k) PROVE HandCustody'
  <2> DEFINE h == [topic |-> k, msg |-> Head(queue[k]), gates |-> 1]
  <2>1. Head(queue[k]) \in Nat
    <3>1. queue[k] \in Seq(Nat) /\ queue[k] # <<>>
      BY <1>3 DEF SendFuncPop, TypeOK
    <3> QED
      BY <3>1
  <2>2. h \in Message /\ h.topic = k /\ k # 0 /\ "check" \in Places \cap CarryPlaces
    BY <2>1 DEF Message, Places, CarryPlaces, Main
  <2>3. hand' = [hand EXCEPT ![k] = h] /\ pc' = [pc EXCEPT ![k] = "check"]
    BY <1>3 DEF SendFuncPop, Goto
  <2> HIDE DEF h
  <2> QED
    BY <2>2, <2>3, HandMove
<1>4. ASSUME NEW w \in Workers, ComesToGate(w) PROVE HandCustody'
  BY <1>4 DEF ComesToGate, HandCustody, CarryPlaces, TypeOK, pathVars
<1>5. ASSUME NEW w \in Workers, ConsumeByFault(w) \/ Deliver(w) PROVE HandCustody'
  <2>1. hand' = [hand EXCEPT ![w] = NoMessage] /\ pc' = [pc EXCEPT ![w] = "idle"]
    BY <1>5 DEF ConsumeByFault, Deliver, Goto
  <2>2. "idle" \in Places \ CarryPlaces
    BY DEF Places, CarryPlaces
  <2> QED
    BY <2>1, <2>2, NoMessageType, HandMove
<1>6. ASSUME NEW w \in Workers, PassFaultGate(w) PROVE HandCustody'
  <2>1. PICK place \in {"check", "deliver"} : pc' = [pc EXCEPT ![w] = place]
    BY <1>6 DEF PassFaultGate, Goto
  <2>2. pc[w] \in CarryPlaces /\ place \in CarryPlaces /\ place \in Places
    BY <1>6 DEF PassFaultGate, AtGate, CarryPlaces, Places
  <2>3. \A v \in Workers : hand'[v].topic = hand[v].topic
    BY <1>6, PassKeepsMessage
  <2> QED
    BY <2>1, <2>2, <2>3 DEF HandCustody, TypeOK
<1>7. ASSUME NEW t \in Flushers, RecoveryBegins(t) \/ SwapFaultBuffers(t) \/ RecoveryEnds(t)
      PROVE  HandCustody'
  <2>1. PICK place : /\ pc' = [pc EXCEPT ![t] = place]
                     /\ t # Monitor => pc[t] \in CarryPlaces /\ place \in CarryPlaces
    BY <1>7 DEF RecoveryBegins, BeginRecovery, SwapFaultBuffers, RecoveryEnds, Goto,
                CarryPlaces
  <2>2. UNCHANGED hand
    BY <1>7 DEF RecoveryBegins, SwapFaultBuffers, RecoveryEnds, pathVars
  <2> QED
    BY <2>1, <2>2 DEF HandCustody, TypeOK
<1>8. ASSUME NEW t \in Flushers, ReplayOne(t) PROVE HandCustody'
  BY <1>8 DEF ReplayOne, HandCustody
<1>9. ASSUME NEW t \in {Control, Timer}, Start(t) PROVE HandCustody'
  BY <1>9 DEF Start, Goto, HandCustody, TypeOK, pathVars
<1>10. ASSUME Aside PROVE HandCustody'
  BY <1>10 DEF Aside, HandCustody, pathVars
<1> QED
  BY <1>1, <1>2, <1>3, <1>4, <1>5, <1>6, <1>7, <1>8, <1>9, <1>10, StepMoves

\* Only the queue of a limited topic, or the output of a topic, takes a message.
LEMMA DispatchEffect ==
  ASSUME TypeOK, NEW k \in Topics, NEW m, NEW limited \in BOOLEAN, Dispatch(k, m, limited)
  PROVE  /\ \A j \in Topics : j # k => queue'[j] = queue[j] /\ out'[j] = out[j]
         /\ ~limited => queue' = queue /\ out'[k] = Append(out[k], m)
         /\ limited => out' = out /\ queue'[k] = Enqueue(queue[k], m)
BY DEF Dispatch, TypeOK

\* What one step of a replay does, for the topic k it is at.
LEMMA ReplayEffect ==
  ASSUME TypeOK, NEW t \in Flushers, ReplayOne(t)
  PROVE  /\ pc[t] = "replay"
         /\ UNCHANGED <<faultVars, recovering, buffer, pc, hand, next>>
         /\ \A u \in Flushers : u # t => todo'[u] = todo[u]
         /\ \E k \in Topics :
              /\ todo[t][k] # <<>> /\ todo[t][k] \in Seq(Nat)
              /\ todo'[t][k] = Tail(todo[t][k])
              /\ \A j \in Topics : j # k => /\ todo'[t][j] = todo[t][j]
                                            /\ out'[j] = out[j] /\ queue'[j] = queue[j]
              /\ k \in Limited => out' = out
                                  /\ queue'[k] = Enqueue(queue[k], Head(todo[t][k]))
              /\ k \notin Limited => queue' = queue
                                     /\ out'[k] = Append(out[k], Head(todo[t][k]))
<1>1. PICK k \in Topics :
        /\ todo[t][k] # <<>>
        /\ Dispatch(k, Head(todo[t][k]), k \in Limited)
        /\ todo' = [todo EXCEPT ![t][k] = Tail(todo[t][k])]
  BY DEF ReplayOne
<1>2. todo[t] \in [Topics -> Seq(Nat)]
  BY DEF TypeOK
<1>3. /\ \A u \in Flushers : u # t => todo'[u] = todo[u]
      /\ todo'[t][k] = Tail(todo[t][k])
      /\ \A j \in Topics : j # k => todo'[t][j] = todo[t][j]
  BY <1>1, <1>2 DEF TypeOK
<1>4. CASE k \in Limited
  <2>1. Dispatch(k, Head(todo[t][k]), TRUE)
    BY <1>1, <1>4 DEF Dispatch
  <2>2. /\ \A j \in Topics : j # k => queue'[j] = queue[j] /\ out'[j] = out[j]
        /\ out' = out /\ queue'[k] = Enqueue(queue[k], Head(todo[t][k]))
    BY <2>1, DispatchEffect
  <2> QED
    BY <1>1, <1>2, <1>3, <1>4, <2>2 DEF ReplayOne
<1>5. CASE k \notin Limited
  <2>1. Dispatch(k, Head(todo[t][k]), FALSE)
    BY <1>1, <1>5 DEF Dispatch
  <2>2. /\ \A j \in Topics : j # k => queue'[j] = queue[j] /\ out'[j] = out[j]
        /\ queue' = queue /\ out'[k] = Append(out[k], Head(todo[t][k]))
    BY <2>1, DispatchEffect
  <2> QED
    BY <1>1, <1>2, <1>3, <1>5, <2>2 DEF ReplayOne
<1> QED
  BY <1>4, <1>5

\* The topic of a worker that carries a message, and who that can be.
LEMMA CarrierTopic ==
  ASSUME TypeOK, HandCustody, NEW w \in Workers, pc[w] \in CarryPlaces
  PROVE  /\ hand[w].topic \in Topics
         /\ hand[w].topic = w \/ (w = Main /\ hand[w].topic \in SendTopics)
         /\ hand[w].msg \in Nat
<1>1. hand[w].topic # 0 /\ hand[w].topic \in Topics \cup {0} /\ hand[w].msg \in Nat
  BY DEF HandCustody, TypeOK, Message
<1> QED
  BY <1>1 DEF HandCustody

LEMMA StepStoreCustody ==
  TypeOK /\ Coordination /\ HandCustody /\ StoreCustody /\ [Next]_vars => StoreCustody'
<1> SUFFICES ASSUME TypeOK, Coordination, HandCustody, StoreCustody, [Next]_vars
             PROVE  StoreCustody'
  OBVIOUS
<1> USE ThreadFacts
<1>1. ASSUME NEW k \in SendTopics, SubCallback(k) PROVE StoreCustody'
  BY <1>1 DEF SubCallback, Goto, StoreCustody, TypeOK
<1>2. ASSUME NEW k \in RecvTopics, Receive(k) PROVE StoreCustody'
  BY <1>2 DEF Receive, Goto, StoreCustody, TypeOK
<1>3. ASSUME NEW k \in Limited, SendFuncPop(k) PROVE StoreCustody'
  BY <1>3 DEF SendFuncPop, Goto, StoreCustody, TypeOK, Unlimited
<1>4. ASSUME NEW w \in Workers, ComesToGate(w) PROVE StoreCustody'
  BY <1>4 DEF ComesToGate, StoreCustody, TypeOK, pathVars
<1>5. ASSUME NEW w \in Workers, ConsumeByFault(w) PROVE StoreCustody'
  <2>1. active /\ pc' = [pc EXCEPT ![w] = "idle"] /\ UNCHANGED <<todo, queue>>
    BY <1>5 DEF ConsumeByFault, FaultWindowOpen, Goto
  <2>2. \A t \in Flushers : pc[t] # "replay" /\ pc'[t] # "replay"
    BY <2>1 DEF Coordination, Flushing, TypeOK
  <2> QED
    BY <2>1, <2>2 DEF StoreCustody
<1>6. ASSUME NEW w \in Workers, PassFaultGate(w) PROVE StoreCustody'
  BY <1>6 DEF PassFaultGate, AtGate, Goto, StoreCustody, TypeOK
<1>7. ASSUME NEW w \in Workers, Deliver(w) PROVE StoreCustody'
  <2> DEFINE k == hand[w].topic
  <2>1. k \in Topics /\ pc[w] = "deliver"
    BY <1>7, CarrierTopic DEF Deliver, CarryPlaces
  <2>2. Dispatch(k, hand[w].msg, w = Main /\ k \in Limited)
    BY <1>7 DEF Deliver
  <2>3. \A j \in Unlimited : queue'[j] = queue[j]
    BY <2>1, <2>2, DispatchEffect DEF Unlimited
  <2>4. pc' = [pc EXCEPT ![w] = "idle"] /\ UNCHANGED <<todo, buffer>>
    BY <1>7 DEF Deliver, Goto
  <2> QED
    BY <2>1, <2>3, <2>4 DEF StoreCustody, TypeOK
<1>8. ASSUME NEW t \in Flushers, RecoveryBegins(t) PROVE StoreCustody'
  BY <1>8 DEF RecoveryBegins, BeginRecovery, Goto, StoreCustody, TypeOK, pathVars
<1>9. ASSUME NEW t \in Flushers, SwapFaultBuffers(t) PROVE StoreCustody'
  BY <1>9 DEF SwapFaultBuffers, Goto, StoreCustody, TypeOK, pathVars
<1>10. ASSUME NEW t \in Flushers, ReplayOne(t) PROVE StoreCustody'
  <2>1. \A j \in Unlimited : queue'[j] = queue[j]
    BY <1>10, ReplayEffect DEF Unlimited
  <2> QED
    BY <1>10, <2>1, ReplayEffect DEF StoreCustody
<1>11. ASSUME NEW t \in Flushers, RecoveryEnds(t) PROVE StoreCustody'
  BY <1>11 DEF RecoveryEnds, StoreCustody, TypeOK, pathVars
<1>12. ASSUME NEW t \in {Control, Timer}, Start(t) PROVE StoreCustody'
  <2>1. buffer = EmptyBuffers /\ buffer' = EmptyBuffers
    BY <1>12, StartFindsQuiet DEF Start, StartNodeFault
  <2> QED
    BY <1>12, <2>1 DEF Start, Goto, StoreCustody, TypeOK, pathVars
<1>13. ASSUME Aside PROVE StoreCustody'
  BY <1>13 DEF Aside, StoreCustody, CarryPlaces, pathVars
<1> QED
  BY <1>1, <1>2, <1>3, <1>4, <1>5, <1>6, <1>7, <1>8, <1>9, <1>10, <1>11, <1>12, <1>13,
     StepMoves

\* What a worker does with the message it has brought past its last gate.
LEMMA DeliverEffect ==
  ASSUME TypeOK, HandCustody, NEW w \in Workers, Deliver(w),
         NEW k, k = hand[w].topic
  PROVE  /\ pc[w] = "deliver" /\ pc' = [pc EXCEPT ![w] = "idle"]
         /\ k \in Topics /\ hand[w].msg \in Nat
         /\ UNCHANGED <<faultVars, recovering, buffer, todo, next>>
         /\ hand'[w] = NoMessage /\ \A v \in Workers : v # w => hand'[v] = hand[v]
         /\ \A j \in Topics : j # k => out'[j] = out[j] /\ queue'[j] = queue[j]
         /\ w = Main /\ k \in Limited =>
              out' = out /\ queue'[k] = Enqueue(queue[k], hand[w].msg)
         /\ ~(w = Main /\ k \in Limited) =>
              queue' = queue /\ out'[k] = Append(out[k], hand[w].msg)
<1>1. pc[w] = "deliver" /\ k \in Topics /\ hand[w].msg \in Nat
  BY CarrierTopic DEF Deliver, CarryPlaces
<1>2. /\ pc' = [pc EXCEPT ![w] = "idle"]
      /\ UNCHANGED <<faultVars, recovering, buffer, todo, next>>
      /\ hand'[w] = NoMessage /\ \A v \in Workers : v # w => hand'[v] = hand[v]
  BY DEF Deliver, Goto, TypeOK
<1>3. CASE w = Main /\ k \in Limited
  <2>1. Dispatch(k, hand[w].msg, TRUE)
    BY <1>3 DEF Deliver, Dispatch
  <2> QED
    BY <1>1, <1>2, <1>3, <2>1, DispatchEffect
<1>4. CASE ~(w = Main /\ k \in Limited)
  <2>1. Dispatch(k, hand[w].msg, FALSE)
    BY <1>4 DEF Deliver, Dispatch
  <2> QED
    BY <1>1, <1>2, <1>4, <2>1, DispatchEffect
<1> QED
  BY <1>3, <1>4

\* What the fault does with a message that comes to the gate in the window.
LEMMA ConsumeEffect ==
  ASSUME TypeOK, HandCustody, NEW w \in Workers, ConsumeByFault(w),
         NEW k, k = hand[w].topic
  PROVE  /\ pc[w] = "gate" /\ pc' = [pc EXCEPT ![w] = "idle"]
         /\ k \in Topics /\ hand[w].msg \in Nat /\ FaultWindowOpen /\ ~recovering
         /\ UNCHANGED <<faultVars, recovering, todo, queue, next, out>>
         /\ hand'[w] = NoMessage /\ \A v \in Workers : v # w => hand'[v] = hand[v]
         /\ \A j \in Topics : j # k => buffer'[j] = buffer[j]
         /\ Policy[k] \in Policies
         /\ Policy[k] = "drop" => buffer'[k] = buffer[k]
         /\ Policy[k] = "latest" => buffer'[k] = <<hand[w].msg>>
         /\ Policy[k] = "buffer" => buffer'[k] = Append(buffer[k], hand[w].msg)
<1>1. pc[w] = "gate" /\ k \in Topics /\ hand[w].msg \in Nat
  BY CarrierTopic DEF ConsumeByFault, AtGate, CarryPlaces
<1>2. /\ pc' = [pc EXCEPT ![w] = "idle"]
      /\ UNCHANGED <<faultVars, recovering, todo, queue, next, out>>
      /\ hand'[w] = NoMessage /\ \A v \in Workers : v # w => hand'[v] = hand[v]
      /\ FaultWindowOpen /\ ~recovering
  BY DEF ConsumeByFault, Goto, TypeOK
<1>3. buffer' = [buffer EXCEPT ![k] = ApplyFaultPolicy(Policy[k], buffer[k], hand[w].msg)]
  BY DEF ConsumeByFault
<1>4. Policy[k] \in Policies
  BY <1>1, SimCommAssumption DEF SimCommAssumption
<1>5. /\ \A j \in Topics : j # k => buffer'[j] = buffer[j]
      /\ buffer'[k] = ApplyFaultPolicy(Policy[k], buffer[k], hand[w].msg)
  BY <1>1, <1>3 DEF TypeOK
<1> QED
  BY <1>1, <1>2, <1>4, <1>5 DEF ApplyFaultPolicy

\* A queue that drops its oldest message takes no other in its place.
LEMMA EnqueueSet ==
  ASSUME NEW q \in Seq(Nat), NEW m \in Nat
  PROVE  ToSet(Enqueue(q, m)) \subseteq ToSet(q) \cup {m}
<1>1. CASE Len(q) < QueueCap
  BY <1>1, AppendSet DEF Enqueue
<1>2. CASE ~(Len(q) < QueueCap)
  <2>1. q # <<>>
    BY <1>2, SimCommAssumption DEF SimCommAssumption
  <2>2. Tail(q) \in Seq(Nat) /\ ToSet(Tail(q)) \subseteq ToSet(q)
    BY <2>1, HeadTailSet
  <2> QED
    BY <1>2, <2>2, AppendSet DEF Enqueue
<1> QED
  BY <1>1, <1>2

-----------------------------------------------------------------------------
(* What a step adds to the messages of a topic and what it takes from them. *)

KnownStep(k) ==
  \/ next'[k] = next[k] /\ Known(k)' = Known(k)
  \/ next'[k] = next[k] + 1 /\ Known(k)' = Known(k) \cup {next[k] + 1}
  \/ next'[k] = next[k] /\ Known(k)' \subseteq Known(k) /\ k \in Limited
  \/ next'[k] = next[k] /\ Known(k)' \subseteq Known(k) /\ Policy[k] = "drop"
  \/ /\ next'[k] = next[k] /\ Known(k)' \subseteq Known(k) /\ Policy[k] = "latest"
     /\ \E w \in Workers : hand[w].topic = k /\ hand[w].msg \in Known(k)'

\* What the workers carry changes with one worker at a time.
LEMMA CarriedSame ==
  ASSUME NEW k, \A w \in Workers : \/ hand'[w] = hand[w]
                                   \/ hand[w].topic # k /\ hand'[w].topic # k
                                   \/ /\ hand'[w].topic = hand[w].topic
                                      /\ hand'[w].msg = hand[w].msg
  PROVE  Carried(k)' = Carried(k)
BY DEF Carried, Carriers

LEMMA CarriedTake ==
  ASSUME HandCustody, NEW w \in Workers, pc[w] = "idle", NEW k \in Topics,
         \A v \in Workers : v # w => hand'[v] = hand[v], hand'[w].topic = k
  PROVE  Carried(k)' = Carried(k) \cup {hand'[w].msg}
<1>1. hand[w].topic = 0 /\ 0 \notin Topics
  BY ThreadFacts DEF HandCustody, CarryPlaces, Main
<1>2. /\ Carriers(k)' = Carriers(k) \cup {w} /\ w \notin Carriers(k)
      /\ Carriers(k) \subseteq Workers
  BY <1>1 DEF Carriers
<1> QED
  BY <1>2 DEF Carried

LEMMA CarriedGive ==
  ASSUME NEW w \in Workers, NEW k \in Topics, hand[w].topic = k,
         \A v \in Workers : v # w => hand'[v] = hand[v], hand'[w] = NoMessage
  PROVE  Carried(k) = Carried(k)' \cup {hand[w].msg}
<1>1. hand'[w].topic = 0 /\ 0 \notin Topics
  BY ThreadFacts, NoMessageType DEF Main
<1>2. /\ Carriers(k) = Carriers(k)' \cup {w} /\ w \notin Carriers(k)'
      /\ Carriers(k)' \subseteq Workers
  BY <1>1 DEF Carriers
<1> QED
  BY <1>2 DEF Carried

\* So does what the flushers replay.
LEMMA ReplayedSame ==
  ASSUME NEW k, \A t \in Flushers : todo'[t][k] = todo[t][k]
  PROVE  Replayed(k)' = Replayed(k)
BY DEF Replayed

LEMMA ReplayedAdd ==
  ASSUME NEW k, NEW t \in Flushers, todo[t][k] = <<>>,
         \A u \in Flushers : u # t => todo'[u] = todo[u]
  PROVE  Replayed(k)' = Replayed(k) \cup ToSet(todo'[t][k])
<1>1. ASSUME NEW m PROVE m \in Replayed(k) <=> \E u \in Flushers : m \in ToSet(todo[u][k])
  BY DEF Replayed
<1>2. ASSUME NEW m PROVE m \in Replayed(k)' <=> \E u \in Flushers : m \in ToSet(todo'[u][k])
  BY DEF Replayed
<1>3. \A m : m \in Replayed(k)' <=> m \in Replayed(k) \/ m \in ToSet(todo'[t][k])
  BY <1>1, <1>2, EmptySet
<1> QED
  BY <1>3

LEMMA ReplayedTake ==
  ASSUME NEW k, NEW t \in Flushers, todo[t][k] \in Seq(Nat), todo[t][k] # <<>>,
         todo'[t][k] = Tail(todo[t][k]), \A u \in Flushers : u # t => todo'[u] = todo[u]
  PROVE  Replayed(k) = Replayed(k)' \cup {Head(todo[t][k])}
<1>1. ASSUME NEW m PROVE m \in Replayed(k) <=> \E u \in Flushers : m \in ToSet(todo[u][k])
  BY DEF Replayed
<1>2. ASSUME NEW m PROVE m \in Replayed(k)' <=> \E u \in Flushers : m \in ToSet(todo'[u][k])
  BY DEF Replayed
<1>3. ToSet(todo[t][k]) = {Head(todo[t][k])} \cup ToSet(todo'[t][k])
  BY HeadTailSet
<1>4. \A m : m \in Replayed(k) <=> m \in Replayed(k)' \/ m = Head(todo[t][k])
  BY <1>1, <1>2, <1>3
<1> QED
  BY <1>4

\* A step that leaves every place of a message of topic k as it is.
LEMMA KnownFrame ==
  ASSUME NEW k, next'[k] = next[k], out'[k] = out[k], queue'[k] = queue[k],
         buffer'[k] = buffer[k], Replayed(k)' = Replayed(k), Carried(k)' = Carried(k)
  PROVE  KnownStep(k)
<1>1. Known(k)' = Known(k)
  BY KnownPlaces, KnownPlacesNext
<1> QED
  BY <1>1 DEF KnownStep

LEMMA KnownAccept ==
  ASSUME TypeOK, HandCustody, NEW w \in Workers, pc[w] = "idle", NEW j \in Topics,
         next' = [next EXCEPT ![j] = next[j] + 1],
         hand'[w].topic = j, hand'[w].msg = next[j] + 1,
         \A v \in Workers : v # w => hand'[v] = hand[v],
         UNCHANGED <<buffer, todo, queue, out>>, NEW k \in Topics
  PROVE  KnownStep(k)
<1>1. hand[w].topic = 0 /\ 0 \notin Topics
  BY ThreadFacts DEF HandCustody, CarryPlaces, Main
<1>2. Replayed(k)' = Replayed(k)
  BY ReplayedSame
<1>3. CASE k # j
  <2>1. next'[k] = next[k] /\ Carried(k)' = Carried(k)
    BY <1>1, <1>3, CarriedSame DEF TypeOK
  <2> QED
    BY <1>2, <2>1, KnownFrame
<1>4. CASE k = j
  <2>1. next'[k] = next[k] + 1 /\ Carried(k)' = Carried(k) \cup {next[k] + 1}
    BY <1>4, CarriedTake DEF TypeOK
  <2> QED
    BY <1>2, <2>1, KnownPlaces, KnownPlacesNext DEF KnownStep
<1> QED
  BY <1>3, <1>4

LEMMA KnownPop ==
  ASSUME TypeOK, HandCustody, NEW j \in Limited, SendFuncPop(j), NEW k \in Topics
  PROVE  KnownStep(k)
<1> USE ThreadFacts
<1>1. /\ hand'[j].topic = j /\ hand'[j].msg = Head(queue[j])
      /\ \A v \in Workers : v # j => hand'[v] = hand[v]
      /\ queue'[j] = Tail(queue[j]) /\ \A i \in Topics : i # j => queue'[i] = queue[i]
      /\ UNCHANGED <<buffer, todo, next, out>>
      /\ pc[j] = "idle" /\ queue[j] # <<>> /\ queue[j] \in Seq(Nat)
  BY DEF SendFuncPop, TypeOK
<1>2. hand[j].topic = 0 /\ 0 \notin Topics /\ Replayed(k)' = Replayed(k)
  BY <1>1, ReplayedSame DEF HandCustody, CarryPlaces, Main
<1>3. CASE k # j
  <2>1. Carried(k)' = Carried(k)
    BY <1>1, <1>2, <1>3, CarriedSame
  <2> QED
    BY <1>1, <1>2, <1>3, <2>1, KnownFrame
<1>4. CASE k = j
  <2>1. ToSet(queue[k]) = {Head(queue[k])} \cup ToSet(queue'[k])
    BY <1>1, <1>4, HeadTailSet
  <2>2. Carried(k)' = Carried(k) \cup {Head(queue[k])}
    BY <1>1, <1>4, CarriedTake
  <2> QED
    BY <1>1, <1>2, <2>1, <2>2, KnownPlaces, KnownPlacesNext DEF KnownStep
<1> QED
  BY <1>3, <1>4

LEMMA KnownConsume ==
  ASSUME TypeOK, HandCustody, NEW w \in Workers, ConsumeByFault(w), NEW k \in Topics
  PROVE  KnownStep(k)
<1> DEFINE j == hand[w].topic
           m == hand[w].msg
<1>1. 0 \notin Topics /\ NoMessage.topic = 0 /\ Replayed(k)' = Replayed(k)
  BY ThreadFacts, NoMessageType, ConsumeEffect, ReplayedSame DEF Main
<1>2. CASE k # j
  <2>1. Carried(k)' = Carried(k)
    BY <1>1, <1>2, ConsumeEffect, CarriedSame
  <2> QED
    BY <1>1, <1>2, <2>1, ConsumeEffect, KnownFrame
<1>3. CASE k = j
  <2>1. /\ next'[k] = next[k] /\ out'[k] = out[k] /\ queue'[k] = queue[k]
        /\ m \in Nat /\ buffer[k] \in Seq(Nat)
    BY <1>3, ConsumeEffect DEF TypeOK
  <2>2. Carried(k) = Carried(k)' \cup {m}
    BY <1>3, ConsumeEffect, CarriedGive
  <2>3. CASE Policy[k] = "drop"
    <3>1. buffer'[k] = buffer[k]
      BY <1>3, <2>3, ConsumeEffect
    <3> QED
      BY <1>1, <2>1, <2>2, <2>3, <3>1, KnownPlaces, KnownPlacesNext DEF KnownStep
  <2>4. CASE Policy[k] = "latest"
    <3>1. buffer'[k] = <<m>>
      BY <1>3, <2>4, ConsumeEffect
    <3>2. ToSet(buffer'[k]) = {m}
      BY <3>1, SingletonSet
    <3>3. Known(k)' \subseteq Known(k) /\ m \in Known(k)'
      BY <1>1, <2>1, <2>2, <3>2, KnownPlaces, KnownPlacesNext
    <3> QED
      BY <1>3, <2>1, <2>4, <3>3 DEF KnownStep
  <2>5. CASE Policy[k] = "buffer"
    <3>1. buffer'[k] = Append(buffer[k], m)
      BY <1>3, <2>5, ConsumeEffect
    <3>2. ToSet(buffer'[k]) = ToSet(buffer[k]) \cup {m}
      BY <2>1, <3>1, AppendSet
    <3> QED
      BY <1>1, <2>1, <2>2, <3>2, KnownPlaces, KnownPlacesNext DEF KnownStep
  <2> QED
    BY <1>3, <2>3, <2>4, <2>5, ConsumeEffect DEF Policies
<1> QED
  BY <1>2, <1>3

LEMMA KnownDeliver ==
  ASSUME TypeOK, HandCustody, NEW w \in Workers, Deliver(w), NEW k \in Topics
  PROVE  KnownStep(k)
<1> DEFINE j == hand[w].topic
           m == hand[w].msg
<1>1. 0 \notin Topics /\ NoMessage.topic = 0 /\ Replayed(k)' = Replayed(k)
  BY ThreadFacts, NoMessageType, DeliverEffect, ReplayedSame DEF Main
<1>2. CASE k # j
  <2>1. Carried(k)' = Carried(k)
    BY <1>1, <1>2, DeliverEffect, CarriedSame
  <2> QED
    BY <1>1, <1>2, <2>1, DeliverEffect, KnownFrame
<1>3. CASE k = j
  <2>1. /\ next'[k] = next[k] /\ buffer'[k] = buffer[k] /\ m \in Nat
        /\ out[k] \in Seq(Nat) /\ queue[k] \in Seq(Nat)
    BY <1>3, DeliverEffect DEF TypeOK
  <2>2. Carried(k) = Carried(k)' \cup {m}
    BY <1>3, DeliverEffect, CarriedGive
  <2>3. CASE w = Main /\ k \in Limited
    <3>1. out' = out /\ ToSet(queue'[k]) \subseteq ToSet(queue[k]) \cup {m}
      BY <1>3, <2>1, <2>3, DeliverEffect, EnqueueSet
    <3> QED
      BY <1>1, <2>1, <2>2, <2>3, <3>1, KnownPlaces, KnownPlacesNext DEF KnownStep
  <2>4. CASE ~(w = Main /\ k \in Limited)
    <3>1. queue' = queue /\ out'[k] = Append(out[k], m)
      BY <1>3, <2>4, DeliverEffect
    <3>2. ToSet(out'[k]) = ToSet(out[k]) \cup {m}
      BY <2>1, <3>1, AppendSet
    <3> QED
      BY <1>1, <2>1, <2>2, <3>1, <3>2, KnownPlaces, KnownPlacesNext DEF KnownStep
  <2> QED
    BY <2>3, <2>4
<1> QED
  BY <1>2, <1>3

LEMMA KnownSwap ==
  ASSUME TypeOK, StoreCustody, NEW t \in Flushers, SwapFaultBuffers(t), NEW k \in Topics
  PROVE  KnownStep(k)
<1>1. /\ todo[t][k] = <<>> /\ buffer'[k] = <<>> /\ todo'[t][k] = buffer[k]
      /\ \A u \in Flushers : u # t => todo'[u] = todo[u]
  BY DEF SwapFaultBuffers, StoreCustody, EmptyBuffers, TypeOK
<1>2. UNCHANGED <<queue, out, next>> /\ Carried(k)' = Carried(k)
  BY CarriedSame DEF SwapFaultBuffers, pathVars
<1>3. Replayed(k)' = Replayed(k) \cup ToSet(buffer[k])
  BY <1>1, ReplayedAdd
<1> QED
  BY <1>1, <1>2, <1>3, EmptySet, KnownPlaces, KnownPlacesNext DEF KnownStep

LEMMA KnownReplay ==
  ASSUME TypeOK, NEW t \in Flushers, ReplayOne(t), NEW k \in Topics
  PROVE  KnownStep(k)
<1>1. PICK j \in Topics :
        /\ todo[t][j] # <<>> /\ todo[t][j] \in Seq(Nat)
        /\ todo'[t][j] = Tail(todo[t][j])
        /\ \A i \in Topics : i # j => /\ todo'[t][i] = todo[t][i]
                                      /\ out'[i] = out[i] /\ queue'[i] = queue[i]
        /\ j \in Limited => out' = out /\ queue'[j] = Enqueue(queue[j], Head(todo[t][j]))
        /\ j \notin Limited => queue' = queue /\ out'[j] = Append(out[j], Head(todo[t][j]))
  BY ReplayEffect
<1>2. /\ UNCHANGED <<buffer, hand, next>>
      /\ \A u \in Flushers : u # t => todo'[u] = todo[u]
  BY ReplayEffect
<1>3. Carried(k)' = Carried(k)
  BY <1>2, CarriedSame
<1>4. CASE k # j
  <2>1. Replayed(k)' = Replayed(k)
    BY <1>1, <1>2, <1>4, ReplayedSame
  <2> QED
    BY <1>1, <1>2, <1>3, <1>4, <2>1, KnownFrame
<1>5. CASE k = j
  <2> DEFINE m == Head(todo[t][k])
  <2>1. Replayed(k) = Replayed(k)' \cup {m}
    BY <1>1, <1>2, <1>5, ReplayedTake
  <2>2. m \in Nat /\ queue[k] \in Seq(Nat) /\ out[k] \in Seq(Nat)
    BY <1>1, <1>5, HeadTailSet DEF TypeOK
  <2>3. CASE k \in Limited
    <3>1. out' = out /\ queue'[k] = Enqueue(queue[k], m)
      BY <1>1, <1>5, <2>3
    <3>2. ToSet(queue'[k]) \subseteq ToSet(queue[k]) \cup {m}
      BY <2>2, <3>1, EnqueueSet
    <3> QED
      BY <1>2, <1>3, <2>1, <2>3, <3>1, <3>2, KnownPlaces, KnownPlacesNext DEF KnownStep
  <2>4. CASE k \notin Limited
    <3>1. queue' = queue /\ out'[k] = Append(out[k], m)
      BY <1>1, <1>5, <2>4
    <3>2. ToSet(out'[k]) = ToSet(out[k]) \cup {m}
      BY <2>2, <3>1, AppendSet
    <3> QED
      BY <1>2, <1>3, <2>1, <3>1, <3>2, KnownPlaces, KnownPlacesNext DEF KnownStep
  <2> QED
    BY <2>3, <2>4
<1> QED
  BY <1>4, <1>5

\* A step with the fault buffers of the flags alone: nothing changes for a message.
LEMMA KnownQuiet ==
  ASSUME UNCHANGED <<buffer, todo, pathVars>>, NEW k
  PROVE  KnownStep(k)
<1>1. Carried(k)' = Carried(k) /\ Replayed(k)' = Replayed(k)
  BY CarriedSame, ReplayedSame DEF pathVars
<1> QED
  BY <1>1, KnownFrame DEF pathVars

LEMMA StepKnown ==
  ASSUME TypeOK, Coordination, HandCustody, StoreCustody, [Next]_vars, NEW k \in Topics
  PROVE  KnownStep(k)
<1> USE ThreadFacts
<1>1. ASSUME NEW j \in SendTopics, SubCallback(j) PROVE KnownStep(k)
  <2>1. /\ pc[Main] = "idle" /\ next' = [next EXCEPT ![j] = next[j] + 1]
        /\ hand'[Main].topic = j /\ hand'[Main].msg = next[j] + 1
        /\ \A v \in Workers : v # Main => hand'[v] = hand[v]
        /\ UNCHANGED <<buffer, todo, queue, out>>
    BY <1>1 DEF SubCallback, TypeOK
  <2> QED
    BY <2>1, KnownAccept
<1>2. ASSUME NEW j \in RecvTopics, Receive(j) PROVE KnownStep(k)
  <2>1. /\ pc[j] = "idle" /\ next' = [next EXCEPT ![j] = next[j] + 1]
        /\ hand'[j].topic = j /\ hand'[j].msg = next[j] + 1
        /\ \A v \in Workers : v # j => hand'[v] = hand[v]
        /\ UNCHANGED <<buffer, todo, queue, out>>
    BY <1>2 DEF Receive, TypeOK
  <2> QED
    BY <2>1, KnownAccept
<1>3. ASSUME NEW w \in Workers, PassFaultGate(w) PROVE KnownStep(k)
  <2>1. UNCHANGED <<buffer, todo, queue, next, out>>
    BY <1>3 DEF PassFaultGate
  <2>2. Carried(k)' = Carried(k) /\ Replayed(k)' = Replayed(k)
    BY <1>3, <2>1, PassKeepsMessage, CarriedSame, ReplayedSame
  <2> QED
    BY <2>1, <2>2, KnownFrame
<1>4. ASSUME NEW w \in Workers, ComesToGate(w) PROVE KnownStep(k)
  BY <1>4, KnownQuiet DEF ComesToGate
<1>5. ASSUME NEW t \in Flushers, RecoveryBegins(t) \/ RecoveryEnds(t) PROVE KnownStep(k)
  BY <1>5, KnownQuiet DEF RecoveryBegins, RecoveryEnds
<1>6. ASSUME NEW t \in {Control, Timer}, Start(t) PROVE KnownStep(k)
  <2>1. buffer' = buffer /\ UNCHANGED <<todo, pathVars>>
    BY <1>6, StartFindsQuiet DEF Start, StartNodeFault
  <2> QED
    BY <2>1, KnownQuiet
<1>7. ASSUME Aside PROVE KnownStep(k)
  BY <1>7, KnownQuiet DEF Aside
<1> QED
  BY <1>1, <1>2, <1>3, <1>4, <1>5, <1>6, <1>7, KnownPop, KnownConsume, KnownDeliver,
     KnownSwap, KnownReplay, StepMoves

-----------------------------------------------------------------------------
(* What is lost. *)

\* Messages come from their topic, and a worker of a topic without limit carries the
\* newest one: its topic accepts no other before it is done with it.
KnownBound == \A k \in Topics : Known(k) \subseteq 1..next[k]
CarriedNewest == \A k \in Unlimited, w \in Workers : hand[w].topic = k => hand[w].msg = next[k]
LatestKept == \A k \in Unlimited : Policy[k] = "latest" /\ next[k] > 0 => next[k] \in Known(k)

MessageInv ==
  /\ HandCustody /\ StoreCustody
  /\ KnownBound /\ CarriedNewest
  /\ BufferLosesNothing /\ LatestKept

LEMMA InitMessages == Init => MessageInv
<1> SUFFICES ASSUME Init PROVE MessageInv
  OBVIOUS
<1>1. HandCustody /\ StoreCustody
  BY InitCustody
<1>2. \A w \in Workers : hand[w].topic \notin Topics
  BY ThreadFacts DEF Init, NoMessage, Main
<1>3. ASSUME NEW k \in Topics PROVE next[k] = 0 /\ Known(k) = {}
  <2>1. Carried(k) = {}
    BY <1>2 DEF Carried, Carriers
  <2>2. /\ \A t \in Flushers : todo[t][k] = <<>>
        /\ next[k] = 0 /\ out[k] = <<>> /\ queue[k] = <<>> /\ buffer[k] = <<>>
    BY DEF Init, EmptyBuffers
  <2>3. Replayed(k) = {}
    BY <2>2, EmptySet DEF Replayed
  <2> QED
    BY <2>1, <2>2, <2>3, EmptySet, KnownPlaces
<1>4. KnownBound /\ LatestKept /\ CarriedNewest
  BY <1>2, <1>3 DEF KnownBound, CarriedNewest, LatestKept, Unlimited
<1>5. BufferLosesNothing
  <2>1. \A k \in Topics : 1..next[k] = {}
    BY <1>3
  <2> QED
    BY <1>3, <2>1 DEF BufferLosesNothing
<1> QED
  BY <1>1, <1>4, <1>5 DEF MessageInv

LEMMA StepCarriedNewest ==
  ASSUME TypeOK, HandCustody, StoreCustody, CarriedNewest, [Next]_vars
  PROVE  CarriedNewest'
<1> USE ThreadFacts
<1>1. ASSUME NEW j \in SendTopics, SubCallback(j) PROVE CarriedNewest'
  <2>1. /\ next'[j] = next[j] + 1 /\ \A k \in Topics : k # j => next'[k] = next[k]
        /\ hand'[Main].topic = j /\ hand'[Main].msg = next[j] + 1
        /\ \A v \in Workers : v # Main => hand'[v] = hand[v]
    BY <1>1 DEF SubCallback, TypeOK
  <2>2. \A v \in Workers : v # Main /\ hand[v].topic = j => j \in Limited
    BY TopicFacts DEF HandCustody
  <2> QED
    BY <2>1, <2>2 DEF CarriedNewest, Unlimited
<1>2. ASSUME NEW j \in RecvTopics, Receive(j) PROVE CarriedNewest'
  <2>1. /\ next'[j] = next[j] + 1 /\ \A k \in Topics : k # j => next'[k] = next[k]
        /\ hand'[j].topic = j /\ hand'[j].msg = next[j] + 1
        /\ \A v \in Workers : v # j => hand'[v] = hand[v]
    BY <1>2 DEF Receive, TypeOK
  <2>2. \A v \in Workers : v # j => hand[v].topic # j
    BY TopicFacts DEF HandCustody
  <2> QED
    BY <2>1, <2>2 DEF CarriedNewest, Unlimited
<1>3. ASSUME NEW j \in Limited, SendFuncPop(j) PROVE CarriedNewest'
  BY <1>3 DEF SendFuncPop, CarriedNewest, Unlimited, TypeOK
<1>4. ASSUME NEW w \in Workers, ConsumeByFault(w) \/ Deliver(w) PROVE CarriedNewest'
  <2>1. /\ next' = next /\ hand' = [hand EXCEPT ![w] = NoMessage]
    BY <1>4 DEF ConsumeByFault, Deliver
  <2>2. \A v \in Workers : hand'[v] = hand[v] \/ hand'[v].topic = 0
    BY <2>1, NoMessageType DEF TypeOK
  <2> QED
    BY <2>1, <2>2 DEF CarriedNewest, Unlimited, Main
<1>5. ASSUME NEW w \in Workers, PassFaultGate(w) PROVE CarriedNewest'
  <2>1. next' = next
    BY <1>5 DEF PassFaultGate
  <2> QED
    BY <1>5, <2>1, PassKeepsMessage DEF CarriedNewest
<1>6. ASSUME UNCHANGED <<hand, next>> PROVE CarriedNewest'
  BY <1>6 DEF CarriedNewest
<1>7. ASSUME NEW w \in Workers, ComesToGate(w) PROVE CarriedNewest'
  BY <1>6, <1>7 DEF ComesToGate, pathVars
<1>8. ASSUME NEW t \in Flushers, \/ RecoveryBegins(t) \/ SwapFaultBuffers(t)
                                 \/ ReplayOne(t) \/ RecoveryEnds(t)
      PROVE  CarriedNewest'
  BY <1>6, <1>8 DEF RecoveryBegins, SwapFaultBuffers, ReplayOne, RecoveryEnds, pathVars
<1>9. ASSUME Aside \/ \E t \in {Control, Timer} : Start(t) PROVE CarriedNewest'
  BY <1>6, <1>9 DEF Aside, Start, pathVars
<1> QED
  BY <1>1, <1>2, <1>3, <1>4, <1>5, <1>7, <1>8, <1>9, StepMoves

LEMMA StepMessages ==
  TypeOK /\ Coordination /\ MessageInv /\ [Next]_vars => MessageInv'
<1> SUFFICES ASSUME TypeOK, Coordination, MessageInv, [Next]_vars PROVE MessageInv'
  OBVIOUS
<1>1. HandCustody' /\ StoreCustody' /\ CarriedNewest'
  BY StepHandCustody, StepStoreCustody, StepCarriedNewest DEF MessageInv
<1>2. ASSUME NEW k \in Topics PROVE KnownStep(k)
  BY <1>2, StepKnown DEF MessageInv
<1>3. \A k \in Topics : next[k] \in Nat
  BY DEF TypeOK
<1>4. KnownBound'
  <2> SUFFICES ASSUME NEW k \in Topics PROVE Known(k)' \subseteq 1..next'[k]
    BY DEF KnownBound
  <2>1. Known(k) \subseteq 1..next[k]
    BY DEF MessageInv, KnownBound
  <2> QED
    BY <1>2, <1>3, <2>1 DEF KnownStep
<1>5. BufferLosesNothing'
  <2> SUFFICES ASSUME NEW k \in Topics \ Limited, Policy[k] = "buffer"
               PROVE  Known(k)' = 1..next'[k]
    BY DEF BufferLosesNothing
  <2>1. Known(k) = 1..next[k]
    BY DEF MessageInv, BufferLosesNothing
  <2>2. 1..(next[k] + 1) = (1..next[k]) \cup {next[k] + 1}
    BY <1>3
  <2> QED
    BY <1>2, <2>1, <2>2 DEF KnownStep
<1>6. LatestKept'
  <2> SUFFICES ASSUME NEW k \in Unlimited, Policy[k] = "latest", next'[k] > 0
               PROVE  next'[k] \in Known(k)'
    BY DEF LatestKept
  <2>1. k \in Topics /\ k \notin Limited
    BY DEF Unlimited
  <2>2. next[k] > 0 => next[k] \in Known(k)
    BY DEF MessageInv, LatestKept
  <2>3. \A w \in Workers : hand[w].topic = k => hand[w].msg = next[k]
    BY DEF MessageInv, CarriedNewest
  <2> QED
    BY <1>2, <2>1, <2>2, <2>3 DEF KnownStep
<1> QED
  BY <1>1, <1>4, <1>5, <1>6 DEF MessageInv

\* What BufferLosesNothing rests on, made inductive, whatever the policies: which thread
\* holds which message, and where the messages held back are while nobody replays them.
THEOREM MessagesHold == ~ScheduledFault => (Spec => []MessageInv)
<1> SUFFICES ASSUME ~ScheduledFault PROVE Spec => []MessageInv
  OBVIOUS
<1> QED
  BY InitMessages, StepMessages, TypeCorrect, CoordinationHolds, PTL DEF Spec

\* On a topic without limit, "buffer" loses nothing whatever faults come.
THEOREM BufferKeepsAll == ~ScheduledFault => (Spec => []BufferLosesNothing)
<1> SUFFICES ASSUME ~ScheduledFault PROVE Spec => []BufferLosesNothing
  OBVIOUS
<1>1. MessageInv => BufferLosesNothing
  BY DEF MessageInv
<1> QED
  BY <1>1, MessagesHold, PTL

\* If no topic is limited, "latest" keeps the newest message of every topic; the limit
\* is needed, as the run of LimitedLatest.cfg shows.
THEOREM LatestKeepsTheNewest ==
  ~ScheduledFault /\ Limited = {} => (Spec => []LatestKeepsNewest)
<1> SUFFICES ASSUME ~ScheduledFault, Limited = {} PROVE Spec => []LatestKeepsNewest
  OBVIOUS
<1>1. MessageInv => LatestKeepsNewest
  BY DEF MessageInv, LatestKept, LatestKeepsNewest, Unlimited
<1> QED
  BY <1>1, MessagesHold, PTL

-----------------------------------------------------------------------------
(* What leaks. *)

\* While the window is open, neither what is out nor what is past the last gate has
\* been accepted since it opened.
NothingLeaks ==
  FaultWindowOpen =>
    /\ \A k \in Topics : \A m \in ToSet(out[k]) : m <= since[k]
    /\ \A w \in Workers : pc[w] = "deliver" => hand[w].msg <= since[hand[w].topic]

LEMMA InitLeaks == Init => NothingLeaks
BY DEF Init, NothingLeaks, FaultWindowOpen

LEMMA StepLeaks ==
  TypeOK /\ Coordination /\ MessageInv /\ NothingLeaks /\ [Next]_vars => NothingLeaks'
<1> SUFFICES ASSUME TypeOK, Coordination, MessageInv, NothingLeaks, [Next]_vars,
                    FaultWindowOpen'
             PROVE  /\ \A k \in Topics : \A m \in ToSet(out'[k]) : m <= since'[k]
                    /\ \A w \in Workers : pc'[w] = "deliver"
                         => hand'[w].msg <= since'[hand'[w].topic]
  BY DEF NothingLeaks
<1> DEFINE Goal == /\ \A k \in Topics : \A m \in ToSet(out'[k]) : m <= since'[k]
                   /\ \A w \in Workers : pc'[w] = "deliver"
                        => hand'[w].msg <= since'[hand'[w].topic]
<1> USE ThreadFacts
<1>1. ASSUME UNCHANGED <<faultVars, out>>,
             \A w \in Workers : pc'[w] = "deliver" => pc[w] = "deliver" /\ hand'[w] = hand[w]
      PROVE  Goal
  BY <1>1 DEF NothingLeaks, FaultWindowOpen, faultVars
<1>2. ASSUME NEW k \in SendTopics, SubCallback(k) PROVE Goal
  BY <1>1, <1>2 DEF SubCallback, Goto, TypeOK
<1>3. ASSUME NEW k \in RecvTopics, Receive(k) PROVE Goal
  BY <1>1, <1>3 DEF Receive, Goto, TypeOK
<1>4. ASSUME NEW k \in Limited, SendFuncPop(k) PROVE Goal
  BY <1>1, <1>4 DEF SendFuncPop, Goto, TypeOK
<1>5. ASSUME NEW w \in Workers, ComesToGate(w) PROVE Goal
  BY <1>1, <1>5 DEF ComesToGate, TypeOK, pathVars
<1>6. ASSUME NEW w \in Workers, ConsumeByFault(w) PROVE Goal
  BY <1>1, <1>6 DEF ConsumeByFault, Goto, TypeOK
<1>7. ASSUME NEW w \in Workers, PassFaultGate(w) PROVE Goal
  BY <1>7 DEF PassFaultGate, FaultWindowOpen, faultVars
<1>8. ASSUME NEW w \in Workers, Deliver(w) PROVE Goal
  <2> DEFINE k == hand[w].topic
             m == hand[w].msg
  <2>1. /\ pc' = [pc EXCEPT ![w] = "idle"] /\ pc[w] = "deliver" /\ k \in Topics
        /\ UNCHANGED faultVars /\ m \in Nat
        /\ \A v \in Workers : v # w => hand'[v] = hand[v]
        /\ \A j \in Topics : j # k => out'[j] = out[j]
        /\ out'[k] = out[k] \/ out'[k] = Append(out[k], m)
    BY <1>8, DeliverEffect DEF MessageInv
  <2>2. FaultWindowOpen /\ since' = since
    BY <2>1 DEF FaultWindowOpen, faultVars
  <2>3. m <= since[k]
    BY <2>1, <2>2 DEF NothingLeaks
  <2>4. ToSet(out'[k]) \subseteq ToSet(out[k]) \cup {m}
    <3>1. out[k] \in Seq(Nat) /\ m \in Nat
      BY <2>1 DEF TypeOK
    <3>2. ToSet(Append(out[k], m)) = ToSet(out[k]) \cup {m}
      BY <3>1, AppendSet
    <3> QED
      BY <2>1, <3>2
  <2>5. \A j \in Topics : \A n \in ToSet(out'[j]) : n <= since'[j]
    BY <2>1, <2>2, <2>3, <2>4 DEF NothingLeaks
  <2>6. \A v \in Workers : pc'[v] = "deliver" => hand'[v].msg <= since'[hand'[v].topic]
    BY <2>1, <2>2 DEF NothingLeaks, TypeOK
  <2> QED
    BY <2>5, <2>6
<1>9. ASSUME NEW t \in Flushers, RecoveryBegins(t) PROVE Goal
  BY <1>9 DEF RecoveryBegins, BeginRecovery, FaultWindowOpen
<1>10. ASSUME NEW t \in Flushers, SwapFaultBuffers(t) PROVE Goal
  BY <1>1, <1>10 DEF SwapFaultBuffers, Goto, TypeOK, pathVars
<1>11. ASSUME NEW t \in Flushers, ReplayOne(t) PROVE Goal
  <2>1. Flushing(t) /\ active
    BY <1>11 DEF ReplayOne, Flushing, FaultWindowOpen, faultVars
  <2> QED
    BY <2>1 DEF Coordination
<1>12. ASSUME NEW t \in Flushers, RecoveryEnds(t) PROVE Goal
  BY <1>1, <1>12 DEF RecoveryEnds, CarryPlaces, TypeOK, pathVars
<1>13. ASSUME NEW t \in {Control, Timer}, Start(t) PROVE Goal
  <2>1. /\ pc' = [pc EXCEPT ![t] = IF running THEN "notifyOne" ELSE "started"]
        /\ UNCHANGED pathVars
    BY <1>13 DEF Start, Goto
  <2>2. \A w \in Workers : pc'[w] = pc[w]
    BY <2>1 DEF TypeOK
  <2>3. CASE ~running
    BY <1>1, <1>13, <2>1, <2>2, <2>3 DEF Start, StartNodeFault, faultVars, pathVars
  <2>4. CASE running
    <3>1. since' = next /\ UNCHANGED <<hand, out>>
      BY <1>13, <2>1, <2>4 DEF Start, StartNodeFault, pathVars
    <3>2. \A k \in Topics : \A m \in Known(k) : m <= next[k]
      BY DEF MessageInv, KnownBound, TypeOK
    <3>3. \A k \in Topics : \A m \in ToSet(out[k]) : m <= next[k]
      BY <3>2, KnownPlaces
    <3>4. \A w \in Workers : pc[w] = "deliver" => hand[w].msg <= next[hand[w].topic]
      <4> SUFFICES ASSUME NEW w \in Workers, pc[w] = "deliver"
                   PROVE  hand[w].msg <= next[hand[w].topic]
        OBVIOUS
      <4>1. hand[w].topic \in Topics
        BY CarrierTopic DEF MessageInv, CarryPlaces
      <4>2. hand[w].msg \in Carried(hand[w].topic)
        BY DEF Carried, Carriers
      <4> QED
        BY <3>2, <4>1, <4>2, KnownPlaces
    <3> QED
      BY <2>2, <3>1, <3>3, <3>4
  <2> QED
    BY <2>3, <2>4
<1>14. ASSUME Aside PROVE Goal
  <2>1. FaultWindowOpen /\ UNCHANGED <<since, out, hand>>
    BY <1>14 DEF Aside, FaultWindowOpen, pathVars
  <2>2. \A w \in Workers : pc'[w] = "deliver" => pc[w] = "deliver"
    BY <1>14 DEF Aside, CarryPlaces
  <2> QED
    BY <2>1, <2>2 DEF NothingLeaks
<1> HIDE DEF Goal
<1>15. Goal
  BY <1>2, <1>3, <1>4, <1>5, <1>6, <1>7, <1>8, <1>9, <1>10, <1>11, <1>12, <1>13, <1>14,
     StepMoves
<1> QED
  BY <1>15 DEF Goal

\* No message accepted since the window opened gets out before it closes.
THEOREM NothingLeaksOut == ~ScheduledFault => (Spec => []NoLeak)
<1> SUFFICES ASSUME ~ScheduledFault PROVE Spec => []NoLeak
  OBVIOUS
<1>1. NothingLeaks => NoLeak
  BY ToSetDef DEF NothingLeaks, NoLeak
<1> QED
  BY <1>1, InitLeaks, StepLeaks, MessagesHold, TypeCorrect, CoordinationHolds, PTL DEF Spec

-----------------------------------------------------------------------------
(* The second gate of the spin thread, and the sockets. *)

\* What the spin thread knows of its topic k, if that has no limit, on the way from its
\* first gate to ZMQ: the fault holds nothing of k unless a recovery is on, and past the
\* second gate nobody has anything of k to replay either.
GateKept ==
  \A k \in SendTopics \ Limited : hand[Main].topic = k =>
    /\ pc[Main] = "check" /\ hand[Main].gates = 1 /\ FaultWindowOpen => buffer[k] = <<>>
    /\ pc[Main] = "gate" /\ hand[Main].gates = 1 /\ ~recovering => buffer[k] = <<>>
    /\ pc[Main] = "notify" => buffer[k] = <<>>
    /\ pc[Main] = "deliver" => buffer[k] = <<>> /\ \A t \in Flushers : todo[t][k] = <<>>

\* While the spin thread carries a message the module runs; without fault and recovery
\* the buffers are empty, and without recovery nobody has anything to replay.
LEMMA CarrierRuns ==
  ASSUME Coordination, pc[Main] \in CarryPlaces
  PROVE  running
BY DEF Coordination, StopOrder, CarryPlaces

LEMMA QuietBuffers ==
  ASSUME TypeOK, Coordination, StoreCustody, running, ~recovering
  PROVE  /\ \A t \in Flushers : ~Flushing(t) /\ todo[t] = EmptyBuffers
         /\ ~active => buffer = EmptyBuffers
<1>1. \A t \in Flushers : ~Flushing(t)
  BY DEF Coordination, SingleFlusher
<1>2. \A t \in Flushers : pc[t] # "swap" /\ pc[t] # "replay"
  BY <1>1 DEF Flushing
<1> QED
  BY <1>1, <1>2 DEF Coordination, BufferGuarded, StoreCustody

LEMMA InitGate == Init => GateKept
BY TopicFacts, ThreadFacts DEF Init, GateKept, NoMessage

LEMMA StepGate ==
  TypeOK /\ Coordination /\ MessageInv /\ GateKept /\ [Next]_vars => GateKept'
<1> SUFFICES ASSUME TypeOK, Coordination, MessageInv, GateKept, [Next]_vars,
                    NEW k \in SendTopics \ Limited, hand'[Main].topic = k
             PROVE  /\ pc'[Main] = "check" /\ hand'[Main].gates = 1 /\ FaultWindowOpen'
                         => buffer'[k] = <<>>
                    /\ pc'[Main] = "gate" /\ hand'[Main].gates = 1 /\ ~recovering'
                         => buffer'[k] = <<>>
                    /\ pc'[Main] = "notify" => buffer'[k] = <<>>
                    /\ pc'[Main] = "deliver"
                         => buffer'[k] = <<>> /\ \A t \in Flushers : todo'[t][k] = <<>>
  BY DEF GateKept
<1> DEFINE Goal ==
             /\ pc'[Main] = "check" /\ hand'[Main].gates = 1 /\ FaultWindowOpen'
                  => buffer'[k] = <<>>
             /\ pc'[Main] = "gate" /\ hand'[Main].gates = 1 /\ ~recovering'
                  => buffer'[k] = <<>>
             /\ pc'[Main] = "notify" => buffer'[k] = <<>>
             /\ pc'[Main] = "deliver"
                  => buffer'[k] = <<>> /\ \A t \in Flushers : todo'[t][k] = <<>>
<1> USE ThreadFacts
<1>0. k \in Topics /\ k # 0
  BY TopicFacts
\* Steps of others that leave the flags, the buffer and the replay of k alone.
<1>1. ASSUME pc'[Main] = pc[Main], hand'[Main] = hand[Main],
             FaultWindowOpen' => FaultWindowOpen, recovering' = recovering,
             buffer'[k] = buffer[k], \A t \in Flushers : todo'[t][k] = todo[t][k]
      PROVE  Goal
  BY <1>1 DEF GateKept
<1>2. ASSUME NEW j \in SendTopics, SubCallback(j) PROVE Goal
  <2>1. pc'[Main] = "check" /\ hand'[Main].topic = j
        /\ hand'[Main].gates = IF j \in Limited THEN 1 ELSE 2
    BY <1>2 DEF SubCallback, Goto, TypeOK
  <2>2. hand'[Main].gates = 2
    BY <2>1
  <2> QED
    BY <2>1, <2>2
<1>3. ASSUME NEW j \in RecvTopics, Receive(j) PROVE Goal
  <2>1. j # Main
    OBVIOUS
  <2> QED
    BY <1>1, <1>3, <2>1 DEF Receive, Goto, TypeOK, FaultWindowOpen, faultVars
<1>4. ASSUME NEW j \in Limited, SendFuncPop(j) PROVE Goal
  <2>1. j # Main
    OBVIOUS
  <2> QED
    BY <1>1, <1>4, <2>1 DEF SendFuncPop, Goto, TypeOK, FaultWindowOpen, faultVars
<1>5. ASSUME NEW w \in Workers, ComesToGate(w) PROVE Goal
  <2>1. /\ pc' = [pc EXCEPT ![w] = "gate"]
        /\ UNCHANGED <<active, expired, recovering, buffer, todo, hand>>
    BY <1>5 DEF ComesToGate, faultVars, pathVars
  <2>2. CASE w # Main
    BY <1>1, <2>1, <2>2 DEF TypeOK, FaultWindowOpen
  <2>3. CASE w = Main
    <3>1. pc'[Main] = "gate" /\ pc[Main] \in CarryPlaces
      BY <1>5, <2>1, <2>3 DEF ComesToGate, CarryPlaces, TypeOK
    <3>2. ASSUME hand'[Main].gates = 1, ~recovering PROVE buffer[k] = <<>>
      <4>1. CASE pc[Main] = "notify"
        BY <2>1, <4>1 DEF GateKept
      <4>2. CASE pc[Main] = "check" /\ FaultWindowOpen
        BY <2>1, <3>2, <4>2 DEF GateKept
      <4>3. CASE ~active
        <5>1. buffer = EmptyBuffers
          BY <3>1, <3>2, <4>3, CarrierRuns, QuietBuffers DEF MessageInv
        <5> QED
          BY <1>0, <5>1 DEF EmptyBuffers
      <4> QED
        BY <1>5, <2>3, <4>1, <4>2, <4>3
        DEF ComesToGate, FaultExpired, FaultWindowOpen
    <3> QED
      BY <2>1, <3>1, <3>2
  <2> QED
    BY <2>2, <2>3
<1>6. ASSUME NEW w \in Workers, ConsumeByFault(w) PROVE Goal
  <2> DEFINE j == hand[w].topic
  <2>1. /\ pc' = [pc EXCEPT ![w] = "idle"] /\ pc[w] = "gate"
        /\ UNCHANGED <<faultVars, recovering, todo>>
        /\ hand'[w] = NoMessage /\ \A v \in Workers : v # w => hand'[v] = hand[v]
        /\ \A i \in Topics : i # j => buffer'[i] = buffer[i]
    BY <1>6, ConsumeEffect DEF MessageInv
  <2>2. w # Main
    BY <1>0, <2>1, NoMessageType
  <2>3. pc[w] \in CarryPlaces /\ HandCustody
    BY <2>1 DEF MessageInv, CarryPlaces
  <2>4. j = w /\ w # k
    BY <2>2, <2>3, CarrierTopic, TopicFacts
  <2> QED
    BY <1>0, <1>1, <2>1, <2>2, <2>4 DEF TypeOK, FaultWindowOpen, faultVars
<1>7. ASSUME NEW w \in Workers, PassFaultGate(w) PROVE Goal
  <2>1. /\ UNCHANGED <<active, expired, recovering, buffer, todo>> /\ ~recovering
        /\ ~FaultWindowOpen
        /\ IF hand[w].gates = 2 THEN pc' = [pc EXCEPT ![w] = "check"]
                                ELSE pc' = [pc EXCEPT ![w] = "deliver"] /\ hand' = hand
    BY <1>7 DEF PassFaultGate, Goto, faultVars
  <2>2. CASE w # Main
    <3>1. hand'[Main] = hand[Main] /\ pc'[Main] = pc[Main]
      BY <1>7, <2>2 DEF PassFaultGate, Goto, TypeOK
    <3> QED
      BY <1>1, <2>1, <3>1 DEF FaultWindowOpen
  <2>3. CASE w = Main
    <3>1. CASE hand[Main].gates = 2
      <4>1. pc'[Main] = "check" /\ ~FaultWindowOpen'
        BY <2>1, <2>3, <3>1 DEF TypeOK, FaultWindowOpen
      <4> QED
        BY <4>1
    <3>2. CASE hand[Main].gates # 2
      <4>1. pc'[Main] = "deliver" /\ hand' = hand
        BY <2>1, <2>3, <3>2 DEF TypeOK
      <4>2. hand[Main].gates = 1 /\ pc[Main] = "gate" /\ pc[Main] \in CarryPlaces
        BY <1>7, <2>3, <3>2 DEF TypeOK, Message, PassFaultGate, AtGate, CarryPlaces
      <4>3. buffer[k] = <<>>
        BY <2>1, <4>1, <4>2 DEF GateKept
      <4>4. \A t \in Flushers : todo[t] = EmptyBuffers
        BY <2>1, <4>2, CarrierRuns, QuietBuffers DEF MessageInv
      <4>5. \A t \in Flushers : todo'[t][k] = <<>>
        BY <1>0, <2>1, <4>4 DEF EmptyBuffers
      <4> QED
        BY <2>1, <4>1, <4>3, <4>5
    <3> QED
      BY <3>1, <3>2
  <2> QED
    BY <2>2, <2>3
<1>8. ASSUME NEW w \in Workers, Deliver(w) PROVE Goal
  <2>1. /\ pc' = [pc EXCEPT ![w] = "idle"]
        /\ UNCHANGED <<faultVars, recovering, buffer, todo>>
        /\ hand'[w] = NoMessage /\ \A v \in Workers : v # w => hand'[v] = hand[v]
    BY <1>8, DeliverEffect DEF MessageInv
  <2>2. w # Main
    BY <1>0, <2>1, NoMessageType
  <2> QED
    BY <1>1, <2>1, <2>2 DEF TypeOK, FaultWindowOpen, faultVars
<1>9. ASSUME NEW t \in Flushers, RecoveryBegins(t) PROVE Goal
  <2>1. /\ pc' = [pc EXCEPT ![t] = "swap"] /\ ~active' /\ recovering'
        /\ UNCHANGED <<buffer, todo, hand>>
    BY <1>9 DEF RecoveryBegins, BeginRecovery, Goto, pathVars
  <2>2. pc'[Main] = "swap" \/ pc'[Main] = pc[Main]
    BY <2>1 DEF TypeOK
  <2> QED
    BY <2>1, <2>2 DEF GateKept, FaultWindowOpen
<1>10. ASSUME NEW t \in Flushers, SwapFaultBuffers(t) PROVE Goal
  <2>1. /\ pc' = [pc EXCEPT ![t] = "replay"] /\ UNCHANGED hand
        /\ buffer' = EmptyBuffers /\ todo' = [todo EXCEPT ![t] = buffer]
    BY <1>10 DEF SwapFaultBuffers, Goto, pathVars
  <2>2. buffer'[k] = <<>>
    BY <1>0, <2>1 DEF EmptyBuffers
  <2>3. pc'[Main] = "deliver" => \A u \in Flushers : todo'[u][k] = <<>>
    BY <2>1 DEF GateKept, TypeOK
  <2> QED
    BY <2>2, <2>3
<1>11. ASSUME NEW t \in Flushers, ReplayOne(t) PROVE Goal
  <2>1. PICK j \in Topics :
          todo[t][j] # <<>> /\ \A i \in Topics : i # j => todo'[t][i] = todo[t][i]
    BY <1>11, ReplayEffect
  <2>2. /\ UNCHANGED <<faultVars, recovering, buffer, pc, hand>>
        /\ \A u \in Flushers : u # t => todo'[u] = todo[u]
    BY <1>11, ReplayEffect
  <2>3. CASE pc[Main] = "deliver"
    <3>1. j # k
      BY <2>1, <2>2, <2>3 DEF GateKept
    <3> QED
      BY <1>0, <1>1, <2>1, <2>2, <3>1 DEF FaultWindowOpen, faultVars
  <2>4. CASE pc[Main] # "deliver"
    BY <2>2, <2>4 DEF GateKept, FaultWindowOpen, faultVars
  <2> QED
    BY <2>3, <2>4
<1>12. ASSUME NEW t \in Flushers, RecoveryEnds(t) PROVE Goal
  <2>1. buffer' = EmptyBuffers /\ UNCHANGED <<todo, hand>>
    BY <1>12 DEF RecoveryEnds, MessageInv, StoreCustody, pathVars
  <2>2. buffer'[k] = <<>>
    BY <1>0, <2>1 DEF EmptyBuffers
  <2>3. pc'[Main] = "deliver" => pc[Main] = "deliver"
    BY <1>12 DEF RecoveryEnds, CarryPlaces, TypeOK
  <2> QED
    BY <2>1, <2>2, <2>3 DEF GateKept
<1>13. ASSUME NEW t \in {Control, Timer}, Start(t) PROVE Goal
  <2>1. buffer = EmptyBuffers /\ buffer' = EmptyBuffers /\ UNCHANGED <<todo, hand>>
        /\ pc'[Main] = pc[Main]
    BY <1>13, StartFindsQuiet DEF Start, StartNodeFault, Goto, pathVars, TypeOK
  <2>2. buffer'[k] = <<>>
    BY <1>0, <2>1 DEF EmptyBuffers
  <2> QED
    BY <2>1, <2>2 DEF GateKept
<1>14. ASSUME Aside PROVE Goal
  <2>1. UNCHANGED <<buffer, todo, hand>>
        /\ (pc'[Main] = pc[Main] \/ pc'[Main] \notin CarryPlaces)
    BY <1>14 DEF Aside, pathVars
  <2>2. CASE pc'[Main] \notin CarryPlaces
    BY <2>2 DEF CarryPlaces
  <2>3. CASE pc'[Main] = pc[Main] /\ pc'[Main] \in CarryPlaces
    <3>1. running'
      BY <2>3, StepCoordination DEF Coordination, StopOrder, CarryPlaces
    <3>2. recovering' = recovering /\ (FaultWindowOpen' => FaultWindowOpen)
      BY <1>14, <3>1 DEF Aside, FaultWindowOpen
    <3> QED
      BY <1>1, <2>1, <2>3, <3>2
  <2> QED
    BY <2>1, <2>2, <2>3
<1> HIDE DEF Goal
<1>15. Goal
  BY <1>2, <1>3, <1>4, <1>5, <1>6, <1>7, <1>8, <1>9, <1>10, <1>11, <1>12, <1>13, <1>14,
     StepMoves
<1> QED
  BY <1>15 DEF Goal

\* What NoLeak rests on, made inductive: where a message may be that was accepted since
\* the open window began, for every place a thread can have reached with it.
THEOREM GateHolds == ~ScheduledFault => (Spec => []GateKept)
<1> SUFFICES ASSUME ~ScheduledFault PROVE Spec => []GateKept
  OBVIOUS
<1> QED
  BY InitGate, StepGate, MessagesHold, TypeCorrect, CoordinationHolds, PTL DEF Spec

\* No PUB socket of a topic without limit is ever written to by two threads at once.
THEOREM SocketsNotShared == ~ScheduledFault => (Spec => []SocketNotShared)
<1> SUFFICES ASSUME ~ScheduledFault PROVE Spec => []SocketNotShared
  OBVIOUS
<1>1. Coordination /\ GateKept => SocketNotShared
  <2> SUFFICES ASSUME Coordination, GateKept, NEW k \in SendTopics \ Limited,
                      NEW s \in Flushers, NEW t \in Flushers, WritesTo(s, k), WritesTo(t, k)
               PROVE  s = t
    BY DEF SocketNotShared
  <2>1. CASE pc[s] = "replay" /\ pc[t] = "replay"
    BY <2>1 DEF Coordination, SingleFlusher, Flushing
  <2>2. CASE pc[s] # "replay" /\ pc[t] # "replay"
    BY <2>2 DEF WritesTo
  <2>3. CASE pc[s] # "replay" /\ pc[t] = "replay"
    BY <2>3 DEF WritesTo, GateKept
  <2>4. CASE pc[s] = "replay" /\ pc[t] # "replay"
    BY <2>4 DEF WritesTo, GateKept
  <2> QED
    BY <2>1, <2>2, <2>3, <2>4
<1> QED
  BY <1>1, GateHolds, CoordinationHolds, PTL

-----------------------------------------------------------------------------
(* The places of SimComm, and what a step does to each of them. *)

OutAt == <<"out", 0>>
QueueAt == <<"queue", 0>>
BufferAt == <<"buffer", 0>>
TodoAt(t) == <<"todo", t>>
HandAt(w) == <<"hand", w>>

LEMMA StoreFacts ==
  /\ OutAt \in Stores /\ QueueAt \in Stores /\ BufferAt \in Stores
  /\ \A t \in Flushers : TodoAt(t) \in Stores
  /\ \A w \in Workers : HandAt(w) \in Stores
  /\ \A s \in Stores : \/ s = OutAt \/ s = QueueAt \/ s = BufferAt
                       \/ \E t \in Flushers : s = TodoAt(t)
                       \/ \E w \in Workers : s = HandAt(w)
  /\ OutAt # QueueAt /\ OutAt # BufferAt /\ QueueAt # BufferAt
  /\ \A t : TodoAt(t) \notin {OutAt, QueueAt, BufferAt} /\ HandAt(t) \notin {OutAt, QueueAt, BufferAt}
  /\ \A t, w : TodoAt(t) # HandAt(w)
  /\ \A t, w : TodoAt(t) = TodoAt(w) \/ HandAt(t) = HandAt(w) => t = w
BY DEF OutAt, QueueAt, BufferAt, TodoAt, HandAt, Stores

LEMMA ContentFacts ==
  ASSUME NEW k
  PROVE  /\ Contents(k)[OutAt] = out[k] /\ Contents(k)[QueueAt] = queue[k]
         /\ Contents(k)[BufferAt] = buffer[k]
         /\ \A t \in Flushers : Contents(k)[TodoAt(t)] = todo[t][k]
         /\ \A w \in Workers : Contents(k)[HandAt(w)] = InHand(k, w)
         /\ Contents(k)'[OutAt] = out'[k] /\ Contents(k)'[QueueAt] = queue'[k]
         /\ Contents(k)'[BufferAt] = buffer'[k]
         /\ \A t \in Flushers : Contents(k)'[TodoAt(t)] = todo'[t][k]
         /\ \A w \in Workers : Contents(k)'[HandAt(w)] = InHand(k, w)'
<1>1. /\ OutAt \in Stores /\ QueueAt \in Stores /\ BufferAt \in Stores
      /\ \A t \in Flushers : TodoAt(t) \in Stores
      /\ \A w \in Workers : HandAt(w) \in Stores
  BY StoreFacts
<1> QED
  BY <1>1 DEF Contents, Content, OutAt, QueueAt, BufferAt, TodoAt, HandAt

LEMMA ContentType ==
  ASSUME NEW k \in Topics
  PROVE  /\ TypeOK => Contents(k) \in [Stores -> Seq(Nat)]
         /\ TypeOK' => Contents(k)' \in [Stores -> Seq(Nat)]
<1>1. ASSUME TypeOK PROVE Contents(k) \in [Stores -> Seq(Nat)]
  <2>1. ASSUME NEW s \in Stores PROVE Content(k, s) \in Seq(Nat)
    <3> DEFINE c == Content(k, s)
    <3>2. c = Contents(k)[s]
      BY DEF Contents
    <3>1. \A w \in Workers : InHand(k, w) \in Seq(Nat)
      BY <1>1 DEF TypeOK, Message, InHand
    <3> HIDE DEF c
    <3>3. ASSUME s = OutAt \/ s = QueueAt \/ s = BufferAt PROVE c \in Seq(Nat)
      <4>1. c \in {out[k], queue[k], buffer[k]}
        BY <3>2, <3>3, ContentFacts
      <4> QED
        BY <1>1, <4>1 DEF TypeOK
    <3>4. ASSUME NEW t \in Flushers, s = TodoAt(t) PROVE c \in Seq(Nat)
      BY <1>1, <3>2, <3>4, ContentFacts DEF TypeOK
    <3>5. ASSUME NEW w \in Workers, s = HandAt(w) PROVE c \in Seq(Nat)
      BY <3>1, <3>2, <3>5, ContentFacts
    <3>7. \/ s = OutAt \/ s = QueueAt \/ s = BufferAt
          \/ \E t \in Flushers : s = TodoAt(t)
          \/ \E w \in Workers : s = HandAt(w)
      BY StoreFacts
    <3>6. c \in Seq(Nat)
      BY <3>3, <3>4, <3>5, <3>7
    <3> QED
      BY <3>6 DEF c
  <2> QED
    BY <2>1 DEF Contents
<1>2. ASSUME TypeOK' PROVE Contents(k)' \in [Stores -> Seq(Nat)]
  <2>1. ASSUME NEW s \in Stores PROVE Content(k, s)' \in Seq(Nat)
    <3> DEFINE c == Content(k, s)'
    <3>2. c = Contents(k)'[s]
      BY DEF Contents
    <3>1. \A w \in Workers : InHand(k, w)' \in Seq(Nat)
      BY <1>2 DEF TypeOK, Message, InHand
    <3> HIDE DEF c
    <3>3. ASSUME s = OutAt \/ s = QueueAt \/ s = BufferAt PROVE c \in Seq(Nat)
      <4>1. c \in {out[k], queue[k], buffer[k]}'
        BY <3>2, <3>3, ContentFacts
      <4> QED
        BY <1>2, <4>1 DEF TypeOK
    <3>4. ASSUME NEW t \in Flushers, s = TodoAt(t) PROVE c \in Seq(Nat)
      BY <1>2, <3>2, <3>4, ContentFacts DEF TypeOK
    <3>5. ASSUME NEW w \in Workers, s = HandAt(w) PROVE c \in Seq(Nat)
      BY <3>1, <3>2, <3>5, ContentFacts
    <3>7. \/ s = OutAt \/ s = QueueAt \/ s = BufferAt
          \/ \E t \in Flushers : s = TodoAt(t)
          \/ \E w \in Workers : s = HandAt(w)
      BY StoreFacts
    <3>6. c \in Seq(Nat)
      BY <3>3, <3>4, <3>5, <3>7
    <3> QED
      BY <3>6 DEF c
  <2> QED
    BY <2>1 DEF Contents
<1> QED
  BY <1>1, <1>2

CleanAt(k) == Clean(Contents(k), next[k])

\* A step that only takes messages away.
LEMMA StepFewer ==
  ASSUME TypeOK, TypeOK', NEW k \in Topics, CleanAt(k), next'[k] = next[k],
         Less(out[k], out'[k]), Less(queue[k], queue'[k]), Less(buffer[k], buffer'[k]),
         \A t \in Flushers : Less(todo[t][k], todo'[t][k]),
         \A w \in Workers : Less(InHand(k, w), InHand(k, w)')
  PROVE  CleanAt(k)'
<1>1. ASSUME NEW s \in Stores PROVE Less(Contents(k)[s], Contents(k)'[s])
  BY StoreFacts, ContentFacts
<1>2. \A s \in Stores : \/ Contents(k)'[s] = Contents(k)[s] \/ Contents(k)'[s] = <<>>
                        \/ (Contents(k)[s] # <<>> /\ Contents(k)'[s] = Tail(Contents(k)[s]))
  BY <1>1 DEF Less
<1>3. next[k] \in Nat
  BY DEF TypeOK
<1> DEFINE C == Contents(k)
           D == Contents(k)'
<1>4. C \in [Stores -> Seq(Nat)] /\ D \in [Stores -> Seq(Nat)] /\ Clean(C, next[k])
  BY ContentType DEF CleanAt
<1> HIDE DEF C, D
<1>5. Clean(D, next[k])
  BY <1>2, <1>3, <1>4, FewerClean DEF C, D
<1> QED
  BY <1>5 DEF CleanAt, D

\* A step that takes the first message of one place to the end of another.
LEMMA StepMove ==
  ASSUME TypeOK, TypeOK', NEW k \in Topics, CleanAt(k), next'[k] = next[k],
         NEW p \in Stores, NEW r \in Stores, p # r, Contents(k)[p] # <<>>,
         Contents(k)'[p] = Tail(Contents(k)[p]), NEW Q, Less(Contents(k)[r], Q),
         Contents(k)'[r] = Append(Q, Head(Contents(k)[p])),
         \A s \in Stores : s = p \/ s = r \/ Contents(k)'[s] = Contents(k)[s]
  PROVE  CleanAt(k)'
<1> DEFINE C == Contents(k)
           D == Contents(k)'
<1>1. next[k] \in Nat /\ next'[k] = next[k]
  BY DEF TypeOK
<1>2. C \in [Stores -> Seq(Nat)] /\ D \in [Stores -> Seq(Nat)] /\ Clean(C, next[k])
  BY ContentType DEF CleanAt
<1>4. DOMAIN C = Stores /\ Moved(C, D, p, r)
  BY DEF Moved, Contents
<1> HIDE DEF C, D
<1>5. Clean(D, next[k])
  BY <1>1, <1>2, <1>4, MoveClean
<1> QED
  BY <1>1, <1>5 DEF CleanAt, D

\* A step by which a topic accepts its next message.
LEMMA StepFresh ==
  ASSUME TypeOK, TypeOK', NEW k \in Topics, CleanAt(k), next'[k] = next[k] + 1,
         NEW r \in Stores, Contents(k)'[r] = <<next[k] + 1>>,
         \A s \in Stores : s = r \/ Contents(k)'[s] = Contents(k)[s]
  PROVE  CleanAt(k)'
<1> DEFINE C == Contents(k)
           D == Contents(k)'
           n == next[k]
<1>1. n \in Nat /\ next'[k] = n + 1
  BY DEF TypeOK
<1>2. C \in [Stores -> Seq(Nat)] /\ D \in [Stores -> Seq(Nat)] /\ Clean(C, n)
  BY ContentType DEF CleanAt
<1>3. Fresh(C, D, r, n + 1)
  BY <1>2 DEF Fresh
<1> HIDE DEF C, D, n
<1>4. Clean(D, n + 1)
  BY <1>1, <1>2, <1>3, FreshClean
<1> QED
  BY <1>1, <1>4 DEF CleanAt, D, n

\* The spin thread or a receive thread accepts message next[j] + 1 of topic j.
LEMMA AcceptClean ==
  ASSUME TypeOK, TypeOK', NEW k \in Topics, CleanAt(k), NEW j \in Topics, NEW w \in Workers,
         NEW g \in {1, 2}, next' = [next EXCEPT ![j] = @ + 1],
         hand' = [hand EXCEPT ![w] = [topic |-> j, msg |-> next[j] + 1, gates |-> g]],
         UNCHANGED <<out, queue, buffer, todo>>
  PROVE  CleanAt(k)'
<1>1. \A v \in Workers : hand'[v] = IF v = w THEN [topic |-> j, msg |-> next[j] + 1, gates |-> g]
                                     ELSE hand[v]
  BY DEF TypeOK
<1>2. /\ InHand(k, w)' = IF j = k THEN <<next[k] + 1>> ELSE <<>>
      /\ \A v \in Workers : v = w \/ InHand(k, v)' = InHand(k, v)
  BY <1>1 DEF InHand
<1>3. next'[k] = IF k = j THEN next[k] + 1 ELSE next[k]
  BY DEF TypeOK
<1>4. CASE j = k
  <2>1. \A s \in Stores : s = HandAt(w) \/ Contents(k)'[s] = Contents(k)[s]
    BY <1>2, StoreFacts, ContentFacts
  <2>2. HandAt(w) \in Stores /\ Contents(k)'[HandAt(w)] = <<next[k] + 1>>
    BY <1>2, <1>4, StoreFacts, ContentFacts
  <2> QED
    BY <1>3, <1>4, <2>1, <2>2, StepFresh
<1>5. CASE j # k
  <2>1. \A v \in Workers : Less(InHand(k, v), InHand(k, v)')
    BY <1>2, <1>5 DEF Less
  <2>2. /\ Less(out[k], out'[k]) /\ Less(queue[k], queue'[k]) /\ Less(buffer[k], buffer'[k])
        /\ \A t \in Flushers : Less(todo[t][k], todo'[t][k])
    BY DEF Less
  <2> QED
    BY <1>3, <1>5, <2>1, <2>2, StepFewer
<1> QED
  BY <1>4, <1>5

\* send_func takes the first message of the queue of topic j.
LEMMA PopClean ==
  ASSUME TypeOK, TypeOK', NEW k \in Topics, CleanAt(k), NEW j \in Limited, SendFuncPop(j)
  PROVE  CleanAt(k)'
<1>1. /\ queue[j] # <<>> /\ queue' = [queue EXCEPT ![j] = Tail(queue[j])]
      /\ hand' = [hand EXCEPT ![j] = [topic |-> j, msg |-> Head(queue[j]), gates |-> 1]]
      /\ UNCHANGED <<out, buffer, todo, next>>
  BY DEF SendFuncPop
<1>2. j \in Workers /\ j \in Topics
  BY ThreadFacts
<1>3. \A v \in Workers : hand'[v] = IF v = j THEN [topic |-> j, msg |-> Head(queue[j]), gates |-> 1]
                                    ELSE hand[v]
  BY <1>1 DEF TypeOK
<1>4. /\ InHand(k, j)' = IF j = k THEN <<Head(queue[k])>> ELSE <<>>
      /\ \A v \in Workers : v = j \/ InHand(k, v)' = InHand(k, v)
  BY <1>2, <1>3 DEF InHand
<1>5. queue'[k] = IF j = k THEN Tail(queue[k]) ELSE queue[k]
  BY <1>1 DEF TypeOK
<1>6. CASE j = k
  <2>1. \A s \in Stores : s = QueueAt \/ s = HandAt(j) \/ Contents(k)'[s] = Contents(k)[s]
    BY <1>1, <1>4, StoreFacts, ContentFacts
  <2>2. /\ QueueAt \in Stores /\ HandAt(j) \in Stores /\ QueueAt # HandAt(j)
    BY <1>2, StoreFacts
  <2>3. /\ Contents(k)[QueueAt] = queue[k] /\ Contents(k)'[QueueAt] = queue'[k]
        /\ Contents(k)'[HandAt(j)] = InHand(k, j)'
    BY <1>2, ContentFacts
  <2>4. Append(<<>>, Head(queue[k])) = <<Head(queue[k])>>
    OBVIOUS
  <2>5. /\ Contents(k)[QueueAt] # <<>> /\ Contents(k)'[QueueAt] = Tail(Contents(k)[QueueAt])
        /\ Contents(k)'[HandAt(j)] = Append(<<>>, Head(Contents(k)[QueueAt]))
    BY <1>1, <1>4, <1>5, <1>6, <2>3, <2>4
  <2>6. Less(Contents(k)[HandAt(j)], <<>>)
    BY DEF Less
  <2> QED
    BY <1>1, <2>1, <2>2, <2>5, <2>6, StepMove
<1>7. CASE j # k
  <2>1. \A v \in Workers : Less(InHand(k, v), InHand(k, v)')
    BY <1>4, <1>7 DEF Less
  <2>2. /\ Less(out[k], out'[k]) /\ Less(queue[k], queue'[k]) /\ Less(buffer[k], buffer'[k])
        /\ \A t \in Flushers : Less(todo[t][k], todo'[t][k])
    BY <1>1, <1>5, <1>7 DEF Less
  <2> QED
    BY <1>1, <2>1, <2>2, StepFewer
<1> QED
  BY <1>6, <1>7

\* What a worker gives away leaves its hand.
LEMMA HandGiven ==
  ASSUME TypeOK, NEW w \in Workers, hand' = [hand EXCEPT ![w] = NoMessage], NEW k \in Topics
  PROVE  /\ InHand(k, w)' = <<>>
         /\ \A v \in Workers : v = w \/ InHand(k, v)' = InHand(k, v)
         /\ hand[w].topic = k => /\ InHand(k, w) # <<>> /\ Tail(InHand(k, w)) = <<>>
                                 /\ Head(InHand(k, w)) = hand[w].msg
         /\ hand[w].topic # k => \A v \in Workers : InHand(k, v)' = InHand(k, v)
<1>1. \A v \in Workers : hand'[v] = IF v = w THEN NoMessage ELSE hand[v]
  BY DEF TypeOK
<1>2. 0 \notin Topics
  BY ThreadFacts DEF Main
<1>3. InHand(k, w)' = <<>> /\ \A v \in Workers : v = w \/ InHand(k, v)' = InHand(k, v)
  BY <1>1, <1>2 DEF InHand, NoMessage
<1>4. ASSUME hand[w].topic = k
      PROVE  /\ InHand(k, w) # <<>> /\ Tail(InHand(k, w)) = <<>>
             /\ Head(InHand(k, w)) = hand[w].msg
  <2>1. InHand(k, w) = <<hand[w].msg>>
    BY <1>4 DEF InHand
  <2> QED
    BY <2>1
<1>5. ASSUME hand[w].topic # k PROVE InHand(k, w) = <<>>
  BY <1>5 DEF InHand
<1> QED
  BY <1>3, <1>4, <1>5

\* What a worker holds goes to the end of one place r of its topic.
LEMMA HandToPlace ==
  ASSUME TypeOK, TypeOK', NEW k \in Topics, CleanAt(k), next' = next,
         NEW w \in Workers, hand[w].topic = k, hand' = [hand EXCEPT ![w] = NoMessage],
         NEW r \in {OutAt, QueueAt, BufferAt},
         NEW Q, Less(Contents(k)[r], Q), Contents(k)'[r] = Append(Q, hand[w].msg),
         r # OutAt => out'[k] = out[k], r # QueueAt => queue'[k] = queue[k],
         r # BufferAt => buffer'[k] = buffer[k], \A t \in Flushers : todo'[t][k] = todo[t][k]
  PROVE  CleanAt(k)'
<1>1. /\ InHand(k, w)' = <<>> /\ InHand(k, w) # <<>> /\ Tail(InHand(k, w)) = <<>>
      /\ Head(InHand(k, w)) = hand[w].msg
      /\ \A v \in Workers : v = w \/ InHand(k, v)' = InHand(k, v)
  BY HandGiven
<1>2. \A s \in Stores : s = HandAt(w) \/ s = r \/ Contents(k)'[s] = Contents(k)[s]
  BY <1>1, StoreFacts, ContentFacts
<1>3. HandAt(w) \in Stores /\ r \in Stores /\ HandAt(w) # r
  BY StoreFacts
<1>4. /\ Contents(k)[HandAt(w)] = InHand(k, w) /\ Contents(k)'[HandAt(w)] = InHand(k, w)'
  BY ContentFacts
<1>5. /\ Contents(k)[HandAt(w)] # <<>>
      /\ Contents(k)'[HandAt(w)] = Tail(Contents(k)[HandAt(w)])
      /\ Contents(k)'[r] = Append(Q, Head(Contents(k)[HandAt(w)]))
  BY <1>1, <1>4
<1> QED
  BY <1>2, <1>3, <1>5, StepMove

LEMMA EnqueueLess ==
  ASSUME NEW q \in Seq(Nat), NEW m
  PROVE  \E Q : Less(q, Q) /\ Enqueue(q, m) = Append(Q, m)
<1>1. Len(q) < QueueCap \/ q # <<>>
  BY SimCommAssumption DEF SimCommAssumption
<1> QED
  BY <1>1 DEF Enqueue, Less

\* The message of a step of one topic leaves the others as they are.
LEMMA OthersClean ==
  ASSUME TypeOK, TypeOK', NEW k \in Topics, CleanAt(k), next' = next,
         out'[k] = out[k], queue'[k] = queue[k], Less(buffer[k], buffer'[k]),
         \A t \in Flushers : todo'[t][k] = todo[t][k],
         \A w \in Workers : Less(InHand(k, w), InHand(k, w)')
  PROVE  CleanAt(k)'
<1>1. /\ Less(out[k], out'[k]) /\ Less(queue[k], queue'[k])
      /\ \A t \in Flushers : Less(todo[t][k], todo'[t][k])
  BY DEF Less
<1> QED
  BY <1>1, StepFewer

LEMMA DeliverClean ==
  ASSUME TypeOK, TypeOK', NEW k \in Topics, CleanAt(k), NEW w \in Workers, Deliver(w)
  PROVE  CleanAt(k)'
<1> DEFINE j == hand[w].topic
           m == hand[w].msg
           limited == w = Main /\ j \in Limited
<1>1. /\ Dispatch(j, m, limited) /\ hand' = [hand EXCEPT ![w] = NoMessage]
      /\ next' = next /\ buffer' = buffer /\ todo' = todo
  BY DEF Deliver
<1>2. CASE j # k
  <2>1. out'[k] = out[k] /\ queue'[k] = queue[k]
    BY <1>1, <1>2 DEF Dispatch, TypeOK
  <2>2. \A v \in Workers : Less(InHand(k, v), InHand(k, v)')
    BY <1>1, <1>2, HandGiven DEF Less
  <2>3. Less(buffer[k], buffer'[k]) /\ \A t \in Flushers : todo'[t][k] = todo[t][k]
    BY <1>1 DEF Less
  <2> QED
    BY <1>1, <2>1, <2>2, <2>3, OthersClean
<1>3. CASE j = k
  <2>1. /\ ~limited => queue' = queue /\ out'[k] = Append(out[k], m)
        /\ limited => out' = out /\ queue'[k] = Enqueue(queue[k], m)
    BY <1>1, <1>3 DEF Dispatch, TypeOK
  <2>2. CASE limited
    <3>1. queue[k] \in Seq(Nat)
      BY DEF TypeOK
    <3>2. PICK Q : Less(queue[k], Q) /\ Enqueue(queue[k], m) = Append(Q, m)
      BY <3>1, EnqueueLess
    <3>3. Less(Contents(k)[QueueAt], Q) /\ Contents(k)'[QueueAt] = Append(Q, hand[w].msg)
      BY <2>1, <2>2, <3>2, ContentFacts
    <3>4. /\ out'[k] = out[k] /\ buffer'[k] = buffer[k]
          /\ \A t \in Flushers : todo'[t][k] = todo[t][k]
      BY <1>1, <2>1, <2>2
    <3> QED
      BY <1>1, <1>3, <3>3, <3>4, HandToPlace
  <2>3. CASE ~limited
    <3>1. Less(Contents(k)[OutAt], out[k]) /\ Contents(k)'[OutAt] = Append(out[k], hand[w].msg)
      BY <2>1, <2>3, ContentFacts DEF Less
    <3>2. /\ queue'[k] = queue[k] /\ buffer'[k] = buffer[k]
          /\ \A t \in Flushers : todo'[t][k] = todo[t][k]
      BY <1>1, <2>1, <2>3
    <3> QED
      BY <1>1, <1>3, <3>1, <3>2, HandToPlace
  <2> QED
    BY <2>2, <2>3
<1> QED
  BY <1>2, <1>3

LEMMA ConsumeClean ==
  ASSUME TypeOK, TypeOK', NEW k \in Topics, CleanAt(k), NEW w \in Workers, ConsumeByFault(w)
  PROVE  CleanAt(k)'
<1> DEFINE j == hand[w].topic
           m == hand[w].msg
<1>1. /\ buffer' = [buffer EXCEPT ![j] = ApplyFaultPolicy(Policy[j], buffer[j], m)]
      /\ hand' = [hand EXCEPT ![w] = NoMessage]
      /\ next' = next /\ todo' = todo /\ out' = out /\ queue' = queue
  BY DEF ConsumeByFault
<1>2. CASE j # k
  <2>1. Less(buffer[k], buffer'[k])
    BY <1>1, <1>2 DEF TypeOK, Less
  <2>2. \A v \in Workers : Less(InHand(k, v), InHand(k, v)')
    BY <1>1, <1>2, HandGiven DEF Less
  <2>3. /\ out'[k] = out[k] /\ queue'[k] = queue[k]
        /\ \A t \in Flushers : todo'[t][k] = todo[t][k]
    BY <1>1
  <2> QED
    BY <1>1, <2>1, <2>2, <2>3, OthersClean
<1>3. CASE j = k
  <2>1. buffer'[k] = ApplyFaultPolicy(Policy[k], buffer[k], m)
    BY <1>1, <1>3 DEF TypeOK
  <2>2. Policy[k] \in Policies
    BY SimCommAssumption DEF SimCommAssumption
  <2>3. /\ out'[k] = out[k] /\ queue'[k] = queue[k]
        /\ \A t \in Flushers : todo'[t][k] = todo[t][k]
    BY <1>1
  <2>4. ASSUME NEW Q, Less(buffer[k], Q), buffer'[k] = Append(Q, m) PROVE CleanAt(k)'
    <3>1. Less(Contents(k)[BufferAt], Q) /\ Contents(k)'[BufferAt] = Append(Q, hand[w].msg)
      BY <2>4, ContentFacts
    <3> QED
      BY <1>1, <1>3, <2>3, <3>1, HandToPlace
  <2>5. CASE Policy[k] = "drop"
    <3>1. Less(buffer[k], buffer'[k])
      BY <2>1, <2>5 DEF ApplyFaultPolicy, Less
    <3>2. \A v \in Workers : v = w \/ InHand(k, v)' = InHand(k, v)
      BY <1>1, HandGiven
    <3>3. InHand(k, w)' = <<>>
      BY <1>1, HandGiven
    <3>4. \A v \in Workers : Less(InHand(k, v), InHand(k, v)')
      BY <3>2, <3>3 DEF Less
    <3> QED
      BY <1>1, <2>3, <3>1, <3>4, OthersClean
  <2>6. CASE Policy[k] = "latest"
    <3>1. buffer'[k] = Append(<<>>, m) /\ Less(buffer[k], <<>>)
      BY <2>1, <2>6 DEF ApplyFaultPolicy, Less
    <3> QED
      BY <2>4, <3>1
  <2>7. CASE Policy[k] = "buffer"
    <3>1. buffer'[k] = Append(buffer[k], m) /\ Less(buffer[k], buffer[k])
      BY <2>1, <2>7 DEF ApplyFaultPolicy, Less
    <3> QED
      BY <2>4, <3>1
  <2> QED
    BY <2>2, <2>5, <2>6, <2>7 DEF Policies
<1> QED
  BY <1>2, <1>3

\* The swap: what the fault buffers held is what the flusher has to replay.
LEMMA SwapStepClean ==
  ASSUME TypeOK, TypeOK', NEW k \in Topics, CleanAt(k), NEW t \in Flushers, SwapFaultBuffers(t)
  PROVE  CleanAt(k)'
<1>1. /\ todo' = [todo EXCEPT ![t] = buffer] /\ buffer'[k] = <<>>
      /\ UNCHANGED <<hand, queue, out, next>>
  BY DEF SwapFaultBuffers, EmptyBuffers, pathVars
<1>2. todo'[t][k] = buffer[k] /\ \A u \in Flushers : u = t \/ todo'[u][k] = todo[u][k]
  BY <1>1 DEF TypeOK
<1>3. \A v \in Workers : InHand(k, v)' = InHand(k, v)
  BY <1>1 DEF InHand
<1> DEFINE C == Contents(k)
           D == Contents(k)'
           p == BufferAt
           r == TodoAt(t)
<1>4. /\ p \in Stores /\ r \in Stores /\ p # r
      /\ D[p] = <<>> /\ D[r] = C[p]
  BY <1>1, <1>2, StoreFacts, ContentFacts
<1>5. \A s \in Stores \ {p, r} : D[s] = C[s]
  BY <1>1, <1>2, <1>3, StoreFacts, ContentFacts
<1>6. C \in [Stores -> Seq(Nat)] /\ D \in [Stores -> Seq(Nat)] /\ Clean(C, next[k])
      /\ next[k] \in Nat /\ next'[k] = next[k]
  BY <1>1, ContentType DEF CleanAt, TypeOK
<1> HIDE DEF C, D, p, r
<1>8. Swapped(C, D, p, r)
  BY <1>4, <1>5, <1>6 DEF Swapped
<1>7. Clean(D, next[k])
  BY <1>4, <1>6, <1>8, SwapClean
<1> QED
  BY <1>6, <1>7 DEF CleanAt, D

\* A step of a replay: the first message of the topic it is at goes on.
LEMMA ReplayClean ==
  ASSUME TypeOK, TypeOK', NEW k \in Topics, CleanAt(k), NEW t \in Flushers, ReplayOne(t)
  PROVE  CleanAt(k)'
<1>1. /\ UNCHANGED <<buffer, hand, next>>
      /\ \A u \in Flushers : u # t => todo'[u] = todo[u]
  BY ReplayEffect
<1>2. PICK j \in Topics :
        /\ todo[t][j] # <<>> /\ todo[t][j] \in Seq(Nat)
        /\ todo'[t][j] = Tail(todo[t][j])
        /\ \A i \in Topics : i # j => /\ todo'[t][i] = todo[t][i]
                                      /\ out'[i] = out[i] /\ queue'[i] = queue[i]
        /\ j \in Limited => out' = out /\ queue'[j] = Enqueue(queue[j], Head(todo[t][j]))
        /\ j \notin Limited => queue' = queue /\ out'[j] = Append(out[j], Head(todo[t][j]))
  BY ReplayEffect
<1>3. \A v \in Workers : InHand(k, v)' = InHand(k, v)
  BY <1>1 DEF InHand
<1>4. CASE j # k
  <2>1. out'[k] = out[k] /\ queue'[k] = queue[k] /\ \A u \in Flushers : todo'[u][k] = todo[u][k]
    BY <1>1, <1>2, <1>4
  <2>2. Less(buffer[k], buffer'[k]) /\ \A v \in Workers : Less(InHand(k, v), InHand(k, v)')
    BY <1>1, <1>3 DEF Less
  <2> QED
    BY <1>1, <2>1, <2>2, OthersClean
<1>5. ASSUME j = k, NEW r \in {OutAt, QueueAt}, NEW Q, Less(Contents(k)[r], Q),
             Contents(k)'[r] = Append(Q, Head(todo[t][k])),
             r = OutAt \/ out'[k] = out[k], r = QueueAt \/ queue'[k] = queue[k]
      PROVE  CleanAt(k)'
  <2>1. \A u \in Flushers : u = t \/ todo'[u][k] = todo[u][k]
    BY <1>1
  <2>2. \A s \in Stores : s = TodoAt(t) \/ s = r \/ Contents(k)'[s] = Contents(k)[s]
    BY <1>1, <1>3, <1>5, <2>1, StoreFacts, ContentFacts
  <2>3. TodoAt(t) \in Stores /\ r \in Stores /\ TodoAt(t) # r
    BY StoreFacts
  <2>4. /\ Contents(k)[TodoAt(t)] = todo[t][k] /\ Contents(k)'[TodoAt(t)] = todo'[t][k]
    BY ContentFacts
  <2>5. /\ Contents(k)[TodoAt(t)] # <<>>
        /\ Contents(k)'[TodoAt(t)] = Tail(Contents(k)[TodoAt(t)])
        /\ Contents(k)'[r] = Append(Q, Head(Contents(k)[TodoAt(t)]))
    BY <1>2, <1>5, <2>4
  <2> QED
    BY <1>1, <1>5, <2>2, <2>3, <2>5, StepMove
<1>6. CASE j = k /\ k \in Limited
  <2>1. queue[k] \in Seq(Nat)
    BY DEF TypeOK
  <2>2. PICK Q : /\ Less(queue[k], Q)
                 /\ Enqueue(queue[k], Head(todo[t][k])) = Append(Q, Head(todo[t][k]))
    BY <2>1, EnqueueLess
  <2>3. /\ Less(Contents(k)[QueueAt], Q) /\ out'[k] = out[k]
        /\ Contents(k)'[QueueAt] = Append(Q, Head(todo[t][k]))
    BY <1>2, <1>6, <2>2, ContentFacts
  <2> QED
    BY <1>5, <1>6, <2>3
<1>7. CASE j = k /\ k \notin Limited
  <2>1. /\ Less(Contents(k)[OutAt], out[k]) /\ queue'[k] = queue[k]
        /\ Contents(k)'[OutAt] = Append(out[k], Head(todo[t][k]))
    BY <1>2, <1>7, ContentFacts DEF Less
  <2> QED
    BY <1>5, <1>7, <2>1
<1> QED
  BY <1>4, <1>6, <1>7

LEMMA InitClean == Init => \A k \in Topics : CleanAt(k)
<1> SUFFICES ASSUME Init, NEW k \in Topics PROVE CleanAt(k)
  OBVIOUS
<1>1. out[k] = <<>> /\ queue[k] = <<>> /\ buffer[k] = <<>>
      /\ \A t \in Flushers : todo[t][k] = <<>>
  BY DEF Init, EmptyBuffers
<1>2. \A w \in Workers : InHand(k, w) = <<>>
  BY ThreadFacts DEF Init, NoMessage, InHand, Main
<1>3. \A s \in Stores : Contents(k)[s] = <<>>
  BY <1>1, <1>2, StoreFacts, ContentFacts
<1>4. DOMAIN Contents(k) = Stores
  BY DEF Contents
<1> HIDE DEF Contents
<1> QED
  BY <1>3, <1>4 DEF CleanAt, Clean, NoRepeat

\* No step copies a message, with or without timer and limits.
LEMMA StepClean ==
  TypeOK /\ TypeOK' /\ (\A k \in Topics : CleanAt(k)) /\ [Next]_vars
  => \A k \in Topics : CleanAt(k)'
<1> SUFFICES ASSUME TypeOK, TypeOK', \A k \in Topics : CleanAt(k), [Next]_vars, NEW k \in Topics
             PROVE  CleanAt(k)'
  OBVIOUS
<1>0. CleanAt(k)
  OBVIOUS
<1>1. ASSUME NEW j \in SendTopics, SubCallback(j) PROVE CleanAt(k)'
  <2>1. PICK g \in {1, 2} :
          hand' = [hand EXCEPT ![Main] = [topic |-> j, msg |-> next[j] + 1, gates |-> g]]
    BY <1>1 DEF SubCallback
  <2>2. next' = [next EXCEPT ![j] = @ + 1] /\ UNCHANGED <<out, queue, buffer, todo>>
    BY <1>1 DEF SubCallback
  <2> QED
    BY <1>0, <2>1, <2>2, ThreadFacts, AcceptClean
<1>2. ASSUME NEW j \in RecvTopics, Receive(j) PROVE CleanAt(k)'
  <2>1. /\ next' = [next EXCEPT ![j] = @ + 1] /\ UNCHANGED <<out, queue, buffer, todo>>
        /\ hand' = [hand EXCEPT ![j] = [topic |-> j, msg |-> next[j] + 1, gates |-> 1]]
    BY <1>2 DEF Receive
  <2> QED
    BY <1>0, <2>1, ThreadFacts, AcceptClean
<1>3. ASSUME NEW j \in Limited, SendFuncPop(j) PROVE CleanAt(k)'
  BY <1>0, <1>3, PopClean
<1>4. ASSUME NEW w \in Workers, ConsumeByFault(w) PROVE CleanAt(k)'
  BY <1>0, <1>4, ConsumeClean
<1>5. ASSUME NEW w \in Workers, Deliver(w) PROVE CleanAt(k)'
  BY <1>0, <1>5, DeliverClean
<1>6. ASSUME NEW t \in Flushers, SwapFaultBuffers(t) PROVE CleanAt(k)'
  BY <1>0, <1>6, SwapStepClean
<1>7. ASSUME NEW t \in Flushers, ReplayOne(t) PROVE CleanAt(k)'
  BY <1>0, <1>7, ReplayClean
<1>8. ASSUME next' = next, out' = out, queue' = queue, todo' = todo,
             buffer' = buffer \/ buffer' = EmptyBuffers,
             \A w \in Workers : hand'[w].topic = hand[w].topic /\ hand'[w].msg = hand[w].msg
      PROVE  CleanAt(k)'
  <2>1. Less(buffer[k], buffer'[k])
    BY <1>8 DEF EmptyBuffers, Less
  <2>2. \A w \in Workers : Less(InHand(k, w), InHand(k, w)')
    BY <1>8 DEF InHand, Less
  <2>3. out'[k] = out[k] /\ queue'[k] = queue[k] /\ \A t \in Flushers : todo'[t][k] = todo[t][k]
    BY <1>8
  <2> QED
    BY <1>0, <1>8, <2>1, <2>2, <2>3, OthersClean
<1>9. ASSUME NEW w \in Workers, PassFaultGate(w) PROVE CleanAt(k)'
  BY <1>8, <1>9, PassKeepsMessage DEF PassFaultGate
<1>10. ASSUME NEW t \in {Control, Timer}, Start(t) PROVE CleanAt(k)'
  BY <1>8, <1>10 DEF Start, StartNodeFault, pathVars
<1>11. ASSUME UNCHANGED <<buffer, todo, pathVars>> PROVE CleanAt(k)'
  BY <1>8, <1>11 DEF pathVars
<1>12. ASSUME NEW w \in Workers, ComesToGate(w) PROVE CleanAt(k)'
  BY <1>11, <1>12 DEF ComesToGate
<1>13. ASSUME NEW t \in Flushers, RecoveryBegins(t) \/ RecoveryEnds(t) PROVE CleanAt(k)'
  BY <1>11, <1>13 DEF RecoveryBegins, RecoveryEnds
<1>14. ASSUME Aside PROVE CleanAt(k)'
  BY <1>11, <1>14 DEF Aside
<1> QED
  BY <1>1, <1>2, <1>3, <1>4, <1>5, <1>6, <1>7, <1>9, <1>10, <1>12, <1>13, <1>14, StepMoves

\* In every configuration, with timer and limits too, no message is ever in two places
\* or twice in one: nothing is sent, published or held twice.
THEOREM NothingDoubled == Spec => []NoDuplicate
<1>1. (\A k \in Topics : CleanAt(k)) => NoDuplicate
  BY DEF CleanAt, Clean, NoDuplicate
<1>2. TypeOK /\ TypeOK' /\ (\A k \in Topics : CleanAt(k)) /\ [Next]_vars
      => (\A k \in Topics : CleanAt(k))'
  BY StepClean
<1> QED
  BY <1>1, <1>2, InitClean, TypeCorrect, PTL DEF Spec
=============================================================================
