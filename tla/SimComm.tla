------------------------------- MODULE SimComm -------------------------------
(***************************************************************************)
(* The communication-control module of the bridge node (sim_comm.cpp): the *)
(* simulated node fault, its fault buffers, the monitor thread, the ROS    *)
(* spin thread, the receive threads and the bitrate-limited send threads,  *)
(* which all meet at node_fault_mutex and node_fault_condition.            *)
(*                                                                         *)
(* One action is one critical section, or one step between two of them.    *)
(* A message is its number in the order its topic accepted it.  Time is    *)
(* the single bit the code derives from it: has node_fault_until passed.   *)
(***************************************************************************)
EXTENDS Integers, Sequences, FiniteSets

CONSTANTS
  LenSend,        \* number of send topics (len_send)
  LenRecv,        \* number of receive topics (len_recv)
  Limited,        \* the send topics with max_bitrate > 0
  Policy,         \* fault_policy of each topic
  QueueCap,       \* messages a bitrate queue holds before it drops the oldest
  ScheduledFault, \* TRUE: node_fault_duration is configured, a fault starts by timer
  MaxMsg,         \* bound: messages accepted, per topic
  MaxFaults       \* bound: faults started

SendTopics == 1..LenSend
RecvTopics == (LenSend + 1)..(LenSend + LenRecv)
Topics == SendTopics \cup RecvTopics

\* Threads. The send thread and the receive thread of a topic bear its number.
Main == 0
Monitor == -1
Control == -2
Timer == -3
Workers == {Main} \cup Limited \cup RecvTopics
Flushers == Workers \cup {Monitor}
Threads == Flushers \cup {Control, Timer}

Policies == {"drop", "buffer", "latest"}

ASSUME SimCommAssumption ==
  /\ LenSend \in Nat
  /\ LenRecv \in Nat
  /\ Limited \subseteq SendTopics
  /\ Policy \in [Topics -> Policies]
  /\ QueueCap \in Nat \ {0}
  /\ ScheduledFault \in BOOLEAN
  /\ MaxMsg \in [Topics -> Nat]
  /\ MaxFaults \in Nat

VARIABLES
  running,     \* node_fault_thread_running
  active,      \* node_fault_active
  expired,     \* steady_clock::now() >= node_fault_until
  recovering,  \* node_fault_recovering
  buffer,      \* send_fault_buffers and recv_fault_buffers
  asleep,      \* the threads waiting on node_fault_condition
  pc,          \* where each thread is
  hand,        \* the message a worker carries, and the fault gates before it
  todo,        \* the buffers a flusher has swapped out and is replaying
  queue,       \* send_queues of the limited topics
  sending,     \* the limited topics whose send_thread_flags is still true
  next,        \* messages accepted so far, per topic
  out,         \* what reached ZMQ (send topics) or the ROS publisher (receive topics)
  faults,      \* faults started so far
  since        \* next, as it was when the last fault started

vars == <<running, active, expired, recovering, buffer, asleep, pc, hand, todo,
          queue, sending, next, out, faults, since>>
faultVars == <<running, active, expired, faults, since>>
pathVars == <<hand, queue, next, out>>

-----------------------------------------------------------------------------
Message == [topic : Topics \cup {0}, msg : Nat, gates : {1, 2}]
NoMessage == [topic |-> 0, msg |-> 0, gates |-> 1]
EmptyBuffers == [k \in Topics |-> <<>>]

\* Threads and containers as main() has them when it enters ros::spin().
Init ==
  /\ running = TRUE
  /\ active = FALSE
  /\ expired = TRUE
  /\ recovering = FALSE
  /\ buffer = EmptyBuffers
  /\ asleep = {}
  /\ pc = [t \in Threads |-> IF t = Monitor THEN "loop"
                             ELSE IF t = Timer /\ ~ScheduledFault THEN "done"
                             ELSE "idle"]
  /\ hand = [w \in Workers |-> NoMessage]
  /\ todo = [t \in Flushers |-> EmptyBuffers]
  /\ queue = EmptyBuffers
  /\ sending = Limited
  /\ next = [k \in Topics |-> 0]
  /\ out = EmptyBuffers
  /\ faults = 0
  /\ since = [k \in Topics |-> 0]

Goto(t, place) == pc' = [pc EXCEPT ![t] = place]

-----------------------------------------------------------------------------
(* Entry points of a message. *)

\* Mutant: no second look at the fault before ZMQ.
SubCallbackOneGate(k) ==
  /\ k \in SendTopics
  /\ pc[Main] = "idle"
  /\ next[k] < MaxMsg[k]
  /\ next' = [next EXCEPT ![k] = @ + 1]
  /\ hand' = [hand EXCEPT ![Main] = [topic |-> k, msg |-> next[k] + 1, gates |-> 1]]
  /\ Goto(Main, "check")
  /\ UNCHANGED <<faultVars, recovering, buffer, asleep, todo, queue, sending, out>>

\* sub_cb hands a message of topic k to dispatch_send_message. A limited topic
\* meets the fault gate once here and once in send_func, any other twice here.
SubCallback(k) ==
  /\ k \in SendTopics
  /\ pc[Main] = "idle"
  /\ next[k] < MaxMsg[k]
  /\ next' = [next EXCEPT ![k] = @ + 1]
  /\ hand' = [hand EXCEPT ![Main] = [topic |-> k, msg |-> next[k] + 1,
                                     gates |-> IF k \in Limited THEN 1 ELSE 2]]
  /\ Goto(Main, "check")
  /\ UNCHANGED <<faultVars, recovering, buffer, asleep, todo, queue, sending, out>>

\* recv_func hands a message of topic k to dispatch_received_message.
Receive(k) ==
  /\ k \in RecvTopics
  /\ pc[k] = "idle"
  /\ next[k] < MaxMsg[k]
  /\ next' = [next EXCEPT ![k] = @ + 1]
  /\ hand' = [hand EXCEPT ![k] = [topic |-> k, msg |-> next[k] + 1, gates |-> 1]]
  /\ Goto(k, "check")
  /\ UNCHANGED <<faultVars, recovering, buffer, asleep, todo, queue, sending, out>>

\* send_func has the tokens for the head of its queue and takes it out.
SendFuncPop(k) ==
  /\ k \in sending
  /\ pc[k] = "idle"
  /\ queue[k] # <<>>
  /\ hand' = [hand EXCEPT ![k] = [topic |-> k, msg |-> Head(queue[k]), gates |-> 1]]
  /\ queue' = [queue EXCEPT ![k] = Tail(@)]
  /\ Goto(k, "check")
  /\ UNCHANGED <<faultVars, recovering, buffer, asleep, todo, sending, next, out>>

\* send_func finds its flag cleared and returns.
SendFuncExit(k) ==
  /\ k \in Limited \ sending
  /\ pc[k] = "idle"
  /\ Goto(k, "done")
  /\ UNCHANGED <<faultVars, recovering, buffer, asleep, todo, pathVars, sending>>

-----------------------------------------------------------------------------
(* Where a message leaves the module. *)

\* Mutant: the bound is compared one too late.
EnqueueOffByOne(q, m) == Append(IF Len(q) <= QueueCap THEN q ELSE Tail(q), m)

\* The bounded queue of a limited topic after message m: the oldest makes room.
Enqueue(q, m) == Append(IF Len(q) < QueueCap THEN q ELSE Tail(q), m)

\* dispatch_send_message_after_fault past its gate: the queue, or ZMQ at once.
Dispatch(k, m, limited) ==
  IF limited
  THEN /\ queue' = [queue EXCEPT ![k] = Enqueue(@, m)]
       /\ UNCHANGED out
  ELSE /\ out' = [out EXCEPT ![k] = Append(@, m)]
       /\ UNCHANGED queue

Deliver(w) ==
  /\ pc[w] = "deliver"
  /\ Dispatch(hand[w].topic, hand[w].msg, w = Main /\ hand[w].topic \in Limited)
  /\ hand' = [hand EXCEPT ![w] = NoMessage]
  /\ Goto(w, "idle")
  /\ UNCHANGED <<faultVars, recovering, buffer, asleep, todo, sending, next>>

-----------------------------------------------------------------------------
(* Recovery: shared by the workers and the monitor thread. *)

FaultExpired == active /\ expired

\* Mutant: the fault is left active for others to end again.
BeginRecoveryStillActive(t) ==
  /\ recovering' = TRUE
  /\ Goto(t, "swap")
  /\ UNCHANGED active

\* The critical section that ends the fault and makes thread t its flusher.
BeginRecovery(t) ==
  /\ active' = FALSE
  /\ recovering' = TRUE
  /\ Goto(t, "swap")

\* flush_expired_fault_if_needed, up to its first unlock.
FlushExpiredFaultIfNeeded(w) ==
  /\ pc[w] = "check"
  /\ IF FaultExpired
     THEN BeginRecovery(w)
     ELSE Goto(w, "gate") /\ UNCHANGED <<active, recovering>>
  /\ UNCHANGED <<running, expired, faults, since, buffer, asleep, todo, pathVars, sending>>

\* Mutant: the buffers are copied, not swapped.
SwapByCopy(t) ==
  /\ pc[t] = "swap"
  /\ todo' = [todo EXCEPT ![t] = buffer]
  /\ Goto(t, "replay")
  /\ UNCHANGED <<faultVars, recovering, buffer, asleep, pathVars, sending>>

\* Mutant: only the send buffers are swapped out.
SwapSendOnly(t) ==
  /\ pc[t] = "swap"
  /\ todo' = [todo EXCEPT ![t] = [k \in Topics |-> IF k \in SendTopics THEN buffer[k] ELSE <<>>]]
  /\ buffer' = [k \in Topics |-> IF k \in SendTopics THEN <<>> ELSE buffer[k]]
  /\ Goto(t, "replay")
  /\ UNCHANGED <<faultVars, recovering, asleep, pathVars, sending>>

\* Mutant: the buffers are cleared before they are swapped out, not after.
SwapAfterClearing(t) ==
  /\ pc[t] = "swap"
  /\ todo' = [todo EXCEPT ![t] = EmptyBuffers]
  /\ buffer' = EmptyBuffers
  /\ Goto(t, "replay")
  /\ UNCHANGED <<faultVars, recovering, asleep, pathVars, sending>>

\* flush_fault_buffers swaps the buffers out under the lock ...
SwapFaultBuffers(t) ==
  /\ pc[t] = "swap"
  /\ todo' = [todo EXCEPT ![t] = buffer]
  /\ buffer' = EmptyBuffers
  /\ Goto(t, "replay")
  /\ UNCHANGED <<faultVars, recovering, asleep, pathVars, sending>>

\* ... and replays them without it: topic by topic, the send topics first.
ReplayOne(t) ==
  /\ pc[t] = "replay"
  /\ \E k \in Topics :
       /\ todo[t][k] # <<>>
       /\ \A j \in Topics : j < k => todo[t][j] = <<>>
       /\ Dispatch(k, Head(todo[t][k]), k \in Limited)
       /\ todo' = [todo EXCEPT ![t][k] = Tail(@)]
  /\ UNCHANGED <<faultVars, recovering, buffer, asleep, pc, hand, sending, next>>

FinishRecovery(w) ==
  /\ pc[w] = "replay"
  /\ todo[w] = EmptyBuffers
  /\ recovering' = FALSE
  /\ Goto(w, "notify")
  /\ UNCHANGED <<faultVars, buffer, asleep, todo, pathVars, sending>>

NotifyRecovered(w) ==
  /\ pc[w] = "notify"
  /\ asleep' = {}
  /\ Goto(w, "gate")
  /\ UNCHANGED <<faultVars, recovering, buffer, todo, pathVars, sending>>

-----------------------------------------------------------------------------
(* The fault gate: the locked section of dispatch_send_message,
   dispatch_received_message and consume_send_message_if_fault_active. *)

AtGate(w) == pc[w] = "gate" /\ w \notin asleep

FaultWindowOpen == active /\ ~expired

WaitForRecovery(w) ==
  /\ AtGate(w)
  /\ recovering
  /\ asleep' = asleep \cup {w}
  /\ UNCHANGED <<faultVars, recovering, buffer, pc, hand, todo, queue, sending, next, out>>

\* Mutant: "buffer" keeps one message, as "latest" does.
ApplyPolicyLatestOnly(policy, held, m) == IF policy = "drop" THEN held ELSE <<m>>

\* Mutant: "latest" keeps the first message.
ApplyPolicyKeepFirst(policy, held, m) ==
  IF policy = "drop" \/ (policy = "latest" /\ held # <<>>) THEN held ELSE Append(held, m)

ApplyFaultPolicy(policy, held, m) ==
  CASE policy = "drop"   -> held
    [] policy = "latest" -> <<m>>
    [] policy = "buffer" -> Append(held, m)

ConsumeByFault(w) ==
  /\ AtGate(w)
  /\ ~recovering
  /\ FaultWindowOpen
  /\ LET k == hand[w].topic
     IN  buffer' = [buffer EXCEPT ![k] = ApplyFaultPolicy(Policy[k], @, hand[w].msg)]
  /\ hand' = [hand EXCEPT ![w] = NoMessage]
  /\ Goto(w, "idle")
  /\ UNCHANGED <<faultVars, recovering, asleep, todo, queue, sending, next, out>>

\* Mutant: the fault window is not looked at.
PassGateBlind(w) ==
  /\ AtGate(w)
  /\ ~recovering
  /\ hand' = [hand EXCEPT ![w].gates = 1]
  /\ Goto(w, IF hand[w].gates = 2 THEN "check" ELSE "deliver")
  /\ UNCHANGED <<faultVars, recovering, buffer, asleep, todo, queue, sending, next, out>>

\* Mutant: no waiting for the replay.
PassGateNoWait(w) ==
  /\ AtGate(w)
  /\ ~FaultWindowOpen
  /\ hand' = [hand EXCEPT ![w].gates = 1]
  /\ Goto(w, IF hand[w].gates = 2 THEN "check" ELSE "deliver")
  /\ UNCHANGED <<faultVars, recovering, buffer, asleep, todo, queue, sending, next, out>>

PassFaultGate(w) ==
  /\ AtGate(w)
  /\ ~recovering
  /\ ~FaultWindowOpen
  /\ IF hand[w].gates = 2
     THEN /\ hand' = [hand EXCEPT ![w].gates = 1]
          /\ Goto(w, "check")
     ELSE /\ Goto(w, "deliver")
          /\ UNCHANGED hand
  /\ UNCHANGED <<faultVars, recovering, buffer, asleep, todo, queue, sending, next, out>>

-----------------------------------------------------------------------------
(* node_fault_monitor_func. It holds the mutex from one wait to the next. *)

\* The head of the loop, with the threads in waiting asleep: leave, wait for a
\* fault, or wait for the end of the one there is.
MonitorLoop(waiting) ==
  /\ Goto(Monitor, IF ~running THEN "done" ELSE IF active THEN "timed" ELSE "wait")
  /\ asleep' = IF running THEN waiting \cup {Monitor} ELSE waiting \ {Monitor}

MonitorWake ==
  /\ \/ pc[Monitor] = "loop"
     \/ pc[Monitor] = "wait" /\ Monitor \notin asleep
  /\ MonitorLoop(asleep)
  /\ UNCHANGED <<faultVars, recovering, buffer, todo, pathVars, sending>>

\* Mutant: the monitor ends the fault and forgets the flush.
MonitorTimedWakeNoFlush ==
  /\ pc[Monitor] = "timed"
  /\ Monitor \notin asleep \/ expired
  /\ active' = (active /\ ~expired)
  /\ Goto(Monitor, IF running THEN "loop" ELSE "done")
  /\ asleep' = asleep \ {Monitor}
  /\ UNCHANGED <<running, expired, faults, since, recovering, buffer, todo, pathVars, sending>>

\* wait_until returns: notified, or node_fault_until has passed.
MonitorTimedWake ==
  /\ pc[Monitor] = "timed"
  /\ Monitor \notin asleep \/ expired
  /\ IF running /\ FaultExpired
     THEN /\ BeginRecovery(Monitor)
          /\ asleep' = asleep \ {Monitor}
     ELSE /\ MonitorLoop(asleep)
          /\ UNCHANGED <<active, recovering>>
  /\ UNCHANGED <<running, expired, faults, since, buffer, todo, pathVars, sending>>

\* Mutant: nobody is notified of the end of the recovery.
MonitorFinishSilently ==
  /\ pc[Monitor] = "replay"
  /\ todo[Monitor] = EmptyBuffers
  /\ recovering' = FALSE
  /\ MonitorLoop(asleep)
  /\ UNCHANGED <<faultVars, buffer, todo, pathVars, sending>>

MonitorFinishRecovery ==
  /\ pc[Monitor] = "replay"
  /\ todo[Monitor] = EmptyBuffers
  /\ recovering' = FALSE
  /\ MonitorLoop({})
  /\ UNCHANGED <<faultVars, buffer, todo, pathVars, sending>>

-----------------------------------------------------------------------------
(* Starting a fault: the control server (src/control_server.cpp) and the timer
   thread of schedule_node_fault. *)

\* The critical section of start_node_fault.
StartNodeFault ==
  IF running
  THEN /\ active' = TRUE
       /\ expired' = FALSE
       /\ buffer' = EmptyBuffers
       /\ faults' = faults + 1
       /\ since' = next
  ELSE UNCHANGED <<active, expired, buffer, faults, since>>

\* Mutant: the monitor is not told of the new fault.
NotifyNone == UNCHANGED asleep

\* notify_one: some waiting thread, if there is one.
NotifyOne == IF asleep = {} THEN UNCHANGED asleep
             ELSE \E t \in asleep : asleep' = asleep \ {t}

\* Mutant: no busy check.
ControlRequestUnchecked ==
  /\ pc[Control] = "idle"
  /\ faults < MaxFaults
  /\ Goto(Control, "start")
  /\ UNCHANGED <<faultVars, recovering, buffer, asleep, todo, pathVars, sending>>

\* handle_control_request: is_node_fault_busy says no.
ControlRequest ==
  /\ pc[Control] = "idle"
  /\ ~active /\ ~recovering
  /\ faults < MaxFaults
  /\ Goto(Control, "start")
  /\ UNCHANGED <<faultVars, recovering, buffer, asleep, todo, pathVars, sending>>

TimerFires ==
  /\ pc[Timer] = "idle"
  /\ faults < MaxFaults
  /\ Goto(Timer, "start")
  /\ UNCHANGED <<faultVars, recovering, buffer, asleep, todo, pathVars, sending>>

Start(t) ==
  /\ pc[t] = "start"
  /\ StartNodeFault
  /\ Goto(t, IF running THEN "notifyOne" ELSE "started")
  /\ UNCHANGED <<running, recovering, asleep, todo, pathVars, sending>>

StartNotify(t) ==
  /\ pc[t] = "notifyOne"
  /\ NotifyOne
  /\ Goto(t, "started")
  /\ UNCHANGED <<faultVars, recovering, buffer, todo, pathVars, sending>>

\* The control thread takes the next request, the timer thread ends.
StartReturn(t) ==
  /\ pc[t] = "started"
  /\ Goto(t, IF t = Control THEN "idle" ELSE "done")
  /\ UNCHANGED <<faultVars, recovering, buffer, asleep, todo, pathVars, sending>>

-----------------------------------------------------------------------------
(* Shutdown, in the order of main() after ros::spin(). *)

SpinReturns ==
  /\ pc[Main] = "idle"
  /\ Goto(Main, "joinControl")
  /\ UNCHANGED <<faultVars, recovering, buffer, asleep, todo, pathVars, sending>>

\* The control thread sees control_thread_running cleared between two requests.
ControlExit ==
  /\ pc[Main] = "joinControl"
  /\ pc[Control] = "idle"
  /\ Goto(Control, "done")
  /\ UNCHANGED <<faultVars, recovering, buffer, asleep, todo, pathVars, sending>>

\* stop_node_fault_control: its critical section, its notify_all, its join.
StopNodeFaultControl ==
  /\ pc[Main] = "joinControl"
  /\ pc[Control] = "done"
  /\ running' = FALSE
  /\ active' = FALSE
  /\ recovering' = FALSE
  /\ Goto(Main, "stopNotify")
  /\ UNCHANGED <<expired, faults, since, buffer, asleep, todo, pathVars, sending>>

\* Mutant: stop_node_fault_control joins without notifying.
StopWithoutNotify ==
  /\ pc[Main] = "stopNotify"
  /\ Goto(Main, "joinMonitor")
  /\ UNCHANGED <<faultVars, recovering, buffer, asleep, todo, pathVars, sending>>

StopNotify ==
  /\ pc[Main] = "stopNotify"
  /\ asleep' = {}
  /\ Goto(Main, "joinMonitor")
  /\ UNCHANGED <<faultVars, recovering, buffer, todo, pathVars, sending>>

JoinMonitor ==
  /\ pc[Main] = "joinMonitor"
  /\ pc[Monitor] = "done"
  /\ Goto(Main, "stopSend")
  /\ UNCHANGED <<faultVars, recovering, buffer, asleep, todo, pathVars, sending>>

\* stop_send_bitrate_control of the next limited topic, and its join.
StopSend(k) ==
  /\ pc[Main] = "stopSend"
  /\ k \in sending
  /\ \A j \in sending : k <= j
  /\ sending' = sending \ {k}
  /\ Goto(Main, "joinSend")
  /\ UNCHANGED <<faultVars, recovering, buffer, asleep, todo, pathVars>>

JoinSend ==
  /\ pc[Main] = "joinSend"
  /\ \A k \in Limited \ sending : pc[k] = "done"
  /\ Goto(Main, "stopSend")
  /\ UNCHANGED <<faultVars, recovering, buffer, asleep, todo, pathVars, sending>>

Stopped ==
  /\ pc[Main] = "stopSend"
  /\ sending = {}
  /\ Goto(Main, "stopped")
  /\ UNCHANGED <<faultVars, recovering, buffer, asleep, todo, pathVars, sending>>

-----------------------------------------------------------------------------
\* The fault window closes by the passing of time.
Expire ==
  /\ ~expired
  /\ expired' = TRUE
  /\ UNCHANGED <<running, active, faults, since, recovering, buffer, asleep, pc,
                 todo, pathVars, sending>>

\* A condition variable may wake a waiter nobody notified.
SpuriousWakeup(t) ==
  /\ t \in asleep
  /\ asleep' = asleep \ {t}
  /\ UNCHANGED <<faultVars, recovering, buffer, pc, todo, pathVars, sending>>

\* main() has returned: the process is gone whatever its other threads do.
Terminated == pc[Main] = "stopped" /\ UNCHANGED vars

\* Steps every worker and the monitor take once they carry a message or flush.
GateStep(w) ==
  \/ FlushExpiredFaultIfNeeded(w) \/ WaitForRecovery(w) \/ ConsumeByFault(w)
  \/ PassFaultGate(w) \/ Deliver(w) \/ FinishRecovery(w) \/ NotifyRecovered(w)
FlushStep(t) == SwapFaultBuffers(t) \/ ReplayOne(t)
MonitorStep == MonitorWake \/ MonitorTimedWake \/ MonitorFinishRecovery
StarterStep(t) == Start(t) \/ StartNotify(t) \/ StartReturn(t)
SendFuncStep(k) == SendFuncPop(k) \/ SendFuncExit(k)
StopStep ==
  \/ ControlExit \/ StopNodeFaultControl \/ StopNotify \/ JoinMonitor
  \/ (\E k \in Limited : StopSend(k)) \/ JoinSend \/ Stopped

Next ==
  \/ \E k \in SendTopics : SubCallback(k)
  \/ \E k \in RecvTopics : Receive(k)
  \/ \E k \in Limited : SendFuncStep(k)
  \/ \E w \in Workers : GateStep(w)
  \/ \E t \in Flushers : FlushStep(t)
  \/ MonitorStep
  \/ ControlRequest
  \/ TimerFires
  \/ \E t \in {Control, Timer} : StarterStep(t)
  \/ SpinReturns
  \/ StopStep
  \/ Expire
  \/ \E t \in Flushers : SpuriousWakeup(t)
  \/ Terminated

Spec == Init /\ [][Next]_vars

\* What thread t does by itself, with no message or request from outside.
ThreadStep(t) ==
  \/ t \in Workers /\ GateStep(t)
  \/ t \in Flushers /\ FlushStep(t)
  \/ t \in Limited /\ SendFuncStep(t)
  \/ t \in {Control, Timer} /\ StarterStep(t)
  \/ t = Monitor /\ MonitorStep
  \/ t = Main /\ StopStep

(***************************************************************************)
(* Fairness: the operating system runs every runnable thread, the clock    *)
(* advances and tokens accumulate.  No ROS or ZMQ message, no control      *)
(* request, no timer, no shutdown and no spurious wakeup has to come.      *)
(***************************************************************************)
Fairness ==
  /\ \A t \in Threads : WF_vars(ThreadStep(t))
  /\ WF_vars(Expire)

LiveSpec == Spec /\ Fairness

-----------------------------------------------------------------------------
Places == {"idle", "check", "swap", "replay", "notify", "gate", "deliver", "loop",
           "wait", "timed", "start", "notifyOne", "started", "joinControl",
           "stopNotify", "joinMonitor", "stopSend", "joinSend", "stopped", "done"}

\* Every variable has the shape the code gives it, and the wait set holds only
\* threads that wait on node_fault_condition; a bitrate queue keeps its bound.
TypeOK ==
  /\ running \in BOOLEAN
  /\ active \in BOOLEAN
  /\ expired \in BOOLEAN
  /\ recovering \in BOOLEAN
  /\ buffer \in [Topics -> Seq(Nat)]
  /\ asleep \subseteq Flushers
  /\ pc \in [Threads -> Places]
  /\ hand \in [Workers -> Message]
  /\ todo \in [Flushers -> [Topics -> Seq(Nat)]]
  /\ queue \in [Topics -> Seq(Nat)]
  /\ \A k \in Topics : Len(queue[k]) <= QueueCap
  /\ sending \subseteq Limited
  /\ next \in [Topics -> Nat]
  /\ out \in [Topics -> Seq(Nat)]
  /\ faults \in Nat
  /\ since \in [Topics -> Nat]
=============================================================================
