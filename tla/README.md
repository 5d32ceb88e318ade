# A verification development of swarm_ros_bridge

`swarm_ros_bridge` forwards ROS 1 topics between machines over ZeroMQ. One process,
the *bridge node*, runs on each machine; it subscribes to the local topics it has to
send, publishes the topics it receives, and can *simulate* bad communication: a
limit on the message frequency, a limit on the bitrate, and a *node fault*, a window
of time in which nothing goes out or comes in. What happens to the messages of the
window is the topic's `fault_policy`: `drop`, `buffer` (keep and replay all) or
`latest` (keep and replay the last).

This directory holds TLA+ models of the parts of that program that are hard to test,
TLC configurations that check them on small instances and TLAPS proofs of the
properties that matter most. `PROJECT.json` relates every definition to source lines.

## 1. Inventory

| Component | State | Operations | Meets the others through |
|---|---|---|---|
| Communication control, faults (`src/src/sim_comm.cpp`) | `node_fault_active`, `node_fault_recovering`, `node_fault_until`, `node_fault_thread_running`, the send and receive fault buffers, all under `node_fault_mutex`; `node_fault_condition` | `start_node_fault`, `schedule_node_fault`, `is_node_fault_busy`, `dispatch_send_message`, `dispatch_received_message`, the second gate of `send_func`, the monitor thread, `flush_fault_buffers`, `stop_node_fault_control` | called by the ROS spin thread, one receive thread per topic, one send thread per limited topic, the control thread, the timer thread; calls ZMQ and the publish callback |
| Communication control, bitrate (`sim_comm.cpp`) | per limited topic: a bounded queue, its byte count, the token bucket of its send thread | `enqueue_send_message`, `send_func`, `stop_send_bitrate_control` | filled by the spin thread and by replays, emptied by the send thread, whose messages meet the fault gate again |
| Frequency control (`src/src/bridge_node.cpp`, `send_freq_control`) | per send topic: start of the period, count of the period | one decision per message | ROS time; first filter of `sub_cb` |
| Bridge node paths (`bridge_node.cpp`, `sub_cb`, `recv_func`) | sockets, publishers, thread flags | send, receive, publish | sim_comm |
| Start-up and shut-down (`main`, `stop_send`, `stop_recv`) | threads, sockets | configuration checks, start, ordered stop | all |
| Control server (`src/src/control_server.cpp`) | a REP socket, a running flag, the bind handshake | request checks, busy check, start of a fault, stop and join | remote client; sim_comm |
| Fault trigger client (`src/scripts/trigger_fault.py`) | none | one request with a timeout | control server |
| Configuration parsing (`sim_comm.cpp`, `bridge_node.cpp`) | none | bitrates, policies, ports, limits | `main` |
| ROS type tables (`src/include/ros_sub_pub.hpp`) | none | subscribe, advertise, deserialize by the name of a type | `main`, `publish_received_message` |
| Launch files, YAML, scripts | none | - | - |

What is hard here: up to five kinds of threads write two flags under one mutex, but
every operation is *several* critical sections; one condition variable serves the
monitor (waiting for a fault to start or to expire) and the workers (waiting for a
replay to end), and is notified with `notify_one` in one place; a replay runs without
the lock, at its own pace, while messages arrive and requests come; the process may be
asked to stop in the middle of it. What makes the components correct:

* faults: one recovery at a time; buffers empty outside a fault; nothing lost,
  duplicated, leaked into a fault window or put out of order beyond what the policy
  says; every fault ends, every waiting thread comes back, shutdown completes;
* bitrate: the rate is kept over any interval, the backlog stays within its two
  bounds and moves, the byte account matches the queue;
* frequency: the limit is kept over any interval;
* two nodes: a fault at either delays messages and loses none that the policy keeps,
  also when both have one; what the connection between them loses is all that is lost.

The hazards, each at its line, are listed in `PROJECT.json` with the properties aimed
at them, or with the reason why none is yet.

## 2. Modules

| Module | Models | Kind |
|---|---|---|
| `SimComm` | faults, buffers, recovery, gates, monitor, bounded queues, start by control server and timer, stop | specification, type invariant |
| `SimCommProperties` | - | safety, action and liveness properties of `SimComm` |
| `FaultLink` | what `SimComm` promises: a link that is up, down, over, recovering or stopped, with a backlog per topic | abstract specification |
| `MCSimComm` | - | constants for TLC |
| `TwoNodes`, `MCTwoNodes`, `TwoNodesProofs` | the way of a message from `sub_cb` of one node to the ROS publisher of another, each node a `FaultLink`, a connection per topic in between | composition with properties, constants, proofs |
| `SimCommProofs`, `SimCommLinkProofs` | - | proofs about `SimComm`: types, flags, messages, sockets; order, and the step by step mapping to `FaultLink` |
| `MessageSequences`, `MessageSequencesProofs` | - | what "out of order" and "twice" mean for sequences of messages, which `SimComm` and `TwoNodes` share; lemmas about them |
| `BitrateQueue`, `MCBitrateQueue`, `BitrateQueueProofs` | queue and token bucket of one topic, in bytes and ticks | specification with properties, constants, proofs |
| `FreqControl`, `FreqControlProofs` | `send_freq_control` | specification with properties, proofs |
| `ControlServer`, `MCControlServer`, `ControlServerProofs` | the control thread, its start and stop, the clients | specification with properties, constants, proofs |
| `TopicConfig` | how optional fields of a topic are read, which message types are compiled in | operators |
| `BridgeLifecycle`, `MCBridgeLifecycle`, `BridgeLifecycleProofs` | `main()` from its parameters to the exit status, resources and threads | specification with properties, constants, proofs |

The modules overlap on purpose, each abstracting what the other details: `SimComm` sees
of a limited topic a bounded sequence, of the control server a busy check and a start;
`ControlServer` sees of the fault module whether it runs and is busy; `BridgeLifecycle`
sees of a fault that somebody replays, of the control server that it started or not.

### SimComm and the code

One action is one critical section of `node_fault_mutex`, or one step between two of
them. `pc[t]` says between which two sections thread `t` is.

| Code | Actions |
|---|---|
| `sub_cb` / `recv_func` hands over a message | `SubCallback`, `Receive` |
| `send_func` takes one from its queue, or returns | `SendFuncPop`, `SendFuncExit` |
| `flush_expired_fault_if_needed`: first section; swap; replay; second section; `notify_all` | `FlushExpiredFaultIfNeeded`, `SwapFaultBuffers`, `ReplayOne`, `FinishRecovery`, `NotifyRecovered` |
| the locked gate of `dispatch_send_message`, `dispatch_received_message`, `consume_send_message_if_fault_active`: wait, buffer, or pass | `WaitForRecovery`, `ConsumeByFault`, `PassFaultGate` |
| ZMQ send, publish or `enqueue_send_message` after the gate | `Deliver` |
| `node_fault_monitor_func` | `MonitorWake`, `MonitorTimedWake`, swap and replay as above, `MonitorFinishRecovery` |
| `handle_control_request` after the busy check, the timer thread, `start_node_fault`, its `notify_one`, its return | `ControlRequest`, `TimerFires`, `Start`, `StartNotify`, `StartReturn` |
| `main` after `ros::spin()` | `SpinReturns`, `ControlExit`, `StopNodeFaultControl`, `StopNotify`, `JoinMonitor`, `StopSend`, `JoinSend`, `Stopped` |
| the clock passes `node_fault_until`; a spurious wakeup | `Expire`, `SpuriousWakeup` |

A message of an unlimited send topic meets the gate twice in one call
(`dispatch_send_message`, then `dispatch_send_message_after_fault` looks again), so
`hand[w].gates` counts the gates still ahead. A request that is refused changes
nothing and is a stutter.

Abstractions: a message is its number in the order its topic accepted it; time is the
one bit the code derives from it; the delays of a replay are arbitrary, 0 included;
tokens are left to `BitrateQueue`, so a send thread may take a message at any time; a
bitrate queue is bounded in messages alone; ZMQ and ROS accept what they are given.
`faults` and `since` are observers' variables (faults started, and how far each topic
was then). A fault at configuration time with `start_after` 0 starts before
`ros::spin()` and is a timer that fires at once.

### FaultLink, and how SimComm implements it

`FaultLink` has no thread, lock or condition variable. A topic has at most one message
between its acceptance and its end: `arrived`, then `entered` (it has looked at the clock
for the first time), then `cleared` by the gate, then out; or it is held. The refinement
mapping in `SimCommProperties` (`Link == INSTANCE FaultLink WITH ...`) reads

| `FaultLink` | `SimComm` |
|---|---|
| `phase` | `running`, `recovering`, `active` and `expired`, in this order |
| `stage[k]` | the worker that carries a message of `k`: its `pc`, and for the spin thread how many gates are still ahead |
| `backlog[k]` | the fault buffer, or what the thread that swapped it out has yet to replay |
| `accepted`, `out` | `next`, `out` |

The swap, the second critical section of a recovery, every notification, wait and join
are stutters. `ImplementsLink` is `Link!Spec` as a temporal property, so TLC checks that
*each* step of each thread is one of `FaultLink`. It contains that a fault starts only on
a link that is up, that a recovery ends only with all backlogs empty, that a message
which finds the window over waits if something is held back, and that only a received
message may go ahead of its backlog (`InTime`). It holds without timer, whose re-entry is
no step of `FaultLink`, and without bitrate limits, whose queue drops; under these two
conditions `SimCommLinkProofs!LinkImplemented` proves it for every number of topics,
messages and faults. `TwoNodes` may therefore be built of `FaultLink`s.

### TwoNodes and the code

| Code | Actions |
|---|---|
| `sub_cb`; `send_serialized_message` on a PUB socket, from the callback or a replay | `SubCallback`; `SendSerializedMessage` |
| `recv_func`; `publish_received_message`, from the receive thread or a replay | `RecvFunc`; `PublishReceivedMessage` |
| the gates of both nodes; their faults and recoveries | `SenderGate`, `ReceiverGate`; `SenderFault`, `SenderRecovers`, `ReceiverFault`, `ReceiverRecovers` |
| ZeroMQ (external): a subscription arrives, a connection breaks | `Connect`, `Disconnect` |

Because both nodes are `FaultLink`s, `TwoNodes` is small enough to have two topics, two
nodes and a fault at each. A connection holds `HighWater` messages, the queues of both
sockets together; `send` on a PUB socket never waits and drops what has no room or no
subscriber. When a connection breaks, what has reached the SUB socket stays and the rest
of the way is lost. `arrived` lists what a receive thread got: the receiving node numbers
messages in this order, so `Sent` translates its numbers back to those of the sender.

### BitrateQueue and FreqControl

The actions of `BitrateQueue` are the critical sections of the topic's queue mutex; the
two condition waits of `send_func` need no state because both re-read what they wait
for. `Pop` pays for a message and takes it in hand; what happens to it then, after any
time in the gate of `consume_send_message_if_fault_active`, is `SendSerializedMessage` or
`ConsumedByFault`, and only the first counts as `sent`. A replay is another producer
(`EnqueueSendMessage`). Tokens are whole bytes. `markTime` and `markSent` belong to an observer who may
start measuring at any moment (`Mark`): this states a bound over *every* interval as
an invariant. `FreqControl` has the same kind of observer; the floating-point division
of the code is modelled by its outcome for elapsed times that are positive, zero
(infinity, so the message is discarded) and negative (never above the limit).

### ControlServer and the code

| Code | Actions |
|---|---|
| `start_control_server`, its wait for the promise, its join after a failure | `StartControlServer`, `StartupKnown`, `JoinFailed` |
| `stop_control_server`, its join; `stop_node_fault_control` after it | `StopControlServer`, `JoinControl`, `StopNodeFaultControl` |
| `control_thread_main`: bind, loop condition, non-blocking receive, send, exceptions, end | `Bind`, `Poll`, `ReceiveRequest`, `SendReply`, `ServerFails`, `ThreadEnds` |
| `handle_control_request`: the checks of the text, the busy check, the start | `CheckRequest` (`Refusal`), `CheckBusy`, `StartNodeFault` |
| `trigger_fault.py`: request, answer, timeout | `ClientSend`, `ClientReceive`, `ClientGiveUp` |

A request is a record of what the checks tell apart. A client that asks again is another
client. What is under way is a set: ZeroMQ keeps a request until the server is there and
may deliver the requests of different clients in any order. The service is written so
that each request is handled once; an answer to a client that has gone is dropped.

### BridgeLifecycle and the code

`main()` is a sequence of phases with a loop over topics in most of them; a step of a
loop is an action (`ParseSendTopic`, `BindSender`, `ConnectReceiver`, `Subscribe`,
`Advertise`, `StartSendThread`, `StartRecvThread`, `StopSend`/`CloseSender`, `StopRecv`),
and so is each call in between. `Exit` is `return` or `exit()`: global destructors run,
and one of them meets a joinable `std::thread` if there is any; `Abort` is an exception
that nobody catches. `told` is the set of the threads whose running flag is cleared.
A replay is a position `replay[t]` that moves over the topics in the order of
`flush_fault_buffers` and needs, per topic, an open socket or publisher. Use of a closed
socket ends the process, or blocks for ever where the code blocks in `receive`. What the
detached timer thread may meet after `main()` has returned is left out.

`TopicConfig` has the fields of a topic as `main()` reads them: `max_bitrate` by its
XmlRpc type, what `std::stod` makes of the digits, the suffix; `fault_policy` as text or
something else; the message type looked up by three searches. A function that calls
`exit(1)` is a predicate beside an operator for the result. `Valid` in `BridgeLifecycle`
says independently what the documentation asks of a configuration.

## 3. Runs

| Run | Instance | Question |
|---|---|---|
| `simcomm_remote` | 1 send topic `latest`, 1 receive topic `buffer`, 2 messages sent and 3 received, 2 faults by the control server, stop at any time, fairness; 0.57 M states | are the flags consistent, is anything lost, leaked or reordered, do two threads ever write to one socket, is it a `FaultLink`, does every buffered message get out |
| `simcomm_live` | 1 limited topic `buffer`, queue of 1, 2 messages, 2 faults of which one by timer, fairness; 0.26 M states | types, no duplicates even when recoveries overlap; faults end, threads return, stop completes |
| `two_nodes` | 2 topics, one with `buffer` at both nodes and 3 messages, one with `drop` at the sender, `latest` at the receiver and 1 message, a fault at each node, a connection of 1 message that breaks and comes back, fairness; 0.27 M states | is anything mislaid or doubled, who reorders, does all that is not lost arrive |
| `bitrate_queue` | lengths 0, 2, 3, rate 1, window 2, queue of 3, 6 ticks, fairness; 0.19 M states | account, bounds, rate, progress of the backlog |
| `freq_control` | limit 3 per 2 ticks, clock 0..8, 11 messages | limit over intervals |
| `control_server` | 2 clients, 7 requests (a good one, one per check, one that fails several), timer, token; 97 k states | are answers true, do start and stop end, is every request answered |
| `bridge_lifecycle` | 11 good configurations with 0 to 2 send topics and 0 or 1 receive topic, 9 bitrates, good and bad, 11 other bad ones; 65 k states | are configurations judged before threads start, does everything exist before it is used, is the stop clean |
| `receive_order`, `limited_latest`, `limited_replay`, `scheduled_reentry`, `exit_status` | smallest that show it | section 5 |

Why the bounds are enough: the fault machine distinguishes "this fault" and "the one
before" (with the timer a third can overlap both, see finding 4); the monitor, one worker that
flushes and one that waits are all the roles threads play, and the two topics of
`simcomm_remote` give a thread for each. Its receive topic has three messages, one before, one
inside and one after a fault; its send topic, which never reorders, has two: the newest and
one to be replaced by it. Windows and queues are small enough to overflow in every way the
loop of `enqueue_send_message` distinguishes. In `two_nodes` a topic of three messages is
what can be held at both nodes, on the way and in hand at once; the second topic is there
because a recovery serves all topics of a node and a receive thread waits for all of them;
a connection of one message drops as soon as two are sent in a row. Two clients are one in hand and one that
waits or gives up beside it; two send topics have every order of limited and unlimited.
The bounds `MaxMsg`, `MaxFaults`,
`MaxTime` and `MaxForwarded` appear in guards only.

Deadlock is checked in the passing runs: `Terminated` is the stutter of a process that
has returned from `main` (the same in `ControlServer` and `BridgeLifecycle`, which may also
end by `std::terminate`); in `BitrateQueue` and `FreqControl` the observer can always
go on.

Fairness (`LiveSpec`): weak fairness of the steps of each thread, since the operating
system runs every runnable thread, and of `Expire`, since `steady_clock` advances. A
send thread is fair because tokens accumulate with time, which `BitrateQueue` shows
(`BacklogMoves`) from the fairness of its thread and its clock; its `SendFunc` in turn
comes back from the gate by `WorkersReturn`. Nothing is assumed of ROS or
ZMQ messages, requests, timers, the user's shutdown or spurious wakeups: a message in
a buffer gets out without new traffic. In `ControlServer` the two threads of the node are
fair, the clients, the network and the failures of the socket are not; in
`BridgeLifecycle` `main()`, replays under way and threads that are told to stop. In
`TwoNodes` gates, sends, publishes, receptions and the course of a fault are fair, each by
the fairness of the threads and of the clock above; new messages, faults, connections and
breaks are not.

Some results of the runs are worth knowing. `BufferedGetsOut` is about topics without limit
and faults without timer, and there admits no loss; on a limited topic and with the timer
messages are lost (findings 3 and 4). `IntervalRateKept`: from a moment on, a topic may put
one bucket *and* one message above its rate on the wire, because a message that was paid
for and then held through a recovery leaves together with the bucket refilled meanwhile;
without the message the bound is false. `SendOrderKept`: a send topic without a
bitrate limit never reorders, thanks to its *second* gate (with one gate it does, as
the mutant shows). `OneOvertakerPerFault`: a receive topic, which has one gate, lets
at most one message per fault overtake the buffered ones. `CleanExit`: a stop closes no
socket under a replay if nothing is received and every limited send topic comes before
every unlimited one in the configuration; with an unlimited one in front, its socket is
closed while the send thread of a later topic may still replay into it. `SocketNotShared`:
no lock keeps the spin thread and a replay from using one PUB socket at once, but the
second gate does. `ReceiverAloneReorders`: from end to end only a fault of the *receiving*
node puts messages out of order, one per topic and fault. `ConfigJudged`: the checks in
three modules accept what the documentation describes, and refuse the rest before any
thread could turn the exit status into that of `std::terminate`.

## 4. Proofs

TLAPS checks, for every value of the constants that satisfies the named assumption of the
module: `SimCommAssumption`, `BitrateAssumption`, `FreqAssumption`, `ControlAssumption`,
`LifecycleAssumption`, `TwoNodesAssumption`. They give the constants their types and no
more; TLC evaluates each of them in a run. Every inductive invariant below was also
checked by TLC on the instance of the run.

Most theorems about `SimComm` have the hypothesis `~ScheduledFault`: with the timer of
`schedule_node_fault` a start can re-enter and recoveries can overlap (finding 4), which
their invariant excludes. The policies are about
topics without a bitrate limit, except where it says otherwise, because of findings 2
and 3. Both kinds of nodes exist: the timer is off unless `node_fault_duration` is set, and
`max_bitrate` is optional.

### One node

*Flags* (`SimCommProofs`). `TypeCorrect`: `TypeOK` is inductive by itself, with and
without timer. `CoordinationHolds`, `RecoveriesDoNotOverlap`, `NothingStranded`,
`StartDestroysNothing`, `RemoteStartNeverReenters`: `SingleFlusher` and `BufferGuarded`
are not inductive, since a second flusher could appear if a fault were active beside a
recovery, and a start could make that so. `Coordination` adds what excludes it. While a
fault is active nobody flushes; between the busy check and the start
(`pc[Control] = "start"`) the module is running, idle and stays so, because only the
control thread starts faults and the stop joins it first; after the stop no fault is
active. Each action disturbs at most one of these conjuncts.

*Messages* (`SimCommProofs`). `StepMoves` sorts all actions into the seven things that can
happen to messages: a topic accepts one, a send thread takes one from its queue, the fault
consumes one, one gets out, a recovery swaps the buffers, it replays one, or nothing moves.
What each does to the messages the node knows of is a lemma each, which the theorems share.
`MessageInv` says who has messages: a worker carries one exactly between its entry point
and its end, and the receive and send threads only those of their own topic; a flusher has
some to replay only while it replays, and the fault buffers are empty then; an unlimited
topic has nothing queued. Then a worker of an unlimited topic carries the *newest* message,
because its topic accepts no other before; `latest` keeps the newest only for that reason.
From it: `BufferKeepsAll`, `LatestKeepsTheNewest`. `NothingLeaksOut` holds for limited
topics too: what is past the last gate when a window opens was accepted before.

*Sockets* (`SimCommProofs`). `SocketsNotShared` needs to follow what the spin thread has
learnt at its first gate up to ZMQ (`GateKept`): with a window open or over there is
nothing in the buffer of its topic, and past the second gate nobody has a replay of it
either. That no lock says so is why the property is worth a proof.

*No duplicates* (`SimCommProofs`). `NothingDoubled` is the one theorem about messages that
holds with timer *and* limits. The places of a topic are taken together (`Contents`: in
hand, queue, buffer, one per flusher, out); `CleanAt` says that no message is in two of
them or twice in one and that none has a number the topic has not given out. Each action
moves one message, moves a whole place into an empty one or drops some, and the lemmas of
`MessageSequencesProofs` say that this keeps the places clean. Overlapping recoveries do no
harm because each flusher empties the buffers in the section in which it reads them.

*Order* (`SimCommLinkProofs`). `SendKeepsOrder`: what is held is in order and newer than
what is out, and what a worker carries is newer still (`Ordered`, `SendOrdered`). For
receive topics the second part is false, and `OvertakersBounded` counts instead:
`AheadBounded` adds to the messages that have overtaken others those that will have once
the held ones get out, and asks for strictly fewer than faults as long as the last fault has
let none past (`Slack`); so the one message that uses this up is paid for.

*Refinement* (`SimCommLinkProofs`). `LinkImplemented`: `Spec => Link!Spec` for
`~ScheduledFault` and `Limited = {}`. The mapping is proved action by action; the phases
follow from `Coordination`, the backlog of a topic from `MessageInv` (at most one thread
replays and the fault buffers are empty meanwhile), the stage from a topic having one
carrier. Two facts had to be added (`LinkInv`): a worker that comes back from its own
recovery finds the buffer of its topic empty even if the next fault has begun
(`NotifyKept`), and only the spin thread has two gates ahead (`OneGate`).

### Bitrate and frequency

*Rate* (`BitrateQueueProofs`). `RateHolds`, `IntervalRateHolds`: the invariant
`TokenAccount` says what is sent, plus what is in hand, plus the tokens left is at most what
the bucket began with plus the rate times the time up to the last *refill* - from the
start, and, allowing for the one message the mark may find in hand, from the mark once a
refill came after it; before that nothing but this message was sent since the mark.

*Queue* (`BitrateQueueProofs`). `QueueTypeCorrect`, `BytesAlwaysExact`,
`BacklogStaysBounded`: `enqueue_send_message`, its loop and `send_func`
each keep the byte count with an addition or a subtraction, and `QueueInv` says that it
stays the sum. The sum is a recursive function over the queue, and no theorem of the
library gives its equation here, since those take operators as parameters. It is derived
from the least-number principle: among the lengths up to which no partial sums exist there
would be a smallest one, and the one before it has them; two different columns of partial
sums would differ at a smallest place.

*Frequency* (`FreqControlProofs`). `FreqTypeCorrect`, `IntervalFreqHolds`,
`PeriodFreqHolds`. The invariant `Measure` tells the period the observer began in from later
ones: in the first, what got through is bounded by the length of that period (and is none
if the period was overdue at the mark); later, periods past and the current one are bounded
each by its own length, and the lengths add up.

### Control server and process

*Control server* (`ControlServerProofs`). `ControlTypeCorrect`, `AnswersAreTrue`,
`NoThreadIsLeft`, `SpinIsBound`. `AnswersTrue` speaks of clients that were answered;
`Mail` follows a request from the wire to the answer: it is in one place at a time, has
started no fault before it is handled, and its answer says whether it has. The one step
that could lie is `start_node_fault` on a stopped module; `Phases` shows that the module
runs as long as the control thread does, because `main()` joins the thread before it stops
the module.

*Process* (`BridgeLifecycleProofs`), for every set of configurations, each with lists of
topics of any length. `LifecycleTypeCorrect`; `ConfigurationsJudged`: `main()` reads the
topics in four loops at different places, and `Judged` says which checks topic `i` has
passed when the loop `at` a phase is at topic `at`, up to `Valid` behind the last of them;
`Alone` says that no thread has been started until then, so an early exit keeps its status.
`ReadyBeforeAnyUse`: `Opened` says the same of sockets, publishers, queues and buffers.
`ExitsCleanly`: `Stopping` says which threads are over and which sockets are still there
after each phase of the stop; a limited topic's thread that is not over sits at or behind
the topic `stop_send` is at, so if the limited ones come first no socket it may replay into
is closed.

### Two nodes

`TwoNodesProofs`, for any policies, connections that break at any time and any number of
faults at both nodes. `Contents(k)` are the six stores of a topic (in hand of `sub_cb`,
held by the sender, on the wire, in hand of `recv_func`, held by the receiver, delivered),
in the numbers of the sender: `Through` translates those of the receiving node.
`StepContents` says that each step takes them along one of a few courses. Needed for it:
the receiving node only has numbers of messages that arrived (`Numbered`), and a sender
past its gate has no backlog (`Gates`).

* `NothingIsMislaid`: for a topic with `buffer` at both nodes, `Placed` says every accepted
  number is in exactly one store or lost. Cutting the wire is the step to look at: what is
  cut off becomes lost and what remains is not.
* `OnlyReceiverReorders`: the stores stand in line (`InLine`), each with smaller numbers
  than those behind it, except that a message in hand of `recv_func` may be delivered
  before the ones the receiver holds. `AheadBounded` counts as for one node, against the
  faults of the receiving node alone (`MayGetAhead`); the proof shows that no step of the
  sender or the connection adds to it.

### Only model-checked

* Liveness: `FaultEnds`, `WorkersReturn`, `BufferedGetsOut`, `StopCompletes`, `BacklogMoves`,
  `DeliveredOrLost`, `RequestsAnswered`, `StartAndStopComplete`. It rests on fairness and
  `ENABLED`, which are out of the prover's reach.
* The five violations of section 5: TLC's counterexamples are the evidence.

One proof attempt found an error in the model. `ConfigJudged` could not be proved for a
field of `max_bitrate` that is an XmlRpc int and "not a number" at once, which the earlier
type `BitrateField` contained and no run enumerated; the type now excludes it.

## 5. What the runs found

Each is a run that TLC refutes, of a property that a comment or the documentation
states.

1. `receive_order` (`sim_comm.cpp:1106`). `dispatch_received_message` reads the clock
   in two critical sections. If the window ends between them, the message finds
   neither a recovery nor an open window and is published before the buffered ones,
   which the comment at line 1100 rules out.
2. `limited_latest` (`sim_comm.cpp:465`). On a limited topic with `latest`, a message
   queued before the fault reaches the gate of `send_func` after a newer one was
   buffered by `dispatch_send_message`, and replaces it: the stale state is replayed.
3. `limited_replay` (`sim_comm.cpp:647`). A replay of a limited topic goes through its
   bounded queue, whose reader waits for the end of that very replay: of a long buffer
   only the end survives, although the policy says that all is replayed.
4. `scheduled_reentry` (`sim_comm.cpp:1041`). The timer starts a fault without the busy
   check and clears the buffers of the one under way. Two recoveries can then overlap under
   one flag; when the first has taken it down, a third fault may start, and the second
   recovery swaps out and sends what that fault holds back: `NoLeak` fails with the timer
   and three faults (`ScheduledFault = TRUE`, `MaxFaults = 3`). (Without timer no
   start re-enters: `RemoteStartNeverReenters`, and part of `ImplementsLink`.)
5. `exit_status` (`bridge_node.cpp:547`). A node with a receive topic never ends with
   status 0: `stop_recv` tells the receive thread to finish but nobody joins it, so the
   destructor of its `std::thread` calls `std::terminate` after `main()` has returned 0.
   The comment of `main()` reserves non-zero statuses for failures of configuration and
   start. (For the same reason `return 4` never gives status 4: the monitor runs by then.)

## 6. Plan

Done: the modules above, and a theorem for every invariant, every action property and
the refinement that a passing run checks. Left:

1. *With the timer*: what of `Coordination` survives a re-entrant start, so that the
   theorems about flags need not exclude it; `NothingDoubled` shows that it can be done.
2. *`FaultLink`* itself: a `buffer` topic holds each accepted message exactly once, so that
   it follows for one node from the refinement as well.
3. *Composition*: that two `SimComm`s with a connection implement `TwoNodes`.

## 7. Not modelled

* The pace of a replay (`get_fault_replay_interval`, `get_recv_fault_replay_interval`):
  delays are arbitrary, so no property depends on them. The documented time of a replay is
  a question of seconds, not of steps.
* `recv_flags_last`, which decides a log line, and the memory of vectors that grow under
  running threads (`bridge_node.cpp:545`): a data race on memory that is freed has no
  outcomes one could enumerate.
* Stop, bitrate limits and timers in `TwoNodes`: they are in `SimComm` and
  `BridgeLifecycle`, and would be no `FaultLink`.
* Serialisation, the queues of ROS, the destructor of the ZMQ context, the checks of the
  command line in `trigger_fault.py`, log texts, YAML and launch files, the demonstration
  scripts: no state of this program.
