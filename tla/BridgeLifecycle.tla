--------------------------- MODULE BridgeLifecycle ---------------------------
(***************************************************************************)
(* The life of a bridge node: main() of bridge_node.cpp from its           *)
(* parameters to its exit status, the resources it opens and closes, and   *)
(* the threads that use them.                                              *)
(*                                                                         *)
(* Of a fault this has what touches resources: that one may be active, and *)
(* that whoever finds it over replays into sockets and publishers, topic   *)
(* by topic, at its own pace. SimComm has the rest.                        *)
(***************************************************************************)
EXTENDS TopicConfig, Sequences, FiniteSets

CONSTANTS
  Configs,  \* the configurations to start with
  SubMax,   \* SUB_MAX
  None      \* not terminated

\* A topic of the configuration. One that is not well formed lacks a field that is not
\* optional, or has one of a type the code does not expect.
SendTopic == [wellFormed : BOOLEAN, bitrate : BitrateField, srcPort : Nat, policy : STRING,
              type : STRING]
RecvTopic == [wellFormed : BOOLEAN, policy : STRING, type : STRING]
\* ip: the parameter IP is there; timer: node_fault_duration > 0; control: control_enabled.
Config == [ip : BOOLEAN, send : Seq(SendTopic), recv : Seq(RecvTopic),
           timer : BOOLEAN, control : BOOLEAN]

Aborted == 134  \* the status a shell sees of a process that std::terminate ends

ASSUME LifecycleAssumption ==
  /\ Configs \subseteq Config
  /\ SubMax \in Nat
  /\ None \notin 0..Aborted

VARIABLES
  config,        \* the parameters of the node
  pc, at,        \* the phase of main(), and the topic its loop is at
  code,          \* exit status: None, what main() or exit() says, or Aborted
  spun,          \* ros::spin() has been reached
  senders, receivers, topicPubs,  \* per topic: "none", "open", "closed"
  queuesReady,   \* initialize_send_bitrate_control has run
  buffersReady,  \* initialize_node_fault_control has run
  thread,        \* std::thread of each: "none", "running", "ended", "joined"
  told,          \* threads whose running flag has been cleared
  timer,         \* the thread of schedule_node_fault has yet to fire
  faultActive,   \* node_fault_active
  replay         \* per thread: 0, or the topic whose fault buffer it replays

vars == <<config, pc, at, code, spun, senders, receivers, topicPubs, queuesReady, buffersReady,
          thread, told, timer, faultActive, replay>>
mainVars == <<pc, at, spun>>
resources == <<senders, receivers, topicPubs, queuesReady, buffersReady>>
threadVars == <<thread, told>>
faultVars == <<timer, faultActive, replay>>

NSend == Len(config.send)
NRecv == Len(config.recv)
Limited(i) == GetOptionalBitrateParam(config.send[i].bitrate) > 0

Main == <<"main", 0>>
Monitor == <<"monitor", 0>>
Control == <<"control", 0>>
Send(i) == <<"send", i>>
Recv(i) == <<"recv", i>>
SendThreads == {Send(i) : i \in {j \in 1..NSend : Limited(j)}}
RecvThreads == {Recv(i) : i \in 1..NRecv}
Threads == {Monitor, Control} \cup SendThreads \cup RecvThreads
Flushers == {Main, Monitor} \cup SendThreads \cup RecvThreads

Running(t) == IF t = Main THEN pc = "spin" ELSE thread[t] = "running"

Init ==
  /\ config \in Configs
  /\ pc = "params"
  /\ at = 1
  /\ code = None
  /\ spun = FALSE
  /\ senders = [i \in 1..NSend |-> "none"]
  /\ receivers = [i \in 1..NRecv |-> "none"]
  /\ topicPubs = [i \in 1..NRecv |-> "none"]
  /\ queuesReady = FALSE
  /\ buffersReady = FALSE
  /\ thread = [t \in Threads |-> "none"]
  /\ told = {}
  /\ timer = FALSE
  /\ faultActive = FALSE
  /\ replay = [t \in Flushers |-> 0]

-----------------------------------------------------------------------------
(* Ends of the process. *)

GoTo(phase) == pc' = phase /\ at' = 1
Up == pc # "exited"

\* return from main() or exit(): the destructor of a global std::thread that is still
\* joinable calls std::terminate.
Exit(status) ==
  /\ code' = IF \E t \in Threads : thread[t] \in {"running", "ended"} THEN Aborted ELSE status
  /\ GoTo("exited")
  /\ UNCHANGED <<config, spun, resources, threadVars, faultVars>>

\* An exception that nobody catches.
Abort ==
  /\ code' = Aborted
  /\ GoTo("exited")
  /\ UNCHANGED <<config, spun, resources, threadVars, faultVars>>

-----------------------------------------------------------------------------
(* main() goes through its phases; a loop over topics takes one step for each. *)

NextTopic == pc' = pc /\ at' = at + 1
InLoop(phase, n) == pc = phase /\ at <= n
LoopOver(phase, n) == pc = phase /\ at > n

GetParams ==
  /\ pc = "params"
  /\ \/ ~config.ip /\ Exit(1)
     \/ config.ip /\ NSend > SubMax /\ Exit(2)
     \/ /\ config.ip /\ NSend <= SubMax
        /\ GoTo("sendTopics")
        /\ UNCHANGED <<config, code, spun, resources, threadVars, faultVars>>

DuplicatePort == \E j \in 1..(at - 1) : config.send[j].srcPort = config.send[at].srcPort

\* A field that is not there or has the wrong type ends in an exception of XmlRpc, an
\* optional one in exit(1).
ParseSendTopic ==
  /\ InLoop("sendTopics", NSend)
  /\ LET topic == config.send[at]
         reads == BitrateReads(topic.bitrate) /\ PolicyReads(topic.policy)
         refused == GetOptionalBitrateParam(topic.bitrate) < 0 \/ DuplicatePort
     IN \/ ~topic.wellFormed /\ Abort
        \/ ~reads /\ Exit(1)
        \/ reads /\ refused /\ Exit(3)
        \/ /\ topic.wellFormed /\ reads /\ ~refused
           /\ NextTopic
           /\ UNCHANGED <<config, code, spun, resources, threadVars, faultVars>>

ParseRecvTopic ==
  /\ InLoop("recvTopics", NRecv)
  /\ LET topic == config.recv[at]
     IN \/ ~topic.wellFormed /\ Abort
        \/ ~PolicyReads(topic.policy) /\ Exit(1)
        \/ /\ topic.wellFormed /\ PolicyReads(topic.policy)
           /\ NextTopic
           /\ UNCHANGED <<config, code, spun, resources, threadVars, faultVars>>

\* Mutant: the send thread of a topic starts with its socket.
BindSenderAndStart ==
  /\ InLoop("bind", NSend)
  /\ \/ Abort
     \/ /\ senders' = [senders EXCEPT ![at] = "open"]
        /\ thread' = IF Limited(at) THEN [thread EXCEPT ![Send(at)] = "running"] ELSE thread
        /\ NextTopic
        /\ UNCHANGED <<config, code, spun, receivers, topicPubs, queuesReady, buffersReady,
                       told, faultVars>>

\* The address may not be of this machine, the port may be taken: bind throws.
BindSender ==
  /\ InLoop("bind", NSend)
  /\ \/ Abort
     \/ /\ senders' = [senders EXCEPT ![at] = "open"]
        /\ NextTopic
        /\ UNCHANGED <<config, code, spun, receivers, topicPubs, queuesReady, buffersReady,
                       threadVars, faultVars>>

InitializeSendBitrateControl ==
  /\ LoopOver("bind", NSend)
  /\ queuesReady' = TRUE
  /\ GoTo("connect")
  /\ UNCHANGED <<config, code, spun, senders, receivers, topicPubs, buffersReady, threadVars,
                 faultVars>>

ConnectReceiver ==
  /\ InLoop("connect", NRecv)
  /\ \/ Abort
     \/ /\ receivers' = [receivers EXCEPT ![at] = "open"]
        /\ NextTopic
        /\ UNCHANGED <<config, code, spun, senders, topicPubs, queuesReady, buffersReady,
                       threadVars, faultVars>>

Subscribe ==
  /\ InLoop("subscribe", NSend)
  /\ \/ ~Subscribes(config.send[at].type) /\ Exit(1)
     \/ /\ Subscribes(config.send[at].type)
        /\ NextTopic
        /\ UNCHANGED <<config, code, spun, resources, threadVars, faultVars>>

Advertise ==
  /\ InLoop("advertise", NRecv)
  /\ \/ ~Publishes(config.recv[at].type) /\ Exit(1)
     \/ /\ Publishes(config.recv[at].type)
        /\ topicPubs' = [topicPubs EXCEPT ![at] = "open"]
        /\ NextTopic
        /\ UNCHANGED <<config, code, spun, senders, receivers, queuesReady, buffersReady,
                       threadVars, faultVars>>

PoliciesKnown ==
  /\ \A i \in 1..NSend : PolicyParses(GetOptionalStringParam(config.send[i].policy, "drop"))
  /\ \A i \in 1..NRecv : PolicyParses(GetOptionalStringParam(config.recv[i].policy, "drop"))

\* Mutant: the policies are left to the first message that needs them.
InitializeNodeFaultControlLazily ==
  /\ pc = "faultControl"
  /\ buffersReady' = TRUE
  /\ thread' = [thread EXCEPT ![Monitor] = "running"]
  /\ GoTo("schedule")
  /\ UNCHANGED <<config, code, spun, senders, receivers, topicPubs, queuesReady, told, faultVars>>

\* parse_fault_policy calls exit(1), before the monitor starts.
InitializeNodeFaultControl ==
  /\ pc = "faultControl"
  /\ \/ ~PoliciesKnown /\ Exit(1)
     \/ /\ PoliciesKnown
        /\ buffersReady' = TRUE
        /\ thread' = [thread EXCEPT ![Monitor] = "running"]
        /\ GoTo("schedule")
        /\ UNCHANGED <<config, code, spun, senders, receivers, topicPubs, queuesReady, told,
                       faultVars>>

ScheduleNodeFault ==
  /\ pc = "schedule"
  /\ timer' = config.timer
  /\ GoTo("control")
  /\ UNCHANGED <<config, code, spun, resources, threadVars, faultActive, replay>>

\* As ControlServer has it: by its return the control thread takes requests, or is gone.
StartControlServer ==
  /\ pc = "control"
  /\ \/ config.control /\ Exit(4)
     \/ /\ thread' = IF config.control THEN [thread EXCEPT ![Control] = "running"] ELSE thread
        /\ GoTo("sendThreads")
        /\ UNCHANGED <<config, code, spun, resources, told, faultVars>>

StartSendThread ==
  /\ InLoop("sendThreads", NSend)
  /\ thread' = IF Limited(at) THEN [thread EXCEPT ![Send(at)] = "running"] ELSE thread
  /\ NextTopic
  /\ UNCHANGED <<config, code, spun, resources, told, faultVars>>

StartRecvThread ==
  /\ InLoop("recvThreads", NRecv)
  /\ thread' = [thread EXCEPT ![Recv(at)] = "running"]
  /\ NextTopic
  /\ UNCHANGED <<config, code, spun, resources, told, faultVars>>

Spin ==
  /\ LoopOver("recvThreads", NRecv)
  /\ spun' = TRUE
  /\ GoTo("spin")
  /\ UNCHANGED <<config, code, resources, threadVars, faultVars>>

\* From a loop that is over to the next one.
FollowingLoop == [sendTopics |-> "recvTopics", recvTopics |-> "bind", connect |-> "subscribe",
                  subscribe |-> "advertise", advertise |-> "faultControl",
                  sendThreads |-> "recvThreads", stopSend |-> "stopRecv"]
LoopEnds ==
  /\ \/ pc \in {"sendTopics", "subscribe", "sendThreads", "stopSend"} /\ at > NSend
     \/ pc \in {"recvTopics", "connect", "advertise"} /\ at > NRecv
  /\ GoTo(FollowingLoop[pc])
  /\ UNCHANGED <<config, code, spun, resources, threadVars, faultVars>>

-----------------------------------------------------------------------------
(* After ros::spin(). *)

\* Mutant: control_thread_running stays.
SpinReturnsOnly ==
  /\ pc = "spin"
  /\ replay[Main] = 0
  /\ GoTo("joinControl")
  /\ UNCHANGED <<config, code, spun, resources, threadVars, faultVars>>

\* Not in the middle of a callback, which may be in a replay; stop_control_server begins.
SpinReturns ==
  /\ pc = "spin"
  /\ replay[Main] = 0
  /\ told' = told \cup {Control}
  /\ GoTo("joinControl")
  /\ UNCHANGED <<config, code, spun, resources, thread, faultVars>>

\* join(), if there is something to join.
Joinable(t) == thread[t] \in {"running", "ended"}
Join(t) ==
  /\ Joinable(t) => thread[t] = "ended"
  /\ thread' = IF Joinable(t) THEN [thread EXCEPT ![t] = "joined"] ELSE thread

\* stop_control_server is over; stop_node_fault_control begins.
JoinControl ==
  /\ pc = "joinControl"
  /\ Join(Control)
  /\ told' = told \cup {Monitor}
  /\ faultActive' = FALSE
  /\ GoTo("joinMonitor")
  /\ UNCHANGED <<config, code, spun, resources, timer, replay>>

JoinMonitor ==
  /\ pc = "joinMonitor"
  /\ Join(Monitor)
  /\ GoTo("stopSend")
  /\ UNCHANGED <<config, code, spun, resources, told, faultVars>>

\* The running flag of a limited topic; nothing for the others.
StopSend ==
  /\ InLoop("stopSend", NSend)
  /\ Limited(at) /\ Send(at) \notin told
  /\ told' = told \cup {Send(at)}
  /\ UNCHANGED <<config, code, mainVars, resources, thread, faultVars>>

\* Mutant: the socket is closed at once.
CloseSenderNoJoin ==
  /\ InLoop("stopSend", NSend)
  /\ senders' = [senders EXCEPT ![at] = "closed"]
  /\ NextTopic
  /\ UNCHANGED <<config, code, spun, receivers, topicPubs, queuesReady, buffersReady, threadVars,
                 faultVars>>

CloseSender ==
  /\ InLoop("stopSend", NSend)
  /\ IF Limited(at) THEN Send(at) \in told /\ Join(Send(at)) ELSE UNCHANGED thread
  /\ senders' = [senders EXCEPT ![at] = "closed"]
  /\ NextTopic
  /\ UNCHANGED <<config, code, spun, receivers, topicPubs, queuesReady, buffersReady, told,
                 faultVars>>

\* The receive thread is told, but not joined.
StopRecv ==
  /\ InLoop("stopRecv", NRecv)
  /\ told' = told \cup {Recv(at)}
  /\ receivers' = [receivers EXCEPT ![at] = "closed"]
  /\ topicPubs' = [topicPubs EXCEPT ![at] = "closed"]
  /\ NextTopic
  /\ UNCHANGED <<config, code, spun, senders, queuesReady, buffersReady, thread, faultVars>>

Return0 == LoopOver("stopRecv", NRecv) /\ Exit(0)

-----------------------------------------------------------------------------
(* The other threads, and faults. *)

\* Mutant: the flag is obeyed in the middle of a replay, too.
ThreadEndsAtOnce(t) ==
  /\ Up
  /\ thread[t] = "running"
  /\ t \in told
  /\ thread' = [thread EXCEPT ![t] = "ended"]
  /\ UNCHANGED <<config, code, mainVars, resources, told, faultVars>>

\* A thread that finds its flag cleared, out of a replay, returns.
ThreadEnds(t) ==
  /\ Up
  /\ thread[t] = "running"
  /\ t \in told
  /\ t \in Flushers => replay[t] = 0
  /\ thread' = [thread EXCEPT ![t] = "ended"]
  /\ UNCHANGED <<config, code, mainVars, resources, told, faultVars>>

\* The control thread also ends when its socket throws.
ControlFails ==
  /\ Up
  /\ thread[Control] = "running"
  /\ thread' = [thread EXCEPT ![Control] = "ended"]
  /\ UNCHANGED <<config, code, mainVars, resources, told, faultVars>>

\* A receive thread receives from a closed socket or publishes by a publisher that is
\* shut down: it may throw or fail an assertion, or wait for ever.
UseAfterStop(i) ==
  /\ Up
  /\ thread[Recv(i)] = "running"
  /\ receivers[i] = "closed"
  /\ Abort

\* start_node_fault by timer or by request; nothing after stop_node_fault_control. The
\* busy check of a request is over by then and no guard.
StartNodeFault ==
  /\ Up
  /\ \/ timer /\ timer' = FALSE
     \/ thread[Control] = "running" /\ UNCHANGED timer
  /\ faultActive' = (faultActive \/ Monitor \notin told)
  /\ UNCHANGED <<config, code, mainVars, resources, threadVars, replay>>

\* Any worker may be the first to find the fault over.
FlushExpiredFaultIfNeeded(t) ==
  /\ Up
  /\ Running(t)
  /\ replay[t] = 0
  /\ faultActive
  /\ faultActive' = FALSE
  /\ replay' = [replay EXCEPT ![t] = 1]
  /\ UNCHANGED <<config, code, mainVars, resources, threadVars, timer>>

\* What the replay of topic p needs is closed: a limited topic needs its queue only.
Closed(p) ==
  IF p <= NSend THEN ~Limited(p) /\ senders[p] = "closed"
                ELSE topicPubs[p - NSend] = "closed"

\* The buffer of the topic may be empty.
ReplayTopic(t) ==
  /\ Up
  /\ replay[t] \in 1..(NSend + NRecv)
  /\ \/ Closed(replay[t]) /\ Abort
     \/ /\ replay' = [replay EXCEPT ![t] = @ + 1]
        /\ UNCHANGED <<config, code, mainVars, resources, threadVars, timer, faultActive>>

ReplayEnds(t) ==
  /\ Up
  /\ replay[t] = NSend + NRecv + 1
  /\ replay' = [replay EXCEPT ![t] = 0]
  /\ UNCHANGED <<config, code, mainVars, resources, threadVars, timer, faultActive>>

MainStep ==
  \/ GetParams \/ ParseSendTopic \/ ParseRecvTopic \/ BindSender \/ InitializeSendBitrateControl
  \/ ConnectReceiver \/ Subscribe \/ Advertise \/ InitializeNodeFaultControl
  \/ ScheduleNodeFault \/ StartControlServer \/ StartSendThread \/ StartRecvThread \/ Spin
  \/ LoopEnds \/ JoinControl \/ JoinMonitor \/ StopSend \/ CloseSender \/ StopRecv \/ Return0
ReplayStep(t) == ReplayTopic(t) \/ ReplayEnds(t)

Terminated == ~Up /\ UNCHANGED vars

Next ==
  \/ MainStep
  \/ SpinReturns
  \/ \E t \in Threads : ThreadEnds(t)
  \/ ControlFails
  \/ \E i \in 1..NRecv : UseAfterStop(i)
  \/ StartNodeFault
  \/ \E t \in Flushers : FlushExpiredFaultIfNeeded(t)
  \/ \E t \in Flushers : ReplayStep(t)
  \/ Terminated

Spec == Init /\ [][Next]_vars

\* main() runs, and threads that are told to stop or replay do so. Nobody has to stop
\* the node, to start a fault or to notice its end.
Fairness ==
  /\ WF_vars(MainStep)
  /\ WF_vars(\E t \in Flushers : ReplayStep(t))
  /\ WF_vars(\E t \in Threads : ThreadEnds(t))
LiveSpec == Spec /\ Fairness

-----------------------------------------------------------------------------
\* Every variable keeps its type; only a thread that runs is in a replay, so none ends
\* or is joined in the middle of one.
TypeOK ==
  /\ config \in Configs
  /\ pc \in {"params", "sendTopics", "recvTopics", "bind", "connect", "subscribe", "advertise",
             "faultControl", "schedule", "control", "sendThreads", "recvThreads", "spin",
             "joinControl", "joinMonitor", "stopSend", "stopRecv", "exited"}
  /\ at \in Nat \ {0}
  /\ code \in (0..4) \cup {None, Aborted}
  /\ code = None <=> Up
  /\ spun \in BOOLEAN
  /\ senders \in [1..NSend -> {"none", "open", "closed"}]
  /\ receivers \in [1..NRecv -> {"none", "open", "closed"}]
  /\ topicPubs \in [1..NRecv -> {"none", "open", "closed"}]
  /\ queuesReady \in BOOLEAN
  /\ buffersReady \in BOOLEAN
  /\ thread \in [Threads -> {"none", "running", "ended", "joined"}]
  /\ told \subseteq Threads
  /\ timer \in BOOLEAN
  /\ faultActive \in BOOLEAN
  /\ replay \in [Flushers -> 0..(NSend + NRecv + 1)]
  /\ \A t \in Flushers : replay[t] > 0 /\ Up => Running(t)

\* What README.md and config/ros_topics.yaml ask of a configuration: max_bitrate may
\* be left out, a number, or a number with a suffix. (They do not speak of NaN.)
ValidBitrate(f) ==
  \/ f.type = "absent"
  \/ f.type \in {"int", "double", "string"} /\ f.number = "finite" /\ f.value >= 0
  \/ f.type \in {"double", "string"} /\ f.number = "nan"
ValidTopic(topic) ==
  /\ topic.wellFormed
  /\ topic.type \in MsgTypes
  /\ topic.policy \in {"absent", "drop", "buffer", "latest"}
Valid ==
  /\ config.ip
  /\ NSend <= SubMax
  /\ \A i \in 1..NSend : ValidTopic(config.send[i]) /\ ValidBitrate(config.send[i].bitrate)
  /\ \A i, j \in 1..NSend : config.send[i].srcPort = config.send[j].srcPort => i = j
  /\ \A i \in 1..NRecv : ValidTopic(config.recv[i])

\* The checks that main() makes one by one, in three modules, amount to Valid: no
\* thread ever starts with a configuration that is not, so that each of those early
\* exits still gives its status; and none of them refuses one that is.
ConfigJudged ==
  /\ (\E t \in Threads : thread[t] # "none") => Valid
  /\ code \in 1..3 => ~Valid

\* No thread runs and no callback is served before every socket, publisher, queue and
\* buffer that it may touch exists: a fault that starts before the send and receive
\* threads do is already replayed into all of them; and for what is received there is
\* a deserializer, found by a third search through the types.
ReadyBeforeUse ==
  (\E t \in Threads : thread[t] = "running") \/ spun =>
    /\ queuesReady /\ buffersReady
    /\ \A i \in 1..NSend : senders[i] # "none"
    /\ \A i \in 1..NRecv : receivers[i] # "none" /\ topicPubs[i] # "none"
    /\ \A i \in 1..NRecv : Deserializes(config.recv[i].type)

\* When every limited send topic comes before every unlimited one, nothing is received
\* and the start went well, the node ends with status 0: whoever is in a replay during
\* the stop, its sockets outlive it and no thread is left. (Otherwise not: a send
\* thread that is stopped late can replay into a socket closed early.)
LimitedFirst == \A i, j \in 1..NSend : i < j /\ Limited(j) => Limited(i)
CleanExit == spun /\ NRecv = 0 /\ LimitedFirst /\ code # None => code = 0

\* main() gets to ros::spin() or to an exit status, and from the end of spin() to an
\* exit status: nobody it joins waits for something that main() does later.
StartAndStopComplete ==
  /\ pc = "params" ~> spun \/ code # None
  /\ pc = "joinControl" ~> code # None

\* "Process exit code. Non-zero indicates configuration or startup failure."
\* (bridge_node.cpp:335)
NonZeroMeansStartup == code # None /\ spun => code = 0
=============================================================================
