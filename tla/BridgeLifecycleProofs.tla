------------------------ MODULE BridgeLifecycleProofs ------------------------
(***************************************************************************)
(* Theorems about the life of a bridge node, for every set of              *)
(* configurations: any number of topics, any fields, any bound on the      *)
(* number of send topics.                                                  *)
(***************************************************************************)
EXTENDS BridgeLifecycle, TLAPS

-----------------------------------------------------------------------------
(* The threads of a configuration, and that a step does not change it. *)

LEMMA ThreadsDiffer ==
  /\ Main \notin Threads /\ Main \in Flushers
  /\ Monitor \in Threads /\ Control \in Threads /\ Control # Monitor
  /\ Control \notin Flushers
  /\ Flushers \subseteq Threads \cup {Main}
  /\ \A i : Send(i) # Monitor /\ Send(i) # Control /\ Send(i) # Main
  /\ \A i : Recv(i) # Monitor /\ Recv(i) # Control /\ Recv(i) # Main
  /\ \A i, j : Send(i) # Recv(j) /\ (Send(i) = Send(j) => i = j)
  /\ \A i \in 1..NSend : Limited(i) => Send(i) \in Threads
  /\ \A i \in 1..NRecv : Recv(i) \in Threads
  /\ \A t \in Threads : \/ t = Monitor \/ t = Control
                        \/ \E i \in 1..NSend : Limited(i) /\ t = Send(i)
                        \/ \E i \in 1..NRecv : t = Recv(i)
BY DEF Threads, Flushers, SendThreads, RecvThreads, Main, Monitor, Control, Send, Recv

LEMMA ConfigType ==
  ASSUME config \in Configs
  PROVE  /\ NSend \in Nat /\ NRecv \in Nat
         /\ \A i \in 1..NSend : config.send[i] \in SendTopic
         /\ \A i \in 1..NRecv : config.recv[i] \in RecvTopic
BY LifecycleAssumption DEF LifecycleAssumption, Config, NSend, NRecv

\* What is defined by the configuration alone is the same after a step that keeps it.
LEMMA StaticNext ==
  ASSUME config' = config
  PROVE  /\ NSend' = NSend /\ NRecv' = NRecv
         /\ Threads' = Threads /\ Flushers' = Flushers
         /\ \A i : Limited(i)' <=> Limited(i)
         /\ Valid' <=> Valid
         /\ LimitedFirst' <=> LimitedFirst
BY DEF NSend, NRecv, Threads, Flushers, SendThreads, RecvThreads, Limited, Valid, LimitedFirst

-----------------------------------------------------------------------------
(* Types. *)

Phases ==
  {"params", "sendTopics", "recvTopics", "bind", "connect", "subscribe", "advertise",
   "faultControl", "schedule", "control", "sendThreads", "recvThreads", "spin",
   "joinControl", "joinMonitor", "stopSend", "stopRecv", "exited"}

MainType ==
  /\ config \in Configs
  /\ pc \in Phases
  /\ at \in Nat \ {0}
  /\ code \in (0..4) \cup {None, Aborted}
  /\ code = None <=> Up
  /\ spun \in BOOLEAN

ResourceType ==
  /\ senders \in [1..NSend -> {"none", "open", "closed"}]
  /\ receivers \in [1..NRecv -> {"none", "open", "closed"}]
  /\ topicPubs \in [1..NRecv -> {"none", "open", "closed"}]
  /\ queuesReady \in BOOLEAN
  /\ buffersReady \in BOOLEAN

ThreadType ==
  /\ thread \in [Threads -> {"none", "running", "ended", "joined"}]
  /\ told \subseteq Threads
  /\ timer \in BOOLEAN
  /\ faultActive \in BOOLEAN
  /\ replay \in [Flushers -> 0..(NSend + NRecv + 1)]
  /\ \A t \in Flushers : replay[t] > 0 /\ Up => Running(t)

LEMMA TypeParts == TypeOK <=> MainType /\ ResourceType /\ ThreadType
BY DEF TypeOK, MainType, ResourceType, ThreadType, Phases

LEMMA TypePartsNext == TypeOK' <=> MainType' /\ ResourceType' /\ ThreadType'
BY TypeParts, PTL

LEMMA InitLifecycleType == Init => TypeOK
<1> SUFFICES ASSUME Init PROVE TypeOK
  OBVIOUS
<1>1. NSend \in Nat /\ NRecv \in Nat
  BY ConfigType DEF Init
<1>2. MainType
  <2>1. pc \in Phases /\ config \in Configs
    BY DEF Init, Phases
  <2>0. at \in Nat \ {0}
    <3>1. at = 1
      BY DEF Init
    <3> QED
      BY <3>1
  <2>4. spun \in BOOLEAN
    BY DEF Init
  <2>2. code \in (0..4) \cup {None, Aborted} /\ code = None
    BY DEF Init
  <2>3. Up
    BY DEF Init, Up
  <2> QED
    BY <2>0, <2>1, <2>2, <2>3, <2>4 DEF MainType
<1>3. ResourceType
  BY DEF Init, ResourceType
<1>4. ThreadType
  <2>1. /\ thread \in [Threads -> {"none", "running", "ended", "joined"}]
        /\ told \subseteq Threads /\ timer \in BOOLEAN /\ faultActive \in BOOLEAN
    BY DEF Init
  <2>2. \A t \in Flushers : replay[t] = 0 /\ 0 \in 0..(NSend + NRecv + 1)
    BY <1>1 DEF Init
  <2>3. replay \in [Flushers -> 0..(NSend + NRecv + 1)]
    BY <2>2 DEF Init
  <2> QED
    BY <2>1, <2>2, <2>3 DEF ThreadType
<1> QED
  BY <1>2, <1>3, <1>4, TypeParts

\* The ends of the process.
LEMMA EndType ==
  ASSUME TypeOK, Abort \/ \E status \in 0..4 : Exit(status)
  PROVE  TypeOK'
<1>1. /\ UNCHANGED <<config, spun, resources, threadVars, faultVars>>
      /\ pc' = "exited" /\ at' = 1 /\ code' \in (0..4) \cup {Aborted}
  BY DEF Abort, Exit, GoTo
<1>2. MainType'
  <2>1. code' # None
    BY <1>1, LifecycleAssumption DEF LifecycleAssumption, Aborted
  <2>2. ~Up'
    BY <1>1 DEF Up
  <2> QED
    BY <1>1, <2>1, <2>2, TypeParts DEF MainType, Phases
<1>3. ResourceType'
  BY <1>1, TypeParts, StaticNext DEF ResourceType, resources
<1>4. ThreadType'
  BY <1>1, TypeParts, StaticNext DEF ThreadType, threadVars, faultVars, Up
<1> QED
  BY <1>2, <1>3, <1>4, TypePartsNext

\* main() goes on, to another topic or another phase.
Goes(phase) ==
  \/ GoTo(phase)
  \/ /\ NextTopic
     /\ phase = pc

LEMMA MainGoes ==
  ASSUME TypeOK, NEW phase \in Phases \ {"exited"}, Up, Goes(phase), UNCHANGED <<config, code>>,
         spun' \in BOOLEAN
  PROVE  MainType' /\ Up'
<1>1. pc' = phase /\ at' \in Nat \ {0}
  BY TypeParts DEF Goes, GoTo, NextTopic, MainType
<1>2. Up'
  BY <1>1 DEF Up
<1> QED
  BY <1>1, <1>2, TypeParts DEF MainType

LEMMA MainStays ==
  ASSUME TypeOK, UNCHANGED <<config, code, mainVars>>
  PROVE  MainType' /\ (Up' <=> Up)
BY TypeParts DEF MainType, mainVars, Up

LEMMA ResourcesStay ==
  ASSUME TypeOK, UNCHANGED <<config, resources>>
  PROVE  ResourceType'
BY TypeParts, StaticNext DEF ResourceType, resources

\* The threads stay as they are while main() goes on, unless it is in ros::spin().
LEMMA ThreadsStay ==
  ASSUME TypeOK, UNCHANGED <<config, threadVars, faultVars>>, Up, pc # "spin" \/ pc' = "spin"
  PROVE  ThreadType'
BY TypeParts, StaticNext DEF ThreadType, threadVars, faultVars, Running

\* One thread is started, ends or is joined.
LEMMA ThreadMoves ==
  ASSUME TypeOK, NEW t \in Threads, NEW to \in {"running", "ended", "joined"},
         thread' = [thread EXCEPT ![t] = to], Up,
         t \notin Flushers \/ to = "running" \/ replay[t] = 0 \/ thread[t] # "running",
         UNCHANGED <<config, faultVars>>, told' \subseteq Threads,
         pc # "spin" \/ pc' = "spin"
  PROVE  ThreadType'
<1>1. /\ thread' \in [Threads -> {"none", "running", "ended", "joined"}]
      /\ \A u \in Threads : u # t => thread'[u] = thread[u]
      /\ thread'[t] = to
  BY TypeParts DEF ThreadType
<1>2. ASSUME NEW u \in Flushers, replay[u] > 0 PROVE Running(u)'
  <2>1. Running(u)
    BY <1>2, TypeParts DEF ThreadType
  <2>2. CASE u = Main
    BY <2>1, <2>2 DEF Running
  <2>3. CASE u # Main /\ u # t
    BY <1>1, <2>1, <2>3, ThreadsDiffer DEF Running
  <2>4. CASE u # Main /\ u = t
    <3>1. to = "running"
      BY <1>2, <2>1, <2>4, TypeParts DEF Running, ThreadType
    <3> QED
      BY <1>1, <2>4, <3>1 DEF Running
  <2> QED
    BY <2>2, <2>3, <2>4
<1> QED
  BY <1>1, <1>2, TypeParts, StaticNext DEF ThreadType, faultVars

\* A step of main() that changes nothing but where it is.
LEMMA QuietType ==
  ASSUME TypeOK, NEW phase \in Phases \ {"exited"}, Goes(phase), Up, pc # "spin",
         UNCHANGED <<config, code, spun, resources, threadVars, faultVars>>
  PROVE  TypeOK'
<1>1. spun' \in BOOLEAN
  BY TypeParts DEF MainType
<1>2. MainType'
  BY <1>1, MainGoes
<1> QED
  BY <1>2, ResourcesStay, ThreadsStay, TypePartsNext

\* Configuring: the checks of main(), its sockets, its publishers.
LEMMA SetupType ==
  ASSUME TypeOK, \/ GetParams \/ ParseSendTopic \/ ParseRecvTopic \/ BindSender
                 \/ InitializeSendBitrateControl \/ ConnectReceiver \/ Subscribe \/ Advertise
  PROVE  TypeOK'
<1>1. ASSUME Abort \/ \E status \in 0..4 : Exit(status) PROVE TypeOK'
  BY <1>1, EndType
<1>2. ASSUME NEW phase \in Phases \ {"exited"}, Goes(phase), Up, pc # "spin",
             UNCHANGED <<config, code, spun, resources, threadVars, faultVars>>
      PROVE  TypeOK'
  BY <1>2, QuietType
<1>3. spun \in BOOLEAN /\ at \in Nat \ {0}
  BY TypeParts DEF MainType
<1>4. CASE GetParams
  BY <1>1, <1>2, <1>4 DEF GetParams, Goes, Phases, Up
<1>5. CASE ParseSendTopic
  BY <1>1, <1>2, <1>5 DEF ParseSendTopic, InLoop, Goes, Phases, Up
<1>6. CASE ParseRecvTopic
  BY <1>1, <1>2, <1>6 DEF ParseRecvTopic, InLoop, Goes, Phases, Up
<1>7. CASE Subscribe
  BY <1>1, <1>2, <1>7 DEF Subscribe, InLoop, Goes, Phases, Up
<1>8. CASE BindSender
  <2>1. CASE Abort
    BY <1>1, <2>1
  <2>2. CASE ~Abort
    <3>1. /\ pc = "bind" /\ senders' = [senders EXCEPT ![at] = "open"] /\ NextTopic
          /\ UNCHANGED <<config, code, spun, receivers, topicPubs, queuesReady, buffersReady,
                         threadVars, faultVars>>
      BY <1>8, <2>2 DEF BindSender, InLoop
    <3>2. MainType' /\ ThreadType'
      BY <1>3, <3>1, MainGoes, ThreadsStay DEF Goes, Phases, Up, NextTopic
    <3>3. ResourceType'
      BY <3>1, TypeParts, StaticNext DEF ResourceType
    <3> QED
      BY <3>2, <3>3, TypePartsNext
  <2> QED
    BY <2>1, <2>2
<1>9. CASE InitializeSendBitrateControl
  <2>1. MainType' /\ ThreadType'
    BY <1>3, <1>9, MainGoes, ThreadsStay
       DEF InitializeSendBitrateControl, LoopOver, Goes, Phases, Up
  <2>2. ResourceType'
    BY <1>9, TypeParts, StaticNext DEF InitializeSendBitrateControl, ResourceType
  <2> QED
    BY <2>1, <2>2, TypePartsNext
<1>10. CASE ConnectReceiver
  <2>1. CASE Abort
    BY <1>1, <2>1
  <2>2. CASE ~Abort
    <3>1. /\ pc = "connect" /\ receivers' = [receivers EXCEPT ![at] = "open"] /\ NextTopic
          /\ UNCHANGED <<config, code, spun, senders, topicPubs, queuesReady, buffersReady,
                         threadVars, faultVars>>
      BY <1>10, <2>2 DEF ConnectReceiver, InLoop
    <3>2. MainType' /\ ThreadType'
      BY <1>3, <3>1, MainGoes, ThreadsStay DEF Goes, Phases, Up, NextTopic
    <3>3. ResourceType'
      BY <3>1, TypeParts, StaticNext DEF ResourceType
    <3> QED
      BY <3>2, <3>3, TypePartsNext
  <2> QED
    BY <2>1, <2>2
<1>11. CASE Advertise
  <2>1. CASE Exit(1)
    BY <1>1, <2>1
  <2>2. CASE ~Exit(1)
    <3>1. /\ pc = "advertise" /\ topicPubs' = [topicPubs EXCEPT ![at] = "open"] /\ NextTopic
          /\ UNCHANGED <<config, code, spun, senders, receivers, queuesReady, buffersReady,
                         threadVars, faultVars>>
      BY <1>11, <2>2 DEF Advertise, InLoop
    <3>2. MainType' /\ ThreadType'
      BY <1>3, <3>1, MainGoes, ThreadsStay DEF Goes, Phases, Up, NextTopic
    <3>3. ResourceType'
      BY <3>1, TypeParts, StaticNext DEF ResourceType
    <3> QED
      BY <3>2, <3>3, TypePartsNext
  <2> QED
    BY <2>1, <2>2
<1> QED
  BY <1>4, <1>5, <1>6, <1>7, <1>8, <1>9, <1>10, <1>11

\* Starting threads and faults, up to ros::spin().
LEMMA StartType ==
  ASSUME TypeOK, \/ InitializeNodeFaultControl \/ ScheduleNodeFault \/ StartControlServer
                 \/ StartSendThread \/ StartRecvThread \/ Spin \/ LoopEnds
  PROVE  TypeOK'
<1>1. ASSUME Abort \/ \E status \in 0..4 : Exit(status) PROVE TypeOK'
  BY <1>1, EndType
<1>2. /\ config \in Configs /\ spun \in BOOLEAN /\ at \in Nat \ {0} /\ told \subseteq Threads
      /\ NSend \in Nat /\ NRecv \in Nat
  BY TypeParts, ConfigType DEF MainType, ThreadType
<1>3. ASSUME NEW t \in Threads, NEW phase \in Phases \ {"exited"}, Goes(phase), Up, pc # "spin",
             thread' = [thread EXCEPT ![t] = "running"],
             UNCHANGED <<config, code, spun, resources, told, faultVars>>
      PROVE  TypeOK'
  <2>1. ThreadType'
    BY <1>2, <1>3, ThreadMoves
  <2> QED
    BY <1>2, <1>3, <2>1, MainGoes, ResourcesStay, TypePartsNext
<1>4. ASSUME NEW phase \in Phases \ {"exited"}, Goes(phase), Up, pc # "spin",
             UNCHANGED <<config, code, spun, resources, threadVars, faultVars>>
      PROVE  TypeOK'
  BY <1>4, QuietType
<1>5. CASE InitializeNodeFaultControl
  <2>1. CASE Exit(1)
    BY <1>1, <2>1
  <2>2. CASE ~Exit(1)
    <3>1. /\ pc = "faultControl" /\ buffersReady' = TRUE
          /\ thread' = [thread EXCEPT ![Monitor] = "running"] /\ GoTo("schedule")
          /\ UNCHANGED <<config, code, spun, senders, receivers, topicPubs, queuesReady, told,
                         faultVars>>
      BY <1>5, <2>2 DEF InitializeNodeFaultControl
    <3>2. MainType'
      BY <1>2, <3>1, MainGoes DEF Goes, Phases, Up
    <3>3. ThreadType'
      BY <1>2, <3>1, ThreadMoves, ThreadsDiffer DEF Up
    <3>4. ResourceType'
      BY <3>1, TypeParts, StaticNext DEF ResourceType
    <3> QED
      BY <3>2, <3>3, <3>4, TypePartsNext
  <2> QED
    BY <2>1, <2>2
<1>6. CASE ScheduleNodeFault
  <2>1. MainType'
    BY <1>2, <1>6, MainGoes DEF ScheduleNodeFault, Goes, Phases, Up
  <2>2. ResourceType'
    BY <1>6, ResourcesStay DEF ScheduleNodeFault
  <2>3. ThreadType'
    <3>1. timer' \in BOOLEAN
      BY <1>2, <1>6, LifecycleAssumption DEF ScheduleNodeFault, LifecycleAssumption, Config
    <3>2. \A t \in Flushers : replay[t] > 0 => Running(t)'
      BY <1>6, TypeParts DEF ScheduleNodeFault, GoTo, threadVars, Running, ThreadType, Up
    <3> QED
      BY <1>6, <3>1, <3>2, TypeParts, StaticNext
         DEF ScheduleNodeFault, threadVars, ThreadType
  <2> QED
    BY <2>1, <2>2, <2>3, TypePartsNext
<1>7. CASE StartControlServer
  <2>1. CASE Exit(4)
    BY <1>1, <2>1
  <2>2. CASE ~Exit(4)
    <3>1. /\ pc = "control" /\ GoTo("sendThreads")
          /\ thread' = IF config.control THEN [thread EXCEPT ![Control] = "running"] ELSE thread
          /\ UNCHANGED <<config, code, spun, resources, told, faultVars>>
      BY <1>7, <2>2 DEF StartControlServer
    <3>2. Goes("sendThreads") /\ "sendThreads" \in Phases \ {"exited"} /\ Up
      BY <3>1 DEF Goes, Phases, Up
    <3>3. CASE config.control
      BY <1>3, <3>1, <3>2, <3>3, ThreadsDiffer
    <3>4. CASE ~config.control
      BY <1>4, <3>1, <3>2, <3>4 DEF threadVars
    <3> QED
      BY <3>3, <3>4
  <2> QED
    BY <2>1, <2>2
<1>8. CASE StartSendThread
  <2>1. /\ pc = "sendThreads" /\ at \in 1..NSend /\ NextTopic
        /\ thread' = IF Limited(at) THEN [thread EXCEPT ![Send(at)] = "running"] ELSE thread
        /\ UNCHANGED <<config, code, spun, resources, told, faultVars>>
    BY <1>2, <1>8 DEF StartSendThread, InLoop
  <2>2. Goes("sendThreads") /\ "sendThreads" \in Phases \ {"exited"} /\ Up
    BY <2>1 DEF Goes, Phases, Up
  <2>3. CASE Limited(at)
    <3>1. Send(at) \in Threads
      BY <2>1, <2>3, ThreadsDiffer
    <3> QED
      BY <1>3, <2>1, <2>2, <2>3, <3>1
  <2>4. CASE ~Limited(at)
    BY <1>4, <2>1, <2>2, <2>4 DEF threadVars
  <2> QED
    BY <2>3, <2>4
<1>9. CASE StartRecvThread
  <2>1. /\ pc = "recvThreads" /\ at \in 1..NRecv /\ NextTopic
        /\ thread' = [thread EXCEPT ![Recv(at)] = "running"]
        /\ UNCHANGED <<config, code, spun, resources, told, faultVars>>
    BY <1>2, <1>9 DEF StartRecvThread, InLoop
  <2>2. Goes("recvThreads") /\ "recvThreads" \in Phases \ {"exited"} /\ Up
    BY <2>1 DEF Goes, Phases, Up
  <2>3. Recv(at) \in Threads
    BY <2>1, ThreadsDiffer
  <2> QED
    BY <1>3, <2>1, <2>2, <2>3
<1>10. CASE Spin
  <2>1. /\ pc = "recvThreads" /\ Goes("spin") /\ GoTo("spin") /\ spun' = TRUE /\ Up
        /\ UNCHANGED <<config, code, resources, threadVars, faultVars>>
    BY <1>10 DEF Spin, LoopOver, Goes, Up
  <2>2. MainType'
    BY <2>1, MainGoes DEF Phases
  <2> QED
    BY <2>1, <2>2, ResourcesStay, ThreadsStay, TypePartsNext DEF GoTo
<1>11. CASE LoopEnds
  <2>1. /\ pc \in {"sendTopics", "subscribe", "sendThreads", "stopSend", "recvTopics", "connect",
                   "advertise"}
        /\ GoTo(FollowingLoop[pc])
        /\ UNCHANGED <<config, code, spun, resources, threadVars, faultVars>>
    BY <1>11 DEF LoopEnds
  <2>2. Up /\ pc # "spin" /\ Goes(FollowingLoop[pc])
    BY <2>1 DEF Up, Goes
  <2>3. FollowingLoop[pc] \in Phases \ {"exited"}
    BY <2>1 DEF FollowingLoop, Phases
  <2> QED
    BY <1>4, <2>1, <2>2, <2>3
<1> QED
  BY <1>5, <1>6, <1>7, <1>8, <1>9, <1>10, <1>11

\* The stop.
LEMMA StopType ==
  ASSUME TypeOK, \/ SpinReturns \/ JoinControl \/ JoinMonitor \/ StopSend \/ CloseSender
                 \/ StopRecv \/ Return0
  PROVE  TypeOK'
<1>1. /\ config \in Configs /\ spun \in BOOLEAN /\ at \in Nat \ {0} /\ told \subseteq Threads
      /\ NSend \in Nat /\ NRecv \in Nat
      /\ thread \in [Threads -> {"none", "running", "ended", "joined"}]
  BY TypeParts, ConfigType DEF MainType, ThreadType
\* Join keeps what ThreadType says, whatever else the step clears.
<1>2. ASSUME NEW t \in Threads, Join(t), told' \subseteq Threads, faultActive' \in BOOLEAN,
             UNCHANGED <<config, timer, replay>>, Up, pc # "spin"
      PROVE  ThreadType'
  <2>1. thread' \in [Threads -> {"none", "running", "ended", "joined"}]
    BY <1>1, <1>2 DEF Join
  <2>2. ASSUME NEW u \in Flushers, replay[u] > 0 PROVE Running(u)'
    <3>1. u # Main /\ thread[u] = "running" /\ u \in Threads
      BY <1>2, <2>2, TypeParts, ThreadsDiffer DEF ThreadType, Running
    <3>2. thread'[u] = "running"
      <4>1. CASE u = t
        BY <1>2, <3>1, <4>1 DEF Join, Joinable
      <4>2. CASE u # t
        BY <1>1, <1>2, <3>1, <4>2 DEF Join
      <4> QED
        BY <4>1, <4>2
    <3> QED
      BY <3>1, <3>2 DEF Running
  <2> QED
    BY <1>2, <2>1, <2>2, TypeParts, StaticNext DEF ThreadType
<1>3. CASE SpinReturns
  <2>1. /\ pc = "spin" /\ replay[Main] = 0 /\ told' = told \cup {Control} /\ pc' = "joinControl"
        /\ Goes("joinControl") /\ "joinControl" \in Phases \ {"exited"} /\ Up
        /\ UNCHANGED <<config, code, spun, resources, thread, faultVars>>
    BY <1>3 DEF SpinReturns, Goes, GoTo, Phases, Up
  <2>2. MainType' /\ ResourceType'
    BY <1>1, <2>1, MainGoes, ResourcesStay
  <2>3. ASSUME NEW u \in Flushers, replay[u] > 0 PROVE Running(u)'
    BY <2>1, <2>3, TypeParts DEF ThreadType, Running
  <2>4. ThreadType'
    BY <1>1, <2>1, <2>3, TypeParts, StaticNext, ThreadsDiffer DEF ThreadType, faultVars
  <2> QED
    BY <2>2, <2>4, TypePartsNext
<1>4. CASE JoinControl
  <2>1. /\ pc = "joinControl" /\ Join(Control) /\ told' = told \cup {Monitor}
        /\ faultActive' = FALSE /\ Goes("joinMonitor") /\ "joinMonitor" \in Phases \ {"exited"}
        /\ Up /\ pc # "spin"
        /\ UNCHANGED <<config, code, spun, resources, timer, replay>>
    BY <1>4 DEF JoinControl, Goes, Phases, Up
  <2>2. MainType' /\ ResourceType'
    BY <1>1, <2>1, MainGoes, ResourcesStay
  <2>3. told' \subseteq Threads /\ faultActive' \in BOOLEAN
    BY <1>1, <2>1, ThreadsDiffer
  <2>4. ThreadType'
    BY <1>2, <2>1, <2>3, ThreadsDiffer
  <2> QED
    BY <2>2, <2>4, TypePartsNext
<1>5. CASE JoinMonitor
  <2>1. /\ pc = "joinMonitor" /\ Join(Monitor) /\ Goes("stopSend")
        /\ "stopSend" \in Phases \ {"exited"} /\ Up /\ pc # "spin"
        /\ UNCHANGED <<config, code, spun, resources, told, timer, faultActive, replay>>
    BY <1>5 DEF JoinMonitor, Goes, Phases, Up, faultVars
  <2>2. MainType' /\ ResourceType'
    BY <1>1, <2>1, MainGoes, ResourcesStay
  <2>3. told' \subseteq Threads /\ faultActive' \in BOOLEAN
    BY <1>1, <2>1, TypeParts DEF ThreadType
  <2>4. ThreadType'
    BY <1>2, <2>1, <2>3, ThreadsDiffer
  <2> QED
    BY <2>2, <2>4, TypePartsNext
<1>6. CASE StopSend
  <2>1. /\ pc = "stopSend" /\ at \in 1..NSend /\ Limited(at) /\ told' = told \cup {Send(at)}
        /\ UNCHANGED <<config, code, mainVars, resources, thread, faultVars>>
    BY <1>1, <1>6 DEF StopSend, InLoop
  <2>2. MainType' /\ ResourceType'
    BY <2>1, MainStays, ResourcesStay
  <2>3. \A u \in Flushers : replay[u] > 0 => Running(u)'
    BY <2>1, TypeParts DEF ThreadType, Running, Up, mainVars
  <2>4. told' \subseteq Threads
    BY <1>1, <2>1, ThreadsDiffer
  <2>5. ThreadType'
    BY <2>1, <2>3, <2>4, TypeParts, StaticNext DEF ThreadType, faultVars
  <2> QED
    BY <2>2, <2>5, TypePartsNext
<1>7. CASE CloseSender
  <2>1. /\ pc = "stopSend" /\ at \in 1..NSend /\ Goes("stopSend")
        /\ "stopSend" \in Phases \ {"exited"} /\ Up /\ pc # "spin"
        /\ senders' = [senders EXCEPT ![at] = "closed"]
        /\ UNCHANGED <<config, code, spun, receivers, topicPubs, queuesReady, buffersReady, told,
                       faultVars>>
    BY <1>1, <1>7 DEF CloseSender, InLoop, Goes, Phases, Up
  <2>2. MainType'
    BY <1>1, <2>1, MainGoes
  <2>3. ResourceType'
    BY <2>1, TypeParts, StaticNext DEF ResourceType
  <2>4. CASE Limited(at)
    <3>1. Send(at) \in Threads /\ Join(Send(at))
      BY <1>7, <2>1, <2>4, ThreadsDiffer DEF CloseSender
    <3>2. UNCHANGED <<timer, replay>> /\ told' \subseteq Threads /\ faultActive' \in BOOLEAN
      BY <1>1, <2>1, TypeParts DEF faultVars, ThreadType
    <3>3. ThreadType'
      BY <1>2, <2>1, <3>1, <3>2
    <3> QED
      BY <2>2, <2>3, <3>3, TypePartsNext
  <2>5. CASE ~Limited(at)
    <3>1. UNCHANGED threadVars
      BY <1>7, <2>1, <2>5 DEF CloseSender, threadVars
    <3>2. ThreadType'
      BY <2>1, <3>1, ThreadsStay
    <3> QED
      BY <2>2, <2>3, <3>2, TypePartsNext
  <2> QED
    BY <2>4, <2>5
<1>8. CASE StopRecv
  <2>1. /\ pc = "stopRecv" /\ at \in 1..NRecv /\ Goes("stopRecv")
        /\ "stopRecv" \in Phases \ {"exited"} /\ Up /\ pc # "spin"
        /\ told' = told \cup {Recv(at)} /\ pc' = pc
        /\ receivers' = [receivers EXCEPT ![at] = "closed"]
        /\ topicPubs' = [topicPubs EXCEPT ![at] = "closed"]
        /\ UNCHANGED <<config, code, spun, senders, queuesReady, buffersReady, thread, faultVars>>
    BY <1>1, <1>8 DEF StopRecv, InLoop, Goes, NextTopic, Phases, Up
  <2>2. MainType'
    BY <1>1, <2>1, MainGoes
  <2>3. ResourceType'
    BY <2>1, TypeParts, StaticNext DEF ResourceType
  <2>4. \A u \in Flushers : replay[u] > 0 => Running(u)'
    BY <2>1, TypeParts DEF ThreadType, Running
  <2>5. told' \subseteq Threads
    BY <1>1, <2>1, ThreadsDiffer
  <2>6. ThreadType'
    BY <2>1, <2>4, <2>5, TypeParts, StaticNext DEF ThreadType, faultVars
  <2> QED
    BY <2>2, <2>3, <2>6, TypePartsNext
<1>9. CASE Return0
  BY <1>9, EndType DEF Return0
<1> QED
  BY <1>3, <1>4, <1>5, <1>6, <1>7, <1>8, <1>9

\* The other threads, and faults: main() does not move, unless the process aborts.
LEMMA OthersType ==
  ASSUME TypeOK, \/ \E t \in Threads : ThreadEnds(t)
                 \/ ControlFails
                 \/ \E i \in 1..NRecv : UseAfterStop(i)
                 \/ StartNodeFault
                 \/ \E t \in Flushers : FlushExpiredFaultIfNeeded(t) \/ ReplayStep(t)
                 \/ UNCHANGED vars
  PROVE  TypeOK'
<1>1. /\ timer \in BOOLEAN /\ faultActive \in BOOLEAN /\ told \subseteq Threads
      /\ replay \in [Flushers -> 0..(NSend + NRecv + 1)]
      /\ NSend \in Nat /\ NRecv \in Nat
      /\ \A u \in Flushers : replay[u] > 0 /\ Up => Running(u)
  BY TypeParts, ConfigType DEF MainType, ThreadType
<1>2. ASSUME Abort PROVE TypeOK'
  BY <1>2, EndType
<1>3. ASSUME NEW t \in Threads, t \notin Flushers \/ replay[t] = 0,
             thread' = [thread EXCEPT ![t] = "ended"], Up,
             UNCHANGED <<config, code, mainVars, resources, told, faultVars>>
      PROVE  TypeOK'
  <2>1. ThreadType'
    BY <1>1, <1>3, ThreadMoves DEF mainVars
  <2> QED
    BY <1>3, <2>1, MainStays, ResourcesStay, TypePartsNext
<1>4. ASSUME NEW t \in Flushers, NEW p \in 0..(NSend + NRecv + 1), Running(t) \/ p = 0,
             replay' = [replay EXCEPT ![t] = p], faultActive' \in BOOLEAN,
             UNCHANGED <<config, code, mainVars, resources, threadVars, timer>>
      PROVE  TypeOK'
  <2>1. \A u \in Flushers : replay'[u] > 0 /\ Up => Running(u)
    BY <1>1, <1>4
  <2>2. \A u \in Flushers : Running(u)' <=> Running(u)
    BY <1>4 DEF Running, mainVars, threadVars
  <2>3. ThreadType'
    BY <1>1, <1>4, <2>1, <2>2, TypeParts, StaticNext DEF ThreadType, threadVars, mainVars, Up
  <2> QED
    BY <1>4, <2>3, MainStays, ResourcesStay, TypePartsNext
<1>5. ASSUME NEW t \in Threads, ThreadEnds(t) PROVE TypeOK'
  BY <1>3, <1>5 DEF ThreadEnds
<1>6. CASE ControlFails
  BY <1>3, <1>6, ThreadsDiffer DEF ControlFails
<1>7. ASSUME NEW i \in 1..NRecv, UseAfterStop(i) PROVE TypeOK'
  BY <1>2, <1>7 DEF UseAfterStop
<1>8. CASE StartNodeFault
  <2>1. timer' \in BOOLEAN /\ faultActive' \in BOOLEAN
    BY <1>1, <1>8 DEF StartNodeFault
  <2>2. UNCHANGED <<config, code, mainVars, resources, threadVars, replay>>
    BY <1>8 DEF StartNodeFault
  <2>3. \A u \in Flushers : Running(u)' <=> Running(u)
    BY <2>2 DEF Running, mainVars, threadVars
  <2>4. ThreadType'
    BY <1>1, <2>1, <2>2, <2>3, TypeParts, StaticNext DEF ThreadType, threadVars, mainVars, Up
  <2> QED
    BY <2>2, <2>4, MainStays, ResourcesStay, TypePartsNext
<1>9. ASSUME NEW t \in Flushers, FlushExpiredFaultIfNeeded(t) PROVE TypeOK'
  <2>1. 1 \in 0..(NSend + NRecv + 1)
    BY <1>1
  <2> QED
    BY <1>4, <1>9, <2>1 DEF FlushExpiredFaultIfNeeded
<1>10. ASSUME NEW t \in Flushers, ReplayTopic(t) PROVE TypeOK'
  <2>1. CASE Abort
    BY <1>2, <2>1
  <2>2. CASE ~Abort
    <3>1. /\ Up /\ replay[t] \in 1..(NSend + NRecv)
          /\ replay' = [replay EXCEPT ![t] = replay[t] + 1]
          /\ UNCHANGED <<config, code, mainVars, resources, threadVars, timer, faultActive>>
      BY <1>10, <2>2 DEF ReplayTopic
    <3>2. replay[t] + 1 \in 0..(NSend + NRecv + 1) /\ Running(t)
      BY <1>1, <3>1
    <3> QED
      BY <1>1, <1>4, <3>1, <3>2
  <2> QED
    BY <2>1, <2>2
<1>11. ASSUME NEW t \in Flushers, ReplayEnds(t) PROVE TypeOK'
  <2>1. 0 \in 0..(NSend + NRecv + 1) /\ faultActive' \in BOOLEAN
    BY <1>1, <1>11 DEF ReplayEnds
  <2> QED
    BY <1>4, <1>11, <2>1 DEF ReplayEnds
<1>12. CASE UNCHANGED vars
  BY <1>12, ZenonT(30) DEF vars, TypeOK, NSend, NRecv, Threads, Flushers, SendThreads, RecvThreads, Limited,
               Running, Up
<1> QED
  BY <1>5, <1>6, <1>7, <1>8, <1>9, <1>10, <1>11, <1>12 DEF ReplayStep

LEMMA StepLifecycleType == TypeOK /\ [Next]_vars => TypeOK'
BY SetupType, StartType, StopType, OthersType DEF Next, MainStep, Terminated

\* For every set of configurations, main() and its threads keep their types, and no
\* thread ends or is joined in the middle of a replay.
THEOREM LifecycleTypeCorrect == Spec => []TypeOK
BY InitLifecycleType, StepLifecycleType, PTL DEF Spec
-----------------------------------------------------------------------------
(* What main() has checked and opened by the phase it is in. *)

ToSendTopics == {"params", "sendTopics"}
ToRecvTopics == ToSendTopics \cup {"recvTopics"}
ToBind == ToRecvTopics \cup {"bind"}
ToConnect == ToBind \cup {"connect"}
ToSubscribe == ToConnect \cup {"subscribe"}
ToAdvertise == ToSubscribe \cup {"advertise"}
ToFaultControl == ToAdvertise \cup {"faultControl"}

\* The loop of that phase, the last of those in upTo, is done with topic i.
Passed(phase, upTo, i) ==
  \/ pc \notin upTo
  \/ pc = phase /\ i < at

SendAccepted(i) ==
  /\ config.send[i].wellFormed
  /\ ValidBitrate(config.send[i].bitrate)
  /\ \A j \in 1..NSend : j < i => config.send[j].srcPort # config.send[i].srcPort

Judged ==
  Up => /\ pc # "params" => config.ip /\ NSend <= SubMax
        /\ \A i \in 1..NSend :
             /\ Passed("sendTopics", ToSendTopics, i) => SendAccepted(i)
             /\ Passed("subscribe", ToSubscribe, i) => Subscribes(config.send[i].type)
        /\ \A i \in 1..NRecv :
             /\ Passed("recvTopics", ToRecvTopics, i) => config.recv[i].wellFormed
             /\ Passed("advertise", ToAdvertise, i) => Publishes(config.recv[i].type)
        /\ pc \notin ToFaultControl => Valid

Opened ==
  Up => /\ \A i \in 1..NSend : Passed("bind", ToBind, i) => senders[i] # "none"
        /\ \A i \in 1..NRecv :
             /\ Passed("connect", ToConnect, i) => receivers[i] # "none"
             /\ Passed("advertise", ToAdvertise, i) => topicPubs[i] # "none"
        /\ pc \notin ToBind => queuesReady
        /\ pc \notin ToFaultControl => buffersReady

\* Before that, no thread has been started and no callback served.
Alone == pc \in ToFaultControl => ~spun /\ \A t \in Threads : thread[t] = "none"

\* The way of main() up to its first thread: what it does where, topic by topic.
Flow ==
  \/ UNCHANGED <<pc, at>>
  \/ GetParams /\ pc = "params" /\ GoTo("sendTopics")
  \/ ParseSendTopic /\ InLoop("sendTopics", NSend) /\ NextTopic
  \/ LoopOver("sendTopics", NSend) /\ GoTo("recvTopics")
  \/ ParseRecvTopic /\ InLoop("recvTopics", NRecv) /\ NextTopic
  \/ LoopOver("recvTopics", NRecv) /\ GoTo("bind")
  \/ BindSender /\ InLoop("bind", NSend) /\ NextTopic
  \/ InitializeSendBitrateControl /\ LoopOver("bind", NSend) /\ GoTo("connect")
  \/ ConnectReceiver /\ InLoop("connect", NRecv) /\ NextTopic
  \/ LoopOver("connect", NRecv) /\ GoTo("subscribe")
  \/ Subscribe /\ InLoop("subscribe", NSend) /\ NextTopic
  \/ LoopOver("subscribe", NSend) /\ GoTo("advertise")
  \/ Advertise /\ InLoop("advertise", NRecv) /\ NextTopic
  \/ LoopOver("advertise", NRecv) /\ GoTo("faultControl")
  \/ InitializeNodeFaultControl /\ pc = "faultControl" /\ GoTo("schedule")
  \/ pc \notin ToFaultControl /\ pc' \notin ToFaultControl

LEMMA Ends ==
  ASSUME Abort \/ \E status : Exit(status)
  PROVE  ~Up' /\ UNCHANGED <<config, spun, resources, threadVars, faultVars>>
BY DEF Abort, Exit, GoTo, Up

LEMMA SetupFlow ==
  ASSUME TypeOK, Up',
         \/ GetParams \/ ParseSendTopic \/ ParseRecvTopic \/ BindSender
         \/ InitializeSendBitrateControl \/ ConnectReceiver \/ Subscribe \/ Advertise
         \/ InitializeNodeFaultControl \/ LoopEnds
  PROVE  config' = config /\ Flow
<1>1. ~Abort /\ \A status : ~Exit(status)
  BY Ends
<1>2. CASE GetParams
  BY <1>1, <1>2 DEF GetParams, Flow
<1>3. CASE ParseSendTopic
  BY <1>1, <1>3 DEF ParseSendTopic, Flow
<1>4. CASE ParseRecvTopic
  BY <1>1, <1>4 DEF ParseRecvTopic, Flow
<1>5. CASE BindSender
  BY <1>1, <1>5 DEF BindSender, Flow
<1>6. CASE InitializeSendBitrateControl
  BY <1>6 DEF InitializeSendBitrateControl, Flow
<1>7. CASE ConnectReceiver
  BY <1>1, <1>7 DEF ConnectReceiver, Flow
<1>8. CASE Subscribe
  BY <1>1, <1>8 DEF Subscribe, Flow
<1>9. CASE Advertise
  BY <1>1, <1>9 DEF Advertise, Flow
<1>10. CASE InitializeNodeFaultControl
  BY <1>1, <1>10 DEF InitializeNodeFaultControl, Flow
<1>11. CASE LoopEnds
  <2>1. /\ config' = config
        /\ \/ pc \in {"sendTopics", "subscribe", "sendThreads", "stopSend"} /\ at > NSend
           \/ pc \in {"recvTopics", "connect", "advertise"} /\ at > NRecv
        /\ GoTo(FollowingLoop[pc])
    BY <1>11 DEF LoopEnds
  <2>2. CASE pc = "sendTopics"
    BY <2>1, <2>2 DEF FollowingLoop, Flow, LoopOver
  <2>3. CASE pc = "recvTopics"
    BY <2>1, <2>3 DEF FollowingLoop, Flow, LoopOver
  <2>4. CASE pc = "connect"
    BY <2>1, <2>4 DEF FollowingLoop, Flow, LoopOver
  <2>5. CASE pc = "subscribe"
    BY <2>1, <2>5 DEF FollowingLoop, Flow, LoopOver
  <2>6. CASE pc = "advertise"
    BY <2>1, <2>6 DEF FollowingLoop, Flow, LoopOver
  <2>7. CASE pc = "sendThreads"
    <3>1. pc' = "recvThreads"
      BY <2>1, <2>7 DEF FollowingLoop, GoTo
    <3> QED
      BY <2>1, <2>7, <3>1
         DEF Flow, ToFaultControl, ToAdvertise, ToSubscribe, ToConnect, ToBind, ToRecvTopics,
             ToSendTopics
  <2>8. CASE pc = "stopSend"
    <3>1. pc' = "stopRecv"
      BY <2>1, <2>8 DEF FollowingLoop, GoTo
    <3> QED
      BY <2>1, <2>8, <3>1
         DEF Flow, ToFaultControl, ToAdvertise, ToSubscribe, ToConnect, ToBind, ToRecvTopics,
             ToSendTopics
  <2> QED
    BY <2>1, <2>2, <2>3, <2>4, <2>5, <2>6, <2>7, <2>8
<1> QED
  BY <1>2, <1>3, <1>4, <1>5, <1>6, <1>7, <1>8, <1>9, <1>10, <1>11

LEMMA LaterFlow ==
  ASSUME TypeOK, Up',
         \/ ScheduleNodeFault \/ StartControlServer \/ StartSendThread \/ StartRecvThread \/ Spin
         \/ SpinReturns \/ JoinControl \/ JoinMonitor \/ StopSend \/ CloseSender \/ StopRecv
         \/ Return0
  PROVE  config' = config /\ pc \notin ToFaultControl /\ pc' \notin ToFaultControl
<1> USE DEF ToFaultControl, ToAdvertise, ToSubscribe, ToConnect, ToBind, ToRecvTopics,
            ToSendTopics, InLoop, LoopOver, GoTo, NextTopic
<1>1. ~Abort /\ \A status : ~Exit(status)
  BY Ends
<1>2. CASE ScheduleNodeFault
  BY <1>2 DEF ScheduleNodeFault
<1>3. CASE StartControlServer
  BY <1>1, <1>3 DEF StartControlServer
<1>4. CASE StartSendThread
  BY <1>4 DEF StartSendThread
<1>5. CASE StartRecvThread
  BY <1>5 DEF StartRecvThread
<1>6. CASE Spin
  BY <1>6 DEF Spin
<1>7. CASE SpinReturns
  BY <1>7 DEF SpinReturns
<1>8. CASE JoinControl
  BY <1>8 DEF JoinControl
<1>9. CASE JoinMonitor
  BY <1>9 DEF JoinMonitor
<1>10. CASE StopSend
  BY <1>10 DEF StopSend, mainVars
<1>11. CASE CloseSender
  BY <1>11 DEF CloseSender
<1>12. CASE StopRecv
  BY <1>12 DEF StopRecv
<1>13. CASE Return0
  BY <1>1, <1>13 DEF Return0
<1> QED
  BY <1>2, <1>3, <1>4, <1>5, <1>6, <1>7, <1>8, <1>9, <1>10, <1>11, <1>12, <1>13

\* What the other threads do to main(), unless the process aborts: nothing.
Others ==
  \/ \E t \in Threads : ThreadEnds(t)
  \/ ControlFails
  \/ \E i \in 1..NRecv : UseAfterStop(i)
  \/ StartNodeFault
  \/ \E t \in Flushers : FlushExpiredFaultIfNeeded(t) \/ ReplayStep(t)
  \/ UNCHANGED vars

LEMMA OthersFlow ==
  ASSUME TypeOK, Up', Others
  PROVE  UNCHANGED <<config, code, mainVars, resources>>
<1>1. ~Abort
  BY Ends
<1>2. ASSUME NEW t \in Flushers, FlushExpiredFaultIfNeeded(t) \/ ReplayStep(t)
      PROVE  UNCHANGED <<config, code, mainVars, resources>>
  BY <1>1, <1>2 DEF FlushExpiredFaultIfNeeded, ReplayStep, ReplayTopic, ReplayEnds
<1>3. ASSUME \/ \E t \in Threads : ThreadEnds(t)
             \/ ControlFails \/ StartNodeFault \/ \E i \in 1..NRecv : UseAfterStop(i)
      PROVE  UNCHANGED <<config, code, mainVars, resources>>
  BY <1>1, <1>3 DEF ThreadEnds, ControlFails, StartNodeFault, UseAfterStop
<1>4. ASSUME UNCHANGED vars PROVE UNCHANGED <<config, code, mainVars, resources>>
  BY <1>4 DEF vars, mainVars, resources
<1> QED
  BY <1>2, <1>3, <1>4 DEF Others

LEMMA StepFlow ==
  ASSUME TypeOK, [Next]_vars, Up'
  PROVE  config' = config /\ Flow /\ Up
<1>1. CASE Others
  BY <1>1, OthersFlow DEF Flow, mainVars, Up
<1>2. CASE \/ GetParams \/ ParseSendTopic \/ ParseRecvTopic \/ BindSender
           \/ InitializeSendBitrateControl \/ ConnectReceiver \/ Subscribe \/ Advertise
           \/ InitializeNodeFaultControl \/ LoopEnds
  <2>1. Up
    BY <1>2 DEF GetParams, ParseSendTopic, ParseRecvTopic, BindSender,
                InitializeSendBitrateControl, ConnectReceiver, Subscribe, Advertise,
                InitializeNodeFaultControl, LoopEnds, InLoop, LoopOver, Up
  <2> QED
    BY <1>2, <2>1, SetupFlow
<1>3. CASE \/ ScheduleNodeFault \/ StartControlServer \/ StartSendThread \/ StartRecvThread
           \/ Spin \/ SpinReturns \/ JoinControl \/ JoinMonitor \/ StopSend \/ CloseSender
           \/ StopRecv \/ Return0
  <2>1. Up
    BY <1>3 DEF ScheduleNodeFault, StartControlServer, StartSendThread, StartRecvThread, Spin,
                SpinReturns, JoinControl, JoinMonitor, StopSend, CloseSender, StopRecv, Return0,
                InLoop, LoopOver, Up
  <2> QED
    BY <1>3, <2>1, LaterFlow DEF Flow
<1> QED
  BY <1>1, <1>2, <1>3 DEF Next, MainStep, Others, Terminated

\* Only the step of a loop at topic i passes topic i.
LEMMA PassesSend ==
  ASSUME TypeOK, Flow, NEW i \in 1..NSend
  PROVE  /\ Passed("sendTopics", ToSendTopics, i)'
              => \/ Passed("sendTopics", ToSendTopics, i)
                 \/ ParseSendTopic /\ NextTopic /\ i = at
         /\ Passed("bind", ToBind, i)'
              => Passed("bind", ToBind, i) \/ (BindSender /\ NextTopic /\ i = at)
         /\ Passed("subscribe", ToSubscribe, i)'
              => Passed("subscribe", ToSubscribe, i) \/ (Subscribe /\ NextTopic /\ i = at)
<1> USE DEF ToFaultControl, ToAdvertise, ToSubscribe, ToConnect, ToBind, ToRecvTopics,
            ToSendTopics, InLoop, LoopOver, GoTo, NextTopic
<1>1. at \in Nat \ {0} /\ NSend \in Nat /\ i \in Nat
  BY TypeParts, ConfigType DEF MainType
<1>2. Passed("sendTopics", ToSendTopics, i)'
        => \/ Passed("sendTopics", ToSendTopics, i)
           \/ ParseSendTopic /\ NextTopic /\ i = at
  BY <1>1 DEF Flow, Passed
<1>3. Passed("bind", ToBind, i)' => Passed("bind", ToBind, i) \/ (BindSender /\ NextTopic /\ i = at)
  BY <1>1 DEF Flow, Passed
<1>4. Passed("subscribe", ToSubscribe, i)'
        => Passed("subscribe", ToSubscribe, i) \/ (Subscribe /\ NextTopic /\ i = at)
  BY <1>1 DEF Flow, Passed
<1> QED
  BY <1>2, <1>3, <1>4

LEMMA PassesRecv ==
  ASSUME TypeOK, Flow, NEW i \in 1..NRecv
  PROVE  /\ Passed("recvTopics", ToRecvTopics, i)'
              => \/ Passed("recvTopics", ToRecvTopics, i)
                 \/ ParseRecvTopic /\ NextTopic /\ i = at
         /\ Passed("connect", ToConnect, i)'
              => Passed("connect", ToConnect, i) \/ (ConnectReceiver /\ NextTopic /\ i = at)
         /\ Passed("advertise", ToAdvertise, i)'
              => Passed("advertise", ToAdvertise, i) \/ (Advertise /\ NextTopic /\ i = at)
<1> USE DEF ToFaultControl, ToAdvertise, ToSubscribe, ToConnect, ToBind, ToRecvTopics,
            ToSendTopics, InLoop, LoopOver, GoTo, NextTopic
<1>1. at \in Nat \ {0} /\ NRecv \in Nat /\ i \in Nat
  BY TypeParts, ConfigType DEF MainType
<1>2. Passed("recvTopics", ToRecvTopics, i)'
        => \/ Passed("recvTopics", ToRecvTopics, i)
           \/ ParseRecvTopic /\ NextTopic /\ i = at
  BY <1>1 DEF Flow, Passed
<1>3. Passed("connect", ToConnect, i)'
        => Passed("connect", ToConnect, i) \/ (ConnectReceiver /\ NextTopic /\ i = at)
  BY <1>1 DEF Flow, Passed
<1>4. Passed("advertise", ToAdvertise, i)'
        => Passed("advertise", ToAdvertise, i) \/ (Advertise /\ NextTopic /\ i = at)
  BY <1>1 DEF Flow, Passed
<1> QED
  BY <1>2, <1>3, <1>4

\* An optional bitrate that is read and not negative is one that the documents allow,
\* and one that they allow is read and not negative.
LEMMA BitrateJudged ==
  ASSUME NEW f \in BitrateField
  PROVE  BitrateReads(f) /\ ~(GetOptionalBitrateParam(f) < 0) <=> ValidBitrate(f)
<1>1. /\ f.type \in {"absent", "int", "double", "string", "other"}
      /\ f.number \in {"finite", "nan", "missing", "garbled"}
      /\ f.value \in Int /\ f.suffix \in {"none", "k", "m"}
      /\ f.type = "int" => f.number = "finite"
      /\ f.type = "double" => f.number \in {"finite", "nan"}
  BY DEF BitrateField, BitrateFields
<1>2. CASE f.type = "string"
  <2>1. ParseBitrateText(f) < 0 <=> f.value < 0
    <3>1. CASE f.suffix = "none"
      BY <1>1, <3>1 DEF ParseBitrateText
    <3>2. CASE f.suffix = "k"
      BY <1>1, <3>2 DEF ParseBitrateText
    <3>3. CASE f.suffix = "m"
      BY <1>1, <3>3 DEF ParseBitrateText
    <3> QED
      BY <1>1, <3>1, <3>2, <3>3
  <2> QED
    BY <1>1, <1>2, <2>1
       DEF BitrateReads, BitrateTextParses, GetOptionalBitrateParam, ValidBitrate
<1>3. CASE f.type = "absent"
  BY <1>3 DEF BitrateReads, GetOptionalBitrateParam, ValidBitrate
<1>4. CASE f.type \in {"int", "double"}
  <2>1. BitrateReads(f)
    BY <1>4 DEF BitrateReads
  <2>2. CASE f.number = "finite"
    <3>1. GetOptionalBitrateParam(f) = f.value
      BY <1>4, <2>2 DEF GetOptionalBitrateParam
    <3>2. ValidBitrate(f) <=> f.value >= 0
      BY <1>4, <2>2 DEF ValidBitrate
    <3> QED
      BY <1>1, <2>1, <3>1, <3>2
  <2>3. CASE f.number = "nan"
    <3>1. GetOptionalBitrateParam(f) = 0 /\ f.type = "double"
      BY <1>1, <1>4, <2>3 DEF GetOptionalBitrateParam
    <3>2. ValidBitrate(f)
      BY <2>3, <3>1 DEF ValidBitrate
    <3> QED
      BY <2>1, <3>1, <3>2
  <2> QED
    BY <1>1, <1>4, <2>2, <2>3
<1>5. CASE f.type = "other"
  BY <1>5 DEF BitrateReads, GetOptionalBitrateParam, ValidBitrate
<1>6. \/ f.type = "string" \/ f.type = "absent" \/ f.type = "other"
      \/ f.type \in {"int", "double"}
  BY <1>1
<1> QED
  BY <1>2, <1>3, <1>4, <1>5, <1>6, Zenon

LEMMA PolicyJudged ==
  ASSUME NEW p
  PROVE  PolicyParses(GetOptionalStringParam(p, "drop")) <=> p \in {"absent", "drop", "buffer", "latest"}
BY DEF PolicyParses, GetOptionalStringParam

LEMMA InitJudged == Init => Judged /\ Opened /\ Alone
<1> SUFFICES ASSUME Init PROVE Judged /\ Opened /\ Alone
  OBVIOUS
<1>1. pc = "params" /\ ~spun /\ \A t \in Threads : thread[t] = "none"
  BY DEF Init
<1>2. pc \in ToFaultControl
  BY <1>1 DEF ToFaultControl, ToAdvertise, ToSubscribe, ToConnect, ToBind, ToRecvTopics,
              ToSendTopics
<1>3. \A i : /\ ~Passed("sendTopics", ToSendTopics, i) /\ ~Passed("recvTopics", ToRecvTopics, i)
             /\ ~Passed("bind", ToBind, i) /\ ~Passed("connect", ToConnect, i)
             /\ ~Passed("subscribe", ToSubscribe, i) /\ ~Passed("advertise", ToAdvertise, i)
  BY <1>1 DEF Passed, ToAdvertise, ToSubscribe, ToConnect, ToBind, ToRecvTopics, ToSendTopics
<1>4. pc \in ToBind
  BY <1>1 DEF ToBind, ToRecvTopics, ToSendTopics
<1> QED
  BY <1>1, <1>2, <1>3, <1>4 DEF Judged, Opened, Alone

\* All topics have passed, and their policies are known: the configuration is valid.
LEMMA AllJudged ==
  ASSUME TypeOK, Judged, pc = "faultControl", PoliciesKnown
  PROVE  Valid
<1> USE DEF ToAdvertise, ToSubscribe, ToConnect, ToBind, ToRecvTopics, ToSendTopics
<1>1. /\ config.ip /\ NSend <= SubMax
      /\ \A i \in 1..NSend : SendAccepted(i) /\ Subscribes(config.send[i].type)
      /\ \A i \in 1..NRecv : config.recv[i].wellFormed /\ Publishes(config.recv[i].type)
  BY DEF Judged, Up, Passed
<1>2. /\ \A i \in 1..NSend : config.send[i].policy \in {"absent", "drop", "buffer", "latest"}
      /\ \A i \in 1..NRecv : config.recv[i].policy \in {"absent", "drop", "buffer", "latest"}
  BY PolicyJudged DEF PoliciesKnown
<1>3. \A i, j \in 1..NSend : config.send[i].srcPort = config.send[j].srcPort => i = j
  <2> SUFFICES ASSUME NEW i \in 1..NSend, NEW j \in 1..NSend,
                      config.send[i].srcPort = config.send[j].srcPort
               PROVE  i = j
    OBVIOUS
  <2>1. ~(i < j) /\ ~(j < i)
    BY <1>1 DEF SendAccepted
  <2>2. i \in Nat /\ j \in Nat
    BY ConfigType, TypeParts DEF MainType
  <2> QED
    BY <2>1, <2>2
<1>4. \A i \in 1..NSend : ValidTopic(config.send[i]) /\ ValidBitrate(config.send[i].bitrate)
  BY <1>1, <1>2 DEF ValidTopic, SendAccepted, Subscribes
<1>5. \A i \in 1..NRecv : ValidTopic(config.recv[i])
  BY <1>1, <1>2 DEF ValidTopic, Publishes
<1> QED
  BY <1>1, <1>3, <1>4, <1>5 DEF Valid

LEMMA StepJudged == TypeOK /\ Judged /\ [Next]_vars => Judged'
<1> SUFFICES ASSUME TypeOK, Judged, [Next]_vars, Up' PROVE Judged'
  BY DEF Judged
<1>1. config' = config /\ Flow /\ Up
  BY StepFlow
<1>2. /\ NSend' = NSend /\ NRecv' = NRecv /\ (Valid' <=> Valid)
      /\ \A i \in 1..NSend : SendAccepted(i)' <=> SendAccepted(i)
  BY <1>1, StaticNext DEF SendAccepted
<1>3. ~Abort /\ \A status : ~Exit(status)
  BY Ends
<1>4. at \in Nat \ {0} /\ NSend \in Nat /\ NRecv \in Nat
      /\ \A i \in 1..NSend : config.send[i].bitrate \in BitrateField
  BY TypeParts, ConfigType DEF MainType, SendTopic
<1>5. pc' # "params" => config.ip /\ NSend <= SubMax
  <2>1. CASE pc # "params"
    BY <1>1, <2>1 DEF Judged
  <2>2. CASE pc = "params" /\ pc' # "params"
    <3>1. GetParams
      BY <1>1, <2>2 DEF Flow, InLoop, LoopOver, ToFaultControl, ToAdvertise, ToSubscribe,
                        ToConnect, ToBind, ToRecvTopics, ToSendTopics
    <3> QED
      BY <1>3, <3>1 DEF GetParams
  <2> QED
    BY <2>1, <2>2
<1>6. ASSUME NEW i \in 1..NSend, Passed("sendTopics", ToSendTopics, i)' PROVE SendAccepted(i)
  <2>1. CASE Passed("sendTopics", ToSendTopics, i)
    BY <1>1, <2>1 DEF Judged
  <2>2. CASE ParseSendTopic /\ NextTopic /\ i = at
    <3>1. /\ config.send[i].wellFormed /\ BitrateReads(config.send[i].bitrate)
          /\ ~(GetOptionalBitrateParam(config.send[i].bitrate) < 0)
          /\ ~DuplicatePort
      BY <1>3, <2>2 DEF ParseSendTopic
    <3>2. ValidBitrate(config.send[i].bitrate)
      BY <1>4, <3>1, BitrateJudged
    <3>3. \A j \in 1..NSend : j < i => config.send[j].srcPort # config.send[i].srcPort
      BY <1>4, <2>2, <3>1 DEF DuplicatePort
    <3> QED
      BY <3>1, <3>2, <3>3 DEF SendAccepted
  <2> QED
    BY <1>1, <1>6, <2>1, <2>2, PassesSend
<1>7. ASSUME NEW i \in 1..NSend, Passed("subscribe", ToSubscribe, i)'
      PROVE  Subscribes(config.send[i].type)
  <2>1. CASE Passed("subscribe", ToSubscribe, i)
    BY <1>1, <2>1 DEF Judged
  <2>2. CASE Subscribe /\ NextTopic /\ i = at
    BY <1>3, <2>2 DEF Subscribe
  <2> QED
    BY <1>1, <1>7, <2>1, <2>2, PassesSend
<1>8. ASSUME NEW i \in 1..NRecv, Passed("recvTopics", ToRecvTopics, i)'
      PROVE  config.recv[i].wellFormed
  <2>1. CASE Passed("recvTopics", ToRecvTopics, i)
    BY <1>1, <2>1 DEF Judged
  <2>2. CASE ParseRecvTopic /\ NextTopic /\ i = at
    BY <1>3, <2>2 DEF ParseRecvTopic
  <2> QED
    BY <1>1, <1>8, <2>1, <2>2, PassesRecv
<1>9. ASSUME NEW i \in 1..NRecv, Passed("advertise", ToAdvertise, i)'
      PROVE  Publishes(config.recv[i].type)
  <2>1. CASE Passed("advertise", ToAdvertise, i)
    BY <1>1, <2>1 DEF Judged
  <2>2. CASE Advertise /\ NextTopic /\ i = at
    BY <1>3, <2>2 DEF Advertise
  <2> QED
    BY <1>1, <1>9, <2>1, <2>2, PassesRecv
<1>10. ASSUME pc' \notin ToFaultControl PROVE Valid
  <2>1. CASE pc \notin ToFaultControl
    BY <1>1, <2>1 DEF Judged
  <2>2. CASE pc \in ToFaultControl
    <3>1. InitializeNodeFaultControl /\ pc = "faultControl"
      BY <1>1, <1>10, <2>2
         DEF Flow, InLoop, LoopOver, NextTopic, GoTo, ToFaultControl, ToAdvertise, ToSubscribe,
             ToConnect, ToBind, ToRecvTopics, ToSendTopics
    <3>2. PoliciesKnown
      BY <1>3, <3>1 DEF InitializeNodeFaultControl
    <3> QED
      BY <3>1, <3>2, AllJudged
  <2> QED
    BY <2>1, <2>2
<1> QED
  BY <1>1, <1>2, <1>5, <1>6, <1>7, <1>8, <1>9, <1>10 DEF Judged

\* Nothing that has been opened or made ready is ever taken back to where it was before.
StaysOpen ==
  /\ \A i \in 1..NSend : senders[i] # "none" => senders'[i] # "none"
  /\ \A i \in 1..NRecv : receivers[i] # "none" => receivers'[i] # "none"
  /\ \A i \in 1..NRecv : topicPubs[i] # "none" => topicPubs'[i] # "none"
  /\ queuesReady => queuesReady'
  /\ buffersReady => buffersReady'

LEMMA NeverUnopened == ASSUME TypeOK, [Next]_vars PROVE StaysOpen
<1>1. ASSUME UNCHANGED resources PROVE StaysOpen
  BY <1>1 DEF resources, StaysOpen
<1>2. /\ senders \in [1..NSend -> {"none", "open", "closed"}]
      /\ receivers \in [1..NRecv -> {"none", "open", "closed"}]
      /\ topicPubs \in [1..NRecv -> {"none", "open", "closed"}]
  BY TypeParts DEF ResourceType
<1>3. ASSUME Abort \/ \E status : Exit(status) PROVE StaysOpen
  BY <1>1, <1>3, Ends
<1>4. CASE BindSender
  <2>1. CASE Abort
    BY <1>3, <2>1
  <2>2. CASE ~Abort
    <3>1. /\ senders' = [senders EXCEPT ![at] = "open"]
          /\ UNCHANGED <<receivers, topicPubs, queuesReady, buffersReady>>
      BY <1>4, <2>2 DEF BindSender
    <3> QED
      BY <1>2, <3>1 DEF StaysOpen
  <2> QED
    BY <2>1, <2>2
<1>5. CASE InitializeSendBitrateControl
  BY <1>5 DEF InitializeSendBitrateControl, StaysOpen
<1>6. CASE ConnectReceiver
  <2>1. CASE Abort
    BY <1>3, <2>1
  <2>2. CASE ~Abort
    <3>1. /\ receivers' = [receivers EXCEPT ![at] = "open"]
          /\ UNCHANGED <<senders, topicPubs, queuesReady, buffersReady>>
      BY <1>6, <2>2 DEF ConnectReceiver
    <3> QED
      BY <1>2, <3>1 DEF StaysOpen
  <2> QED
    BY <2>1, <2>2
<1>7. CASE Advertise
  <2>1. CASE Exit(1)
    BY <1>3, <2>1
  <2>2. CASE ~Exit(1)
    <3>1. /\ topicPubs' = [topicPubs EXCEPT ![at] = "open"]
          /\ UNCHANGED <<senders, receivers, queuesReady, buffersReady>>
      BY <1>7, <2>2 DEF Advertise
    <3> QED
      BY <1>2, <3>1 DEF StaysOpen
  <2> QED
    BY <2>1, <2>2
<1>8. CASE InitializeNodeFaultControl
  BY <1>3, <1>8 DEF InitializeNodeFaultControl, StaysOpen
<1>9. CASE CloseSender
  <2>1. /\ senders' = [senders EXCEPT ![at] = "closed"]
        /\ UNCHANGED <<receivers, topicPubs, queuesReady, buffersReady>>
    BY <1>9 DEF CloseSender
  <2> QED
    BY <1>2, <2>1 DEF StaysOpen
<1>10. CASE StopRecv
  <2>1. /\ receivers' = [receivers EXCEPT ![at] = "closed"]
        /\ topicPubs' = [topicPubs EXCEPT ![at] = "closed"]
        /\ UNCHANGED <<senders, queuesReady, buffersReady>>
    BY <1>10 DEF StopRecv
  <2> QED
    BY <1>2, <2>1 DEF StaysOpen
<1>11. CASE \/ GetParams \/ ParseSendTopic \/ ParseRecvTopic \/ Subscribe \/ ScheduleNodeFault
            \/ StartControlServer \/ StartSendThread \/ StartRecvThread \/ Spin \/ LoopEnds
  BY <1>1, <1>3, <1>11
     DEF GetParams, ParseSendTopic, ParseRecvTopic, Subscribe, ScheduleNodeFault,
         StartControlServer, StartSendThread, StartRecvThread, Spin, LoopEnds
<1>12. CASE SpinReturns \/ JoinControl \/ JoinMonitor \/ StopSend \/ Return0
  BY <1>1, <1>3, <1>12 DEF SpinReturns, JoinControl, JoinMonitor, StopSend, Return0
<1>13. CASE Others
  <2>1. UNCHANGED resources \/ Abort
    BY <1>13 DEF Others, ThreadEnds, ControlFails, UseAfterStop, StartNodeFault,
                 FlushExpiredFaultIfNeeded, ReplayStep, ReplayTopic, ReplayEnds, vars, resources
  <2> QED
    BY <1>1, <1>3, <2>1
<1> QED
  BY <1>4, <1>5, <1>6, <1>7, <1>8, <1>9, <1>10, <1>11, <1>12, <1>13
     DEF Next, MainStep, Others, Terminated

LEMMA StepOpened == TypeOK /\ Opened /\ [Next]_vars => Opened'
<1> SUFFICES ASSUME TypeOK, Opened, [Next]_vars, Up' PROVE Opened'
  BY DEF Opened
<1>1. config' = config /\ Flow /\ Up
  BY StepFlow
<1>2. NSend' = NSend /\ NRecv' = NRecv
  BY <1>1, StaticNext
<1>3. ~Abort /\ \A status : ~Exit(status)
  BY Ends
<1>4. /\ senders \in [1..NSend -> {"none", "open", "closed"}]
      /\ receivers \in [1..NRecv -> {"none", "open", "closed"}]
      /\ topicPubs \in [1..NRecv -> {"none", "open", "closed"}]
  BY TypeParts DEF ResourceType
<1>5. ASSUME NEW i \in 1..NSend, Passed("bind", ToBind, i)' PROVE senders'[i] # "none"
  <2>1. CASE Passed("bind", ToBind, i)
    BY <1>1, <2>1, NeverUnopened DEF Opened, StaysOpen
  <2>2. CASE BindSender /\ NextTopic /\ i = at
    BY <1>3, <1>4, <2>2 DEF BindSender
  <2> QED
    BY <1>1, <1>5, <2>1, <2>2, PassesSend
<1>6. ASSUME NEW i \in 1..NRecv, Passed("connect", ToConnect, i)' PROVE receivers'[i] # "none"
  <2>1. CASE Passed("connect", ToConnect, i)
    BY <1>1, <2>1, NeverUnopened DEF Opened, StaysOpen
  <2>2. CASE ConnectReceiver /\ NextTopic /\ i = at
    BY <1>3, <1>4, <2>2 DEF ConnectReceiver
  <2> QED
    BY <1>1, <1>6, <2>1, <2>2, PassesRecv
<1>7. ASSUME NEW i \in 1..NRecv, Passed("advertise", ToAdvertise, i)'
      PROVE  topicPubs'[i] # "none"
  <2>1. CASE Passed("advertise", ToAdvertise, i)
    BY <1>1, <2>1, NeverUnopened DEF Opened, StaysOpen
  <2>2. CASE Advertise /\ NextTopic /\ i = at
    BY <1>3, <1>4, <2>2 DEF Advertise
  <2> QED
    BY <1>1, <1>7, <2>1, <2>2, PassesRecv
<1>8. ASSUME pc' \notin ToBind PROVE queuesReady'
  <2>1. CASE pc \notin ToBind
    BY <1>1, <2>1, NeverUnopened DEF Opened, StaysOpen
  <2>2. CASE pc \in ToBind
    <3>1. InitializeSendBitrateControl
      BY <1>1, <1>8, <2>2
         DEF Flow, InLoop, LoopOver, NextTopic, GoTo, ToFaultControl, ToAdvertise, ToSubscribe,
             ToConnect, ToBind, ToRecvTopics, ToSendTopics
    <3> QED
      BY <3>1 DEF InitializeSendBitrateControl
  <2> QED
    BY <2>1, <2>2
<1>9. ASSUME pc' \notin ToFaultControl PROVE buffersReady'
  <2>1. CASE pc \notin ToFaultControl
    BY <1>1, <2>1, NeverUnopened DEF Opened, StaysOpen
  <2>2. CASE pc \in ToFaultControl
    <3>1. InitializeNodeFaultControl
      BY <1>1, <1>9, <2>2
         DEF Flow, InLoop, LoopOver, NextTopic, GoTo, ToFaultControl, ToAdvertise, ToSubscribe,
             ToConnect, ToBind, ToRecvTopics, ToSendTopics
    <3> QED
      BY <1>3, <3>1 DEF InitializeNodeFaultControl
  <2> QED
    BY <2>1, <2>2
<1> QED
  BY <1>2, <1>5, <1>6, <1>7, <1>8, <1>9 DEF Opened

LEMMA StepAlone == TypeOK /\ Alone /\ [Next]_vars => Alone'
<1> SUFFICES ASSUME TypeOK, Alone, [Next]_vars, pc' \in ToFaultControl
             PROVE  ~spun' /\ \A t \in Threads' : thread'[t] = "none"
  BY DEF Alone
<1>0. ASSUME NEW phase \in ToFaultControl
      PROVE  phase \notin {"exited", "schedule", "control", "sendThreads", "recvThreads", "spin",
                           "joinControl", "joinMonitor", "stopSend", "stopRecv"}
  BY <1>0 DEF ToFaultControl, ToAdvertise, ToSubscribe, ToConnect, ToBind, ToRecvTopics,
              ToSendTopics
<1>1. Up'
  BY <1>0 DEF Up
<1>2. config' = config /\ Flow /\ Up
  BY <1>1, StepFlow
<1>3. ~Abort /\ \A status : ~Exit(status)
  BY <1>1, Ends
<1>4. pc \in ToFaultControl
  BY <1>2 DEF Flow, InLoop, LoopOver, ToFaultControl, ToAdvertise, ToSubscribe, ToConnect, ToBind,
              ToRecvTopics, ToSendTopics
<1>5. ~spun /\ \A t \in Threads : thread[t] = "none"
  BY <1>4 DEF Alone
<1>6. ASSUME UNCHANGED <<spun, thread>> PROVE ~spun' /\ \A t \in Threads' : thread'[t] = "none"
  BY <1>2, <1>5, <1>6, StaticNext
<1>7. CASE \/ GetParams \/ ParseSendTopic \/ ParseRecvTopic \/ BindSender
           \/ InitializeSendBitrateControl \/ ConnectReceiver \/ Subscribe \/ Advertise
           \/ LoopEnds
  BY <1>3, <1>6, <1>7
     DEF GetParams, ParseSendTopic, ParseRecvTopic, BindSender, InitializeSendBitrateControl,
         ConnectReceiver, Subscribe, Advertise, LoopEnds, threadVars
<1>8. CASE InitializeNodeFaultControl
  BY <1>0, <1>3, <1>8 DEF InitializeNodeFaultControl, GoTo
<1>9. CASE \/ ScheduleNodeFault \/ StartControlServer \/ StartSendThread \/ StartRecvThread
           \/ Spin \/ SpinReturns \/ JoinControl \/ JoinMonitor \/ StopSend \/ CloseSender
           \/ StopRecv \/ Return0
  BY <1>1, <1>4, <1>9, LaterFlow
<1>10. CASE Others
  <2>1. spun' = spun
    BY <1>1, <1>10, OthersFlow DEF mainVars
  <2>2. thread' = thread
    BY <1>3, <1>5, <1>10, ThreadsDiffer
       DEF Others, ThreadEnds, ControlFails, UseAfterStop, StartNodeFault,
           FlushExpiredFaultIfNeeded, ReplayStep, ReplayTopic, ReplayEnds, vars, threadVars
  <2> QED
    BY <1>6, <2>1, <2>2
<1> QED
  BY <1>7, <1>8, <1>9, <1>10 DEF Next, MainStep, Others, Terminated

-----------------------------------------------------------------------------
(* Ends, and what main() says by them. *)

LEMMA HowItEnds ==
  ASSUME [Next]_vars, ~Up'
  PROVE  UNCHANGED vars \/ Abort \/ \E status : Exit(status)
<1> USE DEF GoTo, NextTopic, InLoop, LoopOver, Up
<1>1. CASE \/ GetParams \/ ParseSendTopic \/ ParseRecvTopic \/ BindSender
           \/ InitializeSendBitrateControl \/ ConnectReceiver \/ Subscribe \/ Advertise
  BY <1>1 DEF GetParams, ParseSendTopic, ParseRecvTopic, BindSender, ConnectReceiver,
              InitializeSendBitrateControl, Subscribe, Advertise
<1>2. CASE \/ InitializeNodeFaultControl \/ ScheduleNodeFault \/ StartControlServer
           \/ StartSendThread \/ StartRecvThread \/ Spin
  BY <1>2 DEF InitializeNodeFaultControl, ScheduleNodeFault, StartControlServer,
              StartSendThread, StartRecvThread, Spin
<1>3. CASE LoopEnds
  <2>1. /\ pc \in {"sendTopics", "subscribe", "sendThreads", "stopSend", "recvTopics", "connect",
                   "advertise"}
        /\ pc' = FollowingLoop[pc]
    BY <1>3 DEF LoopEnds
  <2>2. FollowingLoop[pc] # "exited"
    BY <2>1 DEF FollowingLoop
  <2> QED
    BY <2>1, <2>2
<1>4. CASE \/ SpinReturns \/ JoinControl \/ JoinMonitor \/ StopSend \/ CloseSender \/ StopRecv
           \/ Return0
  BY <1>4 DEF SpinReturns, JoinControl, JoinMonitor, StopSend, CloseSender, StopRecv, Return0,
              mainVars
<1>5. CASE Others
  BY <1>5 DEF Others, ThreadEnds, ControlFails, UseAfterStop, StartNodeFault,
              FlushExpiredFaultIfNeeded, ReplayStep, ReplayTopic, ReplayEnds, mainVars
<1> QED
  BY <1>1, <1>2, <1>3, <1>4, <1>5 DEF Next, MainStep, Others, Terminated

LEMMA ConfigStays == ASSUME TypeOK, [Next]_vars PROVE config' = config
<1>1. CASE Up'
  BY <1>1, StepFlow
<1>2. CASE ~Up'
  BY <1>2, HowItEnds DEF vars, Abort, Exit
<1> QED
  BY <1>1, <1>2

\* No step exits with a status from 1 to 3 if the configuration is valid.
LEMMA Refusals ==
  ASSUME TypeOK, [Next]_vars, Valid
  PROVE  code' = code \/ code' \notin 1..3
<1>1. ASSUME Abort \/ Exit(0) \/ Exit(4) PROVE code' \notin 1..3
  BY <1>1 DEF Abort, Exit, Aborted
<1>2. at \in Nat \ {0} /\ NSend \in Nat /\ NRecv \in Nat
  BY TypeParts, ConfigType DEF MainType
<1>3. /\ config.ip /\ NSend <= SubMax
      /\ \A i \in 1..NSend : ValidTopic(config.send[i]) /\ ValidBitrate(config.send[i].bitrate)
      /\ \A i \in 1..NRecv : ValidTopic(config.recv[i])
  BY DEF Valid
<1>4. CASE GetParams
  BY <1>2, <1>3, <1>4, ConfigType, LifecycleAssumption
     DEF GetParams, LifecycleAssumption
<1>5. CASE ParseSendTopic
  <2>1. at \in 1..NSend
    BY <1>2, <1>5 DEF ParseSendTopic, InLoop
  <2>2. config.send[at].bitrate \in BitrateField
    BY <2>1, TypeParts, ConfigType DEF MainType, SendTopic
  <2>3. /\ BitrateReads(config.send[at].bitrate)
        /\ ~(GetOptionalBitrateParam(config.send[at].bitrate) < 0)
    BY <1>3, <2>1, <2>2, BitrateJudged
  <2>4. PolicyReads(config.send[at].policy)
    BY <1>3, <2>1 DEF ValidTopic, PolicyReads
  <2>5. ~DuplicatePort
    <3> SUFFICES ASSUME DuplicatePort PROVE FALSE
      OBVIOUS
    <3>1. PICK j \in 1..(at - 1) : config.send[j].srcPort = config.send[at].srcPort
      BY DEF DuplicatePort
    <3>2. j \in 1..NSend /\ j # at
      BY <1>2, <2>1
    <3>3. \A i, k \in 1..NSend : config.send[i].srcPort = config.send[k].srcPort => i = k
      BY DEF Valid
    <3> QED
      BY <2>1, <3>1, <3>2, <3>3
  <2> QED
    BY <1>1, <1>5, <2>3, <2>4, <2>5 DEF ParseSendTopic
<1>6. CASE ParseRecvTopic
  <2>1. at \in 1..NRecv
    BY <1>2, <1>6 DEF ParseRecvTopic, InLoop
  <2>2. PolicyReads(config.recv[at].policy)
    BY <1>3, <2>1 DEF ValidTopic, PolicyReads
  <2> QED
    BY <1>1, <1>6, <2>2 DEF ParseRecvTopic
<1>7. CASE Subscribe
  <2>1. at \in 1..NSend
    BY <1>2, <1>7 DEF Subscribe, InLoop
  <2>2. Subscribes(config.send[at].type)
    BY <1>3, <2>1 DEF ValidTopic, Subscribes
  <2> QED
    BY <1>7, <2>2 DEF Subscribe
<1>8. CASE Advertise
  <2>1. at \in 1..NRecv
    BY <1>2, <1>8 DEF Advertise, InLoop
  <2>2. Publishes(config.recv[at].type)
    BY <1>3, <2>1 DEF ValidTopic, Publishes
  <2> QED
    BY <1>8, <2>2 DEF Advertise
<1>9. CASE InitializeNodeFaultControl
  <2>1. PoliciesKnown
    BY <1>3, PolicyJudged DEF ValidTopic, PoliciesKnown
  <2> QED
    BY <1>9, <2>1 DEF InitializeNodeFaultControl
<1>10. CASE \/ BindSender \/ InitializeSendBitrateControl \/ ConnectReceiver \/ ScheduleNodeFault
            \/ StartControlServer \/ StartSendThread \/ StartRecvThread \/ Spin \/ LoopEnds
  BY <1>1, <1>10 DEF BindSender, InitializeSendBitrateControl, ConnectReceiver,
     ScheduleNodeFault, StartControlServer, StartSendThread, StartRecvThread, Spin, LoopEnds
<1>11. CASE \/ SpinReturns \/ JoinControl \/ JoinMonitor \/ StopSend \/ CloseSender \/ StopRecv
            \/ Return0
  BY <1>1, <1>11 DEF SpinReturns, JoinControl, JoinMonitor, StopSend, CloseSender, StopRecv,
     Return0
<1>12. CASE Others
  BY <1>1, <1>12 DEF Others, ThreadEnds, ControlFails, UseAfterStop, StartNodeFault,
     FlushExpiredFaultIfNeeded, ReplayStep, ReplayTopic, ReplayEnds, vars
<1> QED
  BY <1>4, <1>5, <1>6, <1>7, <1>8, <1>9, <1>10, <1>11, <1>12
     DEF Next, MainStep, Others, Terminated

LEMMA StepConfigJudged ==
  TypeOK /\ TypeOK' /\ Judged' /\ Alone' /\ ConfigJudged /\ [Next]_vars => ConfigJudged'
<1> SUFFICES ASSUME TypeOK, TypeOK', Judged', Alone', ConfigJudged, [Next]_vars
             PROVE  ConfigJudged'
  OBVIOUS
<1>1. config' = config
  BY ConfigStays
<1>2. Threads' = Threads /\ (Valid' <=> Valid)
  BY <1>1, StaticNext
<1>3. ASSUME NEW t \in Threads, thread'[t] # "none" PROVE Valid
  <2>1. CASE Up'
    BY <1>2, <1>3, <2>1 DEF Judged, Alone
  <2>2. CASE ~Up'
    BY <1>3, <2>2, HowItEnds DEF ConfigJudged, vars, Abort, Exit, threadVars
  <2> QED
    BY <2>1, <2>2
<1>4. code' \in 1..3 => ~Valid
  BY Refusals DEF ConfigJudged
<1> QED
  BY <1>2, <1>3, <1>4 DEF ConfigJudged

\* For every set of configurations, the checks of main() taken one by one amount to
\* what the documents ask of a configuration: no thread starts with one that is not
\* valid, and no valid one is refused.
THEOREM ConfigurationsJudged == Spec => []ConfigJudged
<1>1. Init => ConfigJudged
  BY LifecycleAssumption DEF Init, ConfigJudged, LifecycleAssumption, Aborted
<1> QED
  BY <1>1, InitJudged, StepJudged, StepAlone, StepConfigJudged, LifecycleTypeCorrect,
     PTL DEF Spec

LEMMA StepReady ==
  TypeOK /\ Judged' /\ Opened' /\ Alone' /\ ReadyBeforeUse /\ [Next]_vars => ReadyBeforeUse'
<1> SUFFICES ASSUME TypeOK, Judged', Opened', Alone', ReadyBeforeUse, [Next]_vars
             PROVE  ReadyBeforeUse'
  OBVIOUS
<1>1. config' = config
  BY ConfigStays
<1>2. NSend' = NSend /\ NRecv' = NRecv /\ Threads' = Threads
  BY <1>1, StaticNext
<1>3. CASE ~Up'
  BY <1>1, <1>2, <1>3, HowItEnds
     DEF ReadyBeforeUse, vars, Abort, Exit, threadVars, resources
<1>4. CASE Up'
  <2> SUFFICES ASSUME pc' \notin ToFaultControl PROVE ReadyBeforeUse'
    BY <1>2 DEF Alone, ReadyBeforeUse
  <2>1. Valid' /\ buffersReady'
    BY <1>4 DEF Judged, Opened
  <2>2. pc' \notin ToBind
    BY DEF ToFaultControl, ToAdvertise, ToSubscribe, ToConnect
  <2>3. queuesReady'
    BY <1>4, <2>2 DEF Opened
  <2>4. \A i \in 1..NSend : senders'[i] # "none"
    BY <1>2, <1>4, <2>2 DEF Opened, Passed
  <2>5. \A i \in 1..NRecv : receivers'[i] # "none" /\ topicPubs'[i] # "none"
    BY <1>2, <1>4 DEF Opened, Passed, ToFaultControl, ToAdvertise, ToSubscribe
  <2>6. \A i \in 1..NRecv : Deserializes(config'.recv[i].type)
    BY <1>2, <2>1 DEF Valid, ValidTopic, Deserializes
  <2> QED
    BY <1>2, <2>1, <2>3, <2>4, <2>5, <2>6 DEF ReadyBeforeUse
<1> QED
  BY <1>3, <1>4

\* For every set of configurations, whatever a thread or a callback may touch exists
\* before the first of them runs.
THEOREM ReadyBeforeAnyUse == Spec => []ReadyBeforeUse
<1>1. Init => ReadyBeforeUse
  BY DEF Init, ReadyBeforeUse
<1> QED
  BY <1>1, InitJudged, StepJudged, StepOpened, StepAlone, StepReady, LifecycleTypeCorrect,
     PTL DEF Spec

-----------------------------------------------------------------------------
(* The stop. *)

Over(t) == thread[t] \in {"none", "joined"}

SpinOrStop == {"spin", "joinControl", "joinMonitor", "stopSend", "stopRecv"}

\* The loop that stops the send topics is done with topic i.
SendStopped(i) ==
  \/ pc = "stopRecv"
  \/ pc = "stopSend" /\ i < at

\* How far the stop has come says which threads are over and which sockets are still
\* there: a sender is closed in its turn only, when its own thread is over.
Stopping ==
  Up => /\ spun <=> pc \in SpinOrStop
        /\ pc \in {"joinMonitor", "stopSend", "stopRecv"} => Over(Control)
        /\ pc \in {"stopSend", "stopRecv"} => Over(Monitor)
        /\ \A i \in 1..NSend :
             /\ Limited(i) /\ SendStopped(i) => Over(Send(i))
             /\ senders[i] = "closed" => SendStopped(i)

LEMMA InitStopping == Init => Stopping
<1> SUFFICES ASSUME Init PROVE Stopping
  OBVIOUS
<1>1. pc = "params" /\ spun = FALSE /\ \A i \in 1..NSend : senders[i] = "none"
  BY DEF Init
<1> QED
  BY <1>1 DEF Stopping, SpinOrStop, SendStopped

\* Outside the stop no sender is closed.
LEMMA NotStopping ==
  ASSUME TypeOK, Stopping, Up, pc \notin {"stopSend", "stopRecv"}
  PROVE  \A i \in 1..NSend : senders[i] # "closed"
BY DEF Stopping, SendStopped

LEMMA StepStopping == TypeOK /\ Stopping /\ [Next]_vars => Stopping'
<1> SUFFICES ASSUME TypeOK, Stopping, [Next]_vars, Up' PROVE Stopping'
  BY DEF Stopping
<1>0. /\ config' = config /\ Flow /\ Up
      /\ NSend' = NSend /\ NRecv' = NRecv /\ \A i : Limited(i)' <=> Limited(i)
  BY StepFlow, StaticNext
<1>1. /\ at \in Nat \ {0} /\ NSend \in Nat /\ NRecv \in Nat
      /\ senders \in [1..NSend -> {"none", "open", "closed"}]
      /\ thread \in [Threads -> {"none", "running", "ended", "joined"}]
  BY TypeParts, ConfigType DEF MainType, ResourceType, ThreadType
<1>2. ~Abort /\ \A status : ~Exit(status)
  BY Ends
<1>3. ASSUME pc' \notin {"joinMonitor", "stopSend", "stopRecv"}, spun' <=> pc' \in SpinOrStop,
             \A i \in 1..NSend : senders'[i] # "closed"
      PROVE  Stopping'
  BY <1>0, <1>3 DEF Stopping, SendStopped
<1>4. ASSUME pc \notin SpinOrStop, pc' \notin SpinOrStop, UNCHANGED <<spun, senders>>
      PROVE  Stopping'
  <2>1. ~spun /\ \A i \in 1..NSend : senders[i] # "closed"
    BY <1>0, <1>4, NotStopping DEF Stopping, SpinOrStop
  <2> QED
    BY <1>3, <1>4, <2>1 DEF SpinOrStop
<1>5. CASE \/ GetParams \/ ParseSendTopic \/ ParseRecvTopic \/ Subscribe
           \/ InitializeSendBitrateControl \/ ConnectReceiver \/ Advertise
           \/ InitializeNodeFaultControl
  <2>1. pc \notin SpinOrStop /\ pc' \notin SpinOrStop /\ UNCHANGED <<spun, senders>>
    BY <1>2, <1>5
       DEF GetParams, ParseSendTopic, ParseRecvTopic, Subscribe, InitializeSendBitrateControl,
           ConnectReceiver, Advertise, InitializeNodeFaultControl, InLoop, LoopOver, GoTo,
           NextTopic, SpinOrStop, resources
  <2> QED
    BY <1>4, <2>1
<1>6. CASE ScheduleNodeFault \/ StartControlServer \/ StartSendThread \/ StartRecvThread
  <2>1. pc \notin SpinOrStop /\ pc' \notin SpinOrStop /\ UNCHANGED <<spun, senders>>
    BY <1>2, <1>6
       DEF ScheduleNodeFault, StartControlServer, StartSendThread, StartRecvThread, InLoop,
           GoTo, NextTopic, SpinOrStop, resources
  <2> QED
    BY <1>4, <2>1
<1>7. CASE BindSender
  <2>1. /\ pc = "bind" /\ pc' = "bind" /\ spun' = spun
        /\ senders' = [senders EXCEPT ![at] = "open"]
    BY <1>2, <1>7 DEF BindSender, InLoop, NextTopic
  <2>2. ~spun /\ \A i \in 1..NSend : senders[i] # "closed"
    BY <1>0, <2>1, NotStopping DEF Stopping, SpinOrStop
  <2>3. \A i \in 1..NSend : senders'[i] # "closed"
    BY <1>1, <2>1, <2>2
  <2> QED
    BY <1>3, <2>1, <2>2, <2>3 DEF SpinOrStop
<1>8. CASE Spin
  <2>1. pc = "recvThreads" /\ pc' = "spin" /\ spun' = TRUE /\ senders' = senders
    BY <1>8 DEF Spin, LoopOver, GoTo, resources
  <2>2. \A i \in 1..NSend : senders[i] # "closed"
    BY <1>0, <2>1, NotStopping
  <2> QED
    BY <1>3, <2>1, <2>2 DEF SpinOrStop
<1>9. CASE SpinReturns
  <2>1. pc = "spin" /\ pc' = "joinControl" /\ spun' = spun /\ senders' = senders
    BY <1>9 DEF SpinReturns, GoTo, resources
  <2>2. spun /\ \A i \in 1..NSend : senders[i] # "closed"
    BY <1>0, <2>1, NotStopping DEF Stopping, SpinOrStop
  <2> QED
    BY <1>3, <2>1, <2>2 DEF SpinOrStop
<1>10. ASSUME NEW t \in Threads, Join(t) PROVE Over(t)' /\ \A u \in Threads : Over(u) => Over(u)'
  BY <1>1, <1>10 DEF Join, Joinable, Over
<1>11. CASE JoinControl
  <2>1. /\ pc = "joinControl" /\ pc' = "joinMonitor" /\ spun' = spun /\ senders' = senders
        /\ Join(Control)
    BY <1>11 DEF JoinControl, GoTo, resources
  <2>2. spun /\ \A i \in 1..NSend : senders[i] # "closed"
    BY <1>0, <2>1, NotStopping DEF Stopping, SpinOrStop
  <2>3. Over(Control)'
    BY <1>10, <2>1, ThreadsDiffer
  <2> QED
    BY <1>0, <2>1, <2>2, <2>3 DEF Stopping, SendStopped, SpinOrStop
<1>12. CASE JoinMonitor
  <2>1. /\ pc = "joinMonitor" /\ pc' = "stopSend" /\ at' = 1 /\ spun' = spun
        /\ senders' = senders /\ Join(Monitor)
    BY <1>12 DEF JoinMonitor, GoTo, resources
  <2>2. spun /\ Over(Control) /\ \A i \in 1..NSend : senders[i] # "closed"
    BY <1>0, <2>1, NotStopping DEF Stopping, SpinOrStop
  <2>3. Over(Control)' /\ Over(Monitor)'
    BY <1>10, <2>1, <2>2, ThreadsDiffer
  <2>4. \A i \in 1..NSend : ~SendStopped(i)'
    BY <2>1 DEF SendStopped
  <2> QED
    BY <1>0, <2>1, <2>2, <2>3, <2>4 DEF Stopping, SpinOrStop
<1>13. CASE CloseSender
  <2>1. /\ pc = "stopSend" /\ pc' = "stopSend" /\ at \in 1..NSend /\ at' = at + 1 /\ spun' = spun
        /\ senders' = [senders EXCEPT ![at] = "closed"]
        /\ IF Limited(at) THEN Join(Send(at)) ELSE UNCHANGED thread
    BY <1>1, <1>13 DEF CloseSender, InLoop, NextTopic
  <2>2. /\ spun /\ Over(Control) /\ Over(Monitor)
        /\ \A i \in 1..NSend : /\ Limited(i) /\ i < at => Over(Send(i))
                               /\ senders[i] = "closed" => i < at
    BY <1>0, <2>1 DEF Stopping, SpinOrStop, SendStopped
  <2>3. /\ \A i \in 1..NSend : Limited(i) /\ i = at => Over(Send(i))'
        /\ \A u \in Threads : Over(u) => Over(u)'
    <3>1. CASE Limited(at)
      <4>1. PICK i \in 1..NSend : i = at
        BY <2>1
      <4>2. Send(i) \in Threads /\ Join(Send(i))
        BY <2>1, <3>1, <4>1, ThreadsDiffer
      <4>3. Over(Send(i))' /\ \A u \in Threads : Over(u) => Over(u)'
        BY <1>10, <4>2
      <4> QED
        BY <4>1, <4>3
    <3>2. CASE ~Limited(at)
      BY <2>1, <3>2 DEF Over
    <3> QED
      BY <3>1, <3>2
  <2>4. \A i \in 1..NSend : SendStopped(i)' <=> i < at \/ i = at
    BY <1>1, <2>1 DEF SendStopped
  <2>5. \A i \in 1..NSend : Limited(i) /\ SendStopped(i)' => Over(Send(i))'
    BY <2>2, <2>3, <2>4, ThreadsDiffer
  <2>6. \A i \in 1..NSend : senders'[i] = "closed" => SendStopped(i)'
    BY <1>1, <2>1, <2>2, <2>4
  <2>7. Over(Control)' /\ Over(Monitor)'
    BY <2>2, <2>3, ThreadsDiffer
  <2> QED
    BY <1>0, <2>1, <2>2, <2>5, <2>6, <2>7 DEF Stopping, SpinOrStop
<1>14. ASSUME UNCHANGED <<pc, at, spun, senders>>, \A u \in Threads : Over(u) => Over(u)'
       PROVE  Stopping'
  <2>1. \A i \in 1..NSend : SendStopped(i)' <=> SendStopped(i)
    BY <1>14 DEF SendStopped
  <2>2. \A i \in 1..NSend : Limited(i) => Send(i) \in Threads
    BY ThreadsDiffer
  <2> QED
    BY <1>0, <1>14, <2>1, <2>2, ThreadsDiffer DEF Stopping
<1>15. CASE StopSend \/ Others
  <2>1. UNCHANGED <<pc, at, spun, senders>>
    BY <1>15, OthersFlow DEF StopSend, mainVars, resources
  <2>2. ASSUME NEW u \in Threads, Over(u) PROVE Over(u)'
    BY <1>1, <1>2, <1>15, <2>2
       DEF StopSend, Others, ThreadEnds, ControlFails, UseAfterStop, StartNodeFault,
           FlushExpiredFaultIfNeeded, ReplayStep, ReplayTopic, ReplayEnds, vars, threadVars, Over
  <2> QED
    BY <1>14, <2>1, <2>2
<1>16. CASE StopRecv
  <2>1. pc = "stopRecv" /\ pc' = "stopRecv" /\ UNCHANGED <<spun, senders, thread>>
    BY <1>16 DEF StopRecv, InLoop, NextTopic
  <2> QED
    BY <1>0, <2>1 DEF Stopping, SpinOrStop, SendStopped, Over
<1>17. CASE LoopEnds
  <2>1. /\ \/ pc \in {"sendTopics", "subscribe", "sendThreads", "stopSend"} /\ at > NSend
           \/ pc \in {"recvTopics", "connect", "advertise"} /\ at > NRecv
        /\ pc' = FollowingLoop[pc] /\ UNCHANGED <<spun, senders, thread>>
    BY <1>17 DEF LoopEnds, GoTo, resources, threadVars
  <2>2. CASE pc = "stopSend"
    <3>1. pc' = "stopRecv"
      BY <2>1, <2>2 DEF FollowingLoop
    <3>2. \A i \in 1..NSend : SendStopped(i)
      BY <1>1, <2>1, <2>2 DEF SendStopped
    <3> QED
      BY <1>0, <2>1, <2>2, <3>1, <3>2 DEF Stopping, SpinOrStop, SendStopped, Over
  <2>3. CASE pc # "stopSend"
    <3>1. pc \notin SpinOrStop /\ pc' \notin SpinOrStop
      BY <2>1, <2>3 DEF FollowingLoop, SpinOrStop
    <3> QED
      BY <1>4, <2>1, <3>1
  <2> QED
    BY <2>2, <2>3
<1>18. CASE Return0
  BY <1>2, <1>18 DEF Return0
<1> QED
  BY <1>5, <1>6, <1>7, <1>8, <1>9, <1>11, <1>12, <1>13, <1>15, <1>16, <1>17, <1>18
     DEF Next, MainStep, Others, Terminated

\* Without receive topics, a topic that is replayed has its socket, if every limited
\* send topic comes before every unlimited one: by the time a socket is closed, those who
\* could still be in a replay are over.
LEMMA ReplayFindsOpen ==
  ASSUME TypeOK, Stopping, Up, NRecv = 0, LimitedFirst,
         NEW t \in Flushers, replay[t] \in 1..(NSend + NRecv)
  PROVE  ~Closed(replay[t])
<1>1. /\ NSend \in Nat /\ at \in Nat
      /\ replay[t] \in 1..NSend /\ Running(t)
  <2>1. NSend \in Nat /\ at \in Nat
    BY TypeParts, ConfigType DEF MainType
  <2>2. replay[t] \in 1..NSend /\ replay[t] > 0
    BY <2>1
  <2> QED
    BY <2>1, <2>2, TypeParts DEF ThreadType
<1> DEFINE p == replay[t]
<1>2. SUFFICES ASSUME ~Limited(p), senders[p] = "closed" PROVE FALSE
  BY <1>1 DEF Closed
<1>3. SendStopped(p)
  BY <1>1, <1>2 DEF Stopping
<1>4. pc \in {"stopSend", "stopRecv"} /\ Over(Monitor)
  BY <1>3 DEF SendStopped, Stopping
<1>5. t # Main /\ t # Monitor
  BY <1>1, <1>4 DEF Running, Over
<1>6. t \in Threads /\ thread[t] = "running" /\ t # Control
  BY <1>1, <1>5, ThreadsDiffer DEF Running
<1>7. PICK i \in 1..NSend : Limited(i) /\ t = Send(i)
  BY <1>1, <1>5, <1>6, ThreadsDiffer
<1>8. ~SendStopped(i)
  BY <1>6, <1>7 DEF Stopping, Over
<1>9. p < i
  BY <1>1, <1>3, <1>8 DEF SendStopped
<1>10. Limited(p)
  BY <1>1, <1>7, <1>9 DEF LimitedFirst
<1> QED
  BY <1>2, <1>10

\* When main() returns, and there are no receive threads, no thread is left.
LEMMA NoThreadAtReturn ==
  ASSUME TypeOK, Stopping, NRecv = 0, Return0
  PROVE  code' = 0
<1>1. pc = "stopRecv" /\ Exit(0)
  BY DEF Return0, LoopOver
<1>2. \A t \in Threads : Over(t)
  BY <1>1, ThreadsDiffer DEF Stopping, SendStopped, Up
<1>3. ~\E t \in Threads : thread[t] \in {"running", "ended"}
  BY <1>2 DEF Over
<1> QED
  BY <1>1, <1>3 DEF Exit

LEMMA StepCleanExit ==
  TypeOK /\ TypeOK' /\ Stopping /\ CleanExit /\ [Next]_vars => CleanExit'
<1> SUFFICES ASSUME TypeOK, TypeOK', Stopping, CleanExit, [Next]_vars,
                    spun', NRecv' = 0, LimitedFirst', code' # None
             PROVE  code' = 0
  BY DEF CleanExit
<1>1. config' = config /\ NRecv = 0 /\ LimitedFirst /\ ~Up' /\ NSend \in Nat
  BY ConfigStays, StaticNext, TypeParts, TypePartsNext, ConfigType DEF MainType
<1>2. UNCHANGED vars \/ Abort \/ \E status : Exit(status)
  BY <1>1, HowItEnds
<1>3. CASE UNCHANGED vars
  BY <1>1, <1>3 DEF vars, CleanExit
<1>4. CASE ~Up
  <2>1. UNCHANGED vars
    BY <1>4 DEF Next, MainStep, GetParams, ParseSendTopic, ParseRecvTopic, BindSender,
         InitializeSendBitrateControl, ConnectReceiver, Subscribe, Advertise,
         InitializeNodeFaultControl, ScheduleNodeFault, StartControlServer, StartSendThread,
         StartRecvThread, Spin, LoopEnds, JoinControl, JoinMonitor, StopSend, CloseSender,
         StopRecv, Return0, SpinReturns, ThreadEnds, ControlFails, UseAfterStop, StartNodeFault,
         FlushExpiredFaultIfNeeded, ReplayStep, ReplayTopic, ReplayEnds, Terminated, InLoop,
         LoopOver, Up
  <2> QED
    BY <1>3, <2>1
<1>5. CASE Up /\ ~UNCHANGED vars
  <2>1. spun' = spun /\ pc \in SpinOrStop /\ pc' = "exited"
    BY <1>1, <1>2, <1>5 DEF Abort, Exit, Stopping, Up
  <2>2. CASE Return0
    BY <1>1, <2>2, NoThreadAtReturn
  <2>3. CASE \E i \in 1..NRecv : UseAfterStop(i)
    BY <1>1, <2>3
  <2>4. CASE \E t \in Flushers : ReplayTopic(t)
    <3>1. PICK t \in Flushers : ReplayTopic(t)
      BY <2>4
    <3>2. ~Closed(replay[t])
      BY <1>1, <1>5, <3>1, ReplayFindsOpen DEF ReplayTopic
    <3>3. UNCHANGED mainVars
      BY <3>1, <3>2 DEF ReplayTopic
    <3> QED
      BY <1>5, <2>1, <3>3 DEF mainVars, Up
  <2>5. CASE \/ \E t \in Threads : ThreadEnds(t)
             \/ ControlFails \/ StartNodeFault
             \/ \E t \in Flushers : FlushExpiredFaultIfNeeded(t) \/ ReplayEnds(t)
    <3>1. UNCHANGED mainVars
      BY <2>5 DEF ThreadEnds, ControlFails, StartNodeFault, FlushExpiredFaultIfNeeded,
                  ReplayEnds
    <3> QED
      BY <1>5, <2>1, <3>1 DEF mainVars, Up
  <2>6. CASE \/ GetParams \/ ParseSendTopic \/ ParseRecvTopic \/ BindSender
             \/ InitializeSendBitrateControl \/ ConnectReceiver \/ Subscribe \/ Advertise
             \/ InitializeNodeFaultControl \/ ScheduleNodeFault \/ StartControlServer
             \/ StartSendThread \/ StartRecvThread \/ Spin
    BY <2>1, <2>6
       DEF GetParams, ParseSendTopic, ParseRecvTopic, BindSender, InitializeSendBitrateControl,
           ConnectReceiver, Subscribe, Advertise, InitializeNodeFaultControl, ScheduleNodeFault,
           StartControlServer, StartSendThread, StartRecvThread, Spin, InLoop, LoopOver,
           SpinOrStop
  <2>7. CASE SpinReturns \/ JoinControl \/ JoinMonitor \/ StopSend \/ CloseSender \/ StopRecv
    <3>1. pc' \in {"joinControl", "joinMonitor", "stopSend", pc}
      BY <2>7 DEF SpinReturns, JoinControl, JoinMonitor, StopSend, CloseSender, StopRecv, GoTo,
                  NextTopic, mainVars
    <3> QED
      BY <1>5, <2>1, <3>1 DEF Up
  <2>8. CASE LoopEnds
    <3>1. pc' = FollowingLoop[pc]
          /\ pc \in {"sendTopics", "subscribe", "sendThreads", "stopSend", "recvTopics",
                     "connect", "advertise"}
      BY <2>8 DEF LoopEnds, GoTo
    <3>2. FollowingLoop[pc] # "exited"
      BY <3>1 DEF FollowingLoop
    <3> QED
      BY <2>1, <3>1, <3>2
  <2> QED
    BY <1>5, <2>2, <2>3, <2>4, <2>5, <2>6, <2>7, <2>8 DEF Next, MainStep, ReplayStep, Terminated
<1> QED
  BY <1>3, <1>4, <1>5

\* Whatever the configuration: without receive topics, and with the limited send topics
\* first, a node that got to ros::spin() ends with status 0, in whatever replay the stop
\* finds its threads.
THEOREM ExitsCleanly == Spec => []CleanExit
<1>1. Init => CleanExit
  BY DEF Init, CleanExit
<1> QED
  BY <1>1, InitStopping, StepStopping, StepCleanExit, LifecycleTypeCorrect, PTL DEF Spec
===============================================================================
