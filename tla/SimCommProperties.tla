-------------------------- MODULE SimCommProperties --------------------------
(***************************************************************************)
(* What the communication-control module promises about messages, stated   *)
(* over the state of SimComm.  TLC checks all of it on small instances.    *)
(* For every value of the constants SimCommProofs proves what concerns the *)
(* fault state machine, the messages and the sockets, SimCommLinkProofs    *)
(* the order of messages and the abstract view.                            *)
(***************************************************************************)
EXTENDS SimComm, MessageSequences

-----------------------------------------------------------------------------
(* The fault state machine. *)

Flushing(t) == pc[t] \in {"swap", "replay"}

\* Two recoveries never overlap: at most one thread is between taking
\* node_fault_active down and node_fault_recovering down, and while the module
\* runs node_fault_recovering says exactly whether there is one. Nine functions
\* on five kinds of thread write the two flags (start, stop, entry points, monitor).
SingleFlusher ==
  /\ \A s, t \in Flushers : Flushing(s) /\ Flushing(t) => s = t
  /\ running => (recovering <=> \E t \in Flushers : Flushing(t))

\* No message is stranded in a fault buffer: outside a fault, a buffer holds
\* messages only while a flusher is about to swap them out. A late append by a
\* worker that read the flags before the recovery would break it.
BufferGuarded ==
  running /\ buffer # EmptyBuffers => active \/ \E t \in Flushers : pc[t] = "swap"

\* The clearing of the buffers in start_node_fault never destroys a message when
\* faults come from the control server alone: is_node_fault_busy is read in one
\* critical section and acted upon in a later one, and nothing can slip between.
StartClearsNothing == [][faults' > faults => buffer = EmptyBuffers]_vars

\* What the two above rest on, made inductive: where a stop, a start and a flusher
\* may be relative to the flags they write. Holds without ScheduledFault.
Started == pc[Control] = "start" => running /\ ~active /\ ~recovering
StopOrder ==
  /\ running <=> pc[Main] \notin {"stopNotify", "joinMonitor", "stopSend", "joinSend", "stopped"}
  /\ ~running => pc[Control] = "done" /\ ~active
Coordination ==
  /\ SingleFlusher
  /\ BufferGuarded
  /\ active => \A t \in Flushers : ~Flushing(t)
  /\ Started
  /\ StopOrder
  /\ pc[Timer] = "done"

\* A fault never starts while the last one is active or being replayed.
NoReentrantStart == [][faults' > faults => ~active /\ ~recovering]_vars

-----------------------------------------------------------------------------
(* Messages. *)

\* The messages of topic k that got out or are still inside the module.
Carriers(k) == {w \in Workers : hand[w].topic = k}
Known(k) == (UNION {ToSet(s) : s \in {out[k], queue[k], buffer[k]}
                                     \cup {todo[t][k] : t \in Flushers}})
            \cup {hand[w].msg : w \in Carriers(k)}

\* The places that can hold a message, and what each holds of topic k.
Stores == ({"out", "queue", "buffer"} \X {0})
          \cup ({"todo"} \X Flushers) \cup ({"hand"} \X Workers)
InHand(k, w) == IF hand[w].topic = k THEN <<hand[w].msg>> ELSE <<>>
Content(k, s) ==
  CASE s[1] = "out"    -> out[k]
    [] s[1] = "queue"  -> queue[k]
    [] s[1] = "buffer" -> buffer[k]
    [] s[1] = "todo"   -> todo[s[2]][k]
    [] s[1] = "hand"   -> InHand(k, s[2])
Contents(k) == [s \in Stores |-> Content(k, s)]

\* Nothing is ever sent, published or held twice: not even a message that goes
\* through a fault buffer, a replay and a bitrate queue.
NoDuplicate == \A k \in Topics : NoRepeat(Contents(k))

\* Policy "buffer" loses nothing: every message accepted is at all times known,
\* through any fault and recovery. Topics without bitrate limit only: the queue of
\* a limited topic may drop its oldest message at any time.
BufferLosesNothing ==
  \A k \in Topics \ Limited : Policy[k] = "buffer" => Known(k) = 1..next[k]

\* Policy "latest" never loses the newest message of its topic.
LatestKeepsNewest ==
  \A k \in Topics : Policy[k] = "latest" /\ next[k] > 0 => next[k] \in Known(k)

\* Policy "buffer" replays everything a fault held back: replaying one message never
\* makes an earlier one of the same fault disappear.
ReplayLosesNothing ==
  [][\A t \in Flushers, k \in Topics :
       Policy[k] = "buffer" /\ pc[t] = "replay" /\ todo'[t][k] # todo[t][k]
         => \A m \in Known(k) : since[k] < m /\ m < Head(todo[t][k]) => m \in Known(k)']_vars

\* While the fault window is open, no message accepted since it opened gets out:
\* each way to ZMQ or to the publisher passes the gate after the fault began.
NoLeak ==
  FaultWindowOpen =>
    \A k \in Topics : \A i \in DOMAIN out[k] : out[k][i] <= since[k]

\* Messages of topic k that got out before one that was accepted earlier.
Overtakers(k) == Overtaking(out[k])

\* A fault lets at most one message per topic without limit overtake the
\* buffered ones: the one that passed the gate between the end of the window
\* and the start of the recovery. All later ones wait for the replay, which
\* stop_node_fault_control alone may cut short.
OneOvertakerPerFault ==
  running => \A k \in Topics \ Limited : Cardinality(Overtakers(k)) <= faults

\* A send topic without limit never reorders at all: the spin thread is its only
\* source, and of the two gates a message meets the second one looks again whether
\* a fault has expired meanwhile.
SendOrderKept == \A k \in SendTopics \ Limited : Overtakers(k) = {}

\* What the comments promise: a topic's messages leave in the order they came.
DeliveredInOrder == \A k \in Topics : Overtakers(k) = {}

-----------------------------------------------------------------------------
(* Sockets. *)

\* Thread t is about to write to the PUB socket of the unlimited send topic k: it has
\* passed the last gate with a message, or comes to the topic in a replay. A limited
\* topic is written to by its send thread alone, since a replay refills its queue.
WritesTo(t, k) ==
  \/ t = Main /\ pc[t] = "deliver" /\ hand[t].topic = k
  \/ /\ pc[t] = "replay"
     /\ todo[t][k] # <<>>
     /\ \A j \in Topics : j < k => todo[t][j] = <<>>

\* A PUB socket, which ZeroMQ does not allow two threads to use at once, is never
\* written to by the spin thread and a replay, or by two replays, at the same time.
\* The code has no lock for it: it rests on the fault flags alone.
SocketNotShared ==
  \A k \in SendTopics \ Limited : \A s, t \in Flushers :
    WritesTo(s, k) /\ WritesTo(t, k) => s = t

-----------------------------------------------------------------------------
(* The abstract view: SimComm without timer and limits implements FaultLink. *)

LinkPhase ==
  CASE ~running                          -> "stopped"
    [] running /\ recovering             -> "recovering"
    [] running /\ ~recovering /\ ~active -> "up"
    [] running /\ ~recovering /\ active  -> IF expired THEN "over" ELSE "down"

\* A backlog is in the fault buffer, or with the thread that has swapped it out.
Replaying(k) == {t \in Flushers : todo[t][k] # <<>>}
LinkBacklog ==
  [k \in Topics |-> IF Replaying(k) = {} THEN buffer[k]
                    ELSE todo[CHOOSE t \in Replaying(k) : TRUE][k]]
\* A message has entered with its first gate; one to be sent has another one ahead.
LinkStage ==
  [k \in Topics |->
     IF Carriers(k) = {} THEN "none"
     ELSE LET w == CHOOSE w \in Carriers(k) : TRUE
          IN CASE pc[w] = "deliver" -> "cleared"
               [] pc[w] = "gate" -> "entered"
               [] pc[w] \notin {"gate", "deliver"} ->
                    IF w = Main /\ hand[w].gates = 1 THEN "entered" ELSE "arrived"]

Link == INSTANCE FaultLink WITH
          phase <- LinkPhase, accepted <- next, stage <- LinkStage, backlog <- LinkBacklog

\* Every step of every thread is a step of FaultLink or none: the nine functions, two
\* flags and one condition variable amount to one link with a backlog. In particular a
\* recovery ends with nothing left behind, a fault starts on a link that is up, and
\* only a received message can go ahead of its backlog.
ImplementsLink == Link!Spec

-----------------------------------------------------------------------------
(* Liveness, under LiveSpec. *)

\* Every fault ends.
FaultEnds == active ~> ~active

\* Whoever carries a message or flushes comes back: no worker sleeps for ever on
\* node_fault_condition, whoever notify_one picks.
WorkersReturn == \A w \in Workers : pc[w] \in {"check", "gate", "swap", "replay"}
                                    ~> pc[w] \in {"idle", "done"}

\* All of topic k that its policy keeps has got out, but for what a worker carries.
GotOut(k) ==
  LET kept == CASE Policy[k] = "drop"   -> {}
                [] Policy[k] = "latest" -> {next[k]} \ {0}
                [] Policy[k] = "buffer" -> 1..next[k]
  IN  kept \ {hand[w].msg : w \in Carriers(k)} \subseteq ToSet(out[k])

\* What a fault held back gets out, with or without new traffic: whenever a fault buffer
\* of an unlimited topic holds a message, the module comes to a state where nothing that
\* was accepted is missing outside - each message with policy "buffer", the newest with
\* "latest". Only a stop excuses it. True where faults come from the control server
\* alone: the timer's start clears what another fault holds back.
BufferedGetsOut ==
  (\E k \in Topics \ Limited : buffer[k] # <<>>)
    ~> (~running \/ \A k \in Topics \ Limited : GotOut(k))

\* Shutdown completes: none of its three joins waits for ever.
StopCompletes == pc[Main] = "joinControl" ~> pc[Main] = "stopped"
=============================================================================
