------------------------------ MODULE TwoNodes ------------------------------
(***************************************************************************)
(* Two bridge nodes and the ZeroMQ connection of each topic between them:  *)
(* a PUB socket at the sending node, a SUB socket at the receiving one.    *)
(* Each node is a FaultLink. A fault is simulated inside its node and      *)
(* leaves the connection alone; the connection comes up late, breaks and   *)
(* comes back on its own, and is bounded, for a PUB socket drops what its  *)
(* subscriber is too slow for.                                             *)
(***************************************************************************)
EXTENDS MessageSequences, FiniteSets

CONSTANTS
  Topics,
  SendPolicy, RecvPolicy,  \* fault_policy of each topic at the two nodes
  HighWater,               \* messages a connection holds before it drops new ones
  MaxMsg,                  \* bound: messages accepted, per topic
  MaxFaults                \* bound: faults per node

ASSUME TwoNodesAssumption ==
  /\ {SendPolicy, RecvPolicy} \subseteq [Topics -> {"drop", "buffer", "latest"}]
  /\ MaxMsg \in [Topics -> Nat]
  /\ {HighWater, MaxFaults} \subseteq Nat

VARIABLES
  sPhase, sAccepted, sStage, sBacklog, sOut,  \* the sending node
  rPhase, rAccepted, rStage, rBacklog, rOut,  \* the receiving node
  connected,  \* the topics whose subscription has reached the PUB socket
  wire,       \* per topic, what is on its way
  lost,       \* per topic, what the connection has lost
  arrived,    \* per topic, what recv_func got: the receiving node numbers it in this order
  sFaults, rFaults  \* faults begun at each node

sender == <<sPhase, sAccepted, sStage, sBacklog, sOut, sFaults>>
receiver == <<rPhase, rAccepted, rStage, rBacklog, rOut, rFaults>>
network == <<connected, wire, lost>>
vars == <<sender, receiver, network, arrived>>

Sender == INSTANCE FaultLink WITH
  SendTopics <- Topics, RecvTopics <- {}, Policy <- SendPolicy, phase <- sPhase,
  accepted <- sAccepted, stage <- sStage, backlog <- sBacklog, out <- sOut
Receiver == INSTANCE FaultLink WITH
  SendTopics <- {}, RecvTopics <- Topics, Policy <- RecvPolicy, phase <- rPhase,
  accepted <- rAccepted, stage <- rStage, backlog <- rBacklog, out <- rOut

Init ==
  /\ Sender!Init
  /\ Receiver!Init
  /\ connected = {}
  /\ wire = [k \in Topics |-> <<>>]
  /\ lost = [k \in Topics |-> {}]
  /\ arrived = [k \in Topics |-> <<>>]
  /\ sFaults = 0
  /\ rFaults = 0

-----------------------------------------------------------------------------
(* The way of a message. *)

SubCallback(k) ==
  /\ sAccepted[k] < MaxMsg[k]
  /\ Sender!Accept(k)
  /\ UNCHANGED <<sFaults, receiver, network, arrived>>

\* send() on a PUB socket never waits: it drops what has no subscriber or no room.
Publish(k, m) ==
  IF k \in connected /\ Len(wire[k]) < HighWater
  THEN wire' = [wire EXCEPT ![k] = Append(@, m)] /\ UNCHANGED lost
  ELSE lost' = [lost EXCEPT ![k] = @ \cup {m}] /\ UNCHANGED wire

SendSerializedMessage(k) ==
  /\ Sender!Leave(k) \/ Sender!Release(k)
  /\ Publish(k, Last(sOut'[k]))
  /\ UNCHANGED <<sFaults, receiver, connected, arrived>>

\* recv_func takes the next message, once the one before is published or held.
RecvFunc(k) ==
  /\ wire[k] # <<>>
  /\ Receiver!Accept(k)
  /\ arrived' = [arrived EXCEPT ![k] = Append(@, Head(wire[k]))]
  /\ wire' = [wire EXCEPT ![k] = Tail(@)]
  /\ UNCHANGED <<sender, rFaults, connected, lost>>

PublishReceivedMessage(k) ==
  /\ Receiver!Leave(k) \/ Receiver!Release(k)
  /\ UNCHANGED <<sender, rFaults, network, arrived>>

-----------------------------------------------------------------------------
(* Inside the nodes: the gate, and the course of a fault. *)

SenderGate(k) == Sender!MessageStep(k) /\ UNCHANGED <<sFaults, receiver, network, arrived>>
ReceiverGate(k) == Receiver!MessageStep(k) /\ UNCHANGED <<rFaults, sender, network, arrived>>

SenderFault ==
  /\ sFaults < MaxFaults
  /\ Sender!StartFault
  /\ sFaults' = sFaults + 1
  /\ UNCHANGED <<receiver, network, arrived>>

ReceiverFault ==
  /\ rFaults < MaxFaults
  /\ Receiver!StartFault
  /\ rFaults' = rFaults + 1
  /\ UNCHANGED <<sender, network, arrived>>

SenderRecovers ==
  /\ Sender!WindowEnds \/ Sender!BeginRecovery \/ Sender!EndRecovery
  /\ UNCHANGED <<sFaults, receiver, network, arrived>>

ReceiverRecovers ==
  /\ Receiver!WindowEnds \/ Receiver!BeginRecovery \/ Receiver!EndRecovery
  /\ UNCHANGED <<rFaults, sender, network, arrived>>

-----------------------------------------------------------------------------
(* The connection. *)

Connect(k) ==
  /\ k \notin connected
  /\ connected' = connected \cup {k}
  /\ UNCHANGED <<sender, receiver, wire, lost, arrived>>

\* What has reached the queue of the SUB socket stays, the rest of the way is lost.
Disconnect(k) ==
  /\ k \in connected
  /\ connected' = connected \ {k}
  /\ \E n \in 0..Len(wire[k]) :
       /\ wire' = [wire EXCEPT ![k] = SubSeq(@, 1, n)]
       /\ lost' = [lost EXCEPT ![k] = @ \cup ToSet(SubSeq(wire[k], n + 1, Len(wire[k])))]
  /\ UNCHANGED <<sender, receiver, arrived>>

Next ==
  \/ \E k \in Topics :
       \/ SubCallback(k) \/ SenderGate(k) \/ SendSerializedMessage(k)
       \/ RecvFunc(k) \/ ReceiverGate(k) \/ PublishReceivedMessage(k)
       \/ Connect(k) \/ Disconnect(k)
  \/ SenderFault \/ SenderRecovers
  \/ ReceiverFault \/ ReceiverRecovers

Spec == Init /\ [][Next]_vars

\* The threads of both nodes run and their clocks advance, as in SimComm!Fairness, so
\* that faults end and no message waits for ever at a gate; a message that has arrived
\* is received. No new message or fault has to come, and no connection.
Fairness ==
  /\ \A k \in Topics :
       /\ WF_vars(SenderGate(k)) /\ WF_vars(SendSerializedMessage(k))
       /\ WF_vars(RecvFunc(k))
       /\ WF_vars(ReceiverGate(k)) /\ WF_vars(PublishReceivedMessage(k))
  /\ WF_vars(SenderRecovers) /\ WF_vars(ReceiverRecovers)
LiveSpec == Spec /\ Fairness

-----------------------------------------------------------------------------
(* From one end to the other. *)

Sent(k, numbers) == [i \in DOMAIN numbers |-> arrived[k][numbers[i]]]
Delivered(k) == Sent(k, rOut[k])

\* The places that can hold a message, and what each holds of topic k.
UnderWay(stage, n) == IF stage = "none" THEN <<>> ELSE <<n>>
Stores == {"sending", "held by sender", "wire", "receiving", "held by receiver", "delivered"}
Content(k, s) ==
  CASE s = "sending"          -> UnderWay(sStage[k], sAccepted[k])
    [] s = "held by sender"   -> sBacklog[k]
    [] s = "wire"             -> wire[k]
    [] s = "receiving"        -> Sent(k, UnderWay(rStage[k], rAccepted[k]))
    [] s = "held by receiver" -> Sent(k, rBacklog[k])
    [] s = "delivered"        -> Delivered(k)
Contents(k) == [s \in Stores |-> Content(k, s)]
Somewhere(k) == UNION {ToSet(Content(k, s)) : s \in Stores}

\* With "buffer" at both nodes each message a node accepts is at every time in exactly
\* one place, delivered once, or lost by the connection: no fault at either node, nor
\* two that overlap, loses or doubles one.
Buffered == {k \in Topics : SendPolicy[k] = "buffer" /\ RecvPolicy[k] = "buffer"}
NothingMislaid ==
  \A k \in Buffered :
    /\ Somewhere(k) \cup lost[k] = 1..sAccepted[k]
    /\ Somewhere(k) \cap lost[k] = {}
    /\ NoRepeat(Contents(k))

\* However many faults the sending node has had and however often the connection broke,
\* messages are delivered in the order they were accepted, but for at most one per
\* topic and fault of the receiving node that went ahead of its backlog.
ReceiverAloneReorders == \A k \in Topics : Cardinality(Overtaking(Delivered(k))) <= rFaults

\* With "buffer" at both nodes each message gets to the other end, or the connection
\* has lost it: a fault at one node, at both or in turn only delays it, and a receive
\* thread that waits for a replay does not stop the rest of the way for good. (Messages
\* are finitely many here, so it is enough that again and again all are through.)
DeliveredOrLost ==
  \A k \in Buffered :
    []<>(1..sAccepted[k] \subseteq ToSet(Delivered(k)) \cup lost[k])
=============================================================================
