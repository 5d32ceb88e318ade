--------------------------- MODULE TwoNodesProofs ---------------------------
(***************************************************************************)
(* Theorems about the way of a message through two nodes, for every number *)
(* of topics, every choice of policies at both nodes, every size of the    *)
(* connections and any number of messages and faults.                      *)
(***************************************************************************)
EXTENDS TwoNodes, MessageSequencesProofs, SequenceTheorems

-----------------------------------------------------------------------------
(* Types, and the numbers the receiving node gives. *)

Stages == {"none", "arrived", "entered", "cleared"}
Policies == {"drop", "buffer", "latest"}

TypeInv ==
  /\ sAccepted \in [Topics -> Nat] /\ rAccepted \in [Topics -> Nat]
  /\ sStage \in [Topics -> Stages] /\ rStage \in [Topics -> Stages]
  /\ sBacklog \in [Topics -> Seq(Nat)] /\ rBacklog \in [Topics -> Seq(Nat)]
  /\ sOut \in [Topics -> Seq(Nat)] /\ rOut \in [Topics -> Seq(Nat)]
  /\ wire \in [Topics -> Seq(Nat)] /\ arrived \in [Topics -> Seq(Nat)]
  /\ lost \in [Topics -> SUBSET Nat]
  /\ sFaults \in Nat /\ rFaults \in Nat

\* The policies, as the assumption has them.
LEMMA PolicyType ==
  ASSUME NEW k \in Topics
  PROVE  SendPolicy[k] \in Policies /\ RecvPolicy[k] \in Policies
BY TwoNodesAssumption DEF TwoNodesAssumption, Policies

\* What the fault holds back: nothing more, the message alone, or the message behind the
\* others.
HeldBack(held, policy, m) ==
  {r \in {held, <<m>>, Append(held, m)} :
     /\ policy = "buffer" => r = Append(held, m)
     /\ policy = "drop" => r = held}

\* What sub_cb changes.
LEMMA SubCallbackEffect ==
  ASSUME TypeInv, NEW j \in Topics, SubCallback(j)
  PROVE  /\ sStage[j] = "none" /\ sStage' = [sStage EXCEPT ![j] = "arrived"]
         /\ sAccepted' = [sAccepted EXCEPT ![j] = sAccepted[j] + 1]
         /\ UNCHANGED <<sPhase, sBacklog, sOut, sFaults, receiver, network, arrived>>
BY DEF SubCallback, Sender!Accept, Sender!Proceed, TypeInv

\* What the fault gate of the sending node changes.
LEMMA SenderGateEffect ==
  ASSUME TypeInv, NEW j \in Topics, SenderGate(j)
  PROVE  /\ UNCHANGED <<sPhase, sAccepted, sOut, sFaults, receiver, network, arrived>>
         /\ \/ /\ sStage[j] = "arrived" /\ sStage' = [sStage EXCEPT ![j] = "entered"]
               /\ sBacklog' = sBacklog
            \/ /\ sStage[j] = "entered" /\ sStage' = [sStage EXCEPT ![j] = "cleared"]
               /\ sBacklog' = sBacklog
               /\ sPhase \in {"up", "stopped"} \/ sBacklog[j] = <<>>
            \/ /\ sStage[j] = "entered" /\ sStage' = [sStage EXCEPT ![j] = "none"]
               /\ sPhase = "down"
               /\ \E held \in HeldBack(sBacklog[j], SendPolicy[j], sAccepted[j]) :
                    sBacklog' = [sBacklog EXCEPT ![j] = held]
<1>1. CASE Sender!Enter(j)
  BY <1>1 DEF SenderGate, Sender!Enter, Sender!Proceed, TypeInv
<1>2. CASE Sender!Clear(j)
  BY <1>2 DEF SenderGate, Sender!Clear, Sender!Proceed, Sender!InTime, TypeInv
<1>3. CASE Sender!Hold(j)
  <2>1. /\ sStage[j] = "entered" /\ sStage' = [sStage EXCEPT ![j] = "none"]
        /\ sPhase = "down"
        /\ sBacklog' = [sBacklog EXCEPT
                          ![j] = Sender!Held(SendPolicy[j], sBacklog[j], sAccepted[j])]
        /\ UNCHANGED <<sPhase, sAccepted, sOut, sFaults, receiver, network, arrived>>
    BY <1>3 DEF SenderGate, Sender!Hold, Sender!Proceed, TypeInv
  <2>2. Sender!Held(SendPolicy[j], sBacklog[j], sAccepted[j])
          \in HeldBack(sBacklog[j], SendPolicy[j], sAccepted[j])
    BY PolicyType DEF Sender!Held, HeldBack, Policies
  <2> QED
    BY <2>1, <2>2
<1> QED
  BY <1>1, <1>2, <1>3 DEF SenderGate, Sender!MessageStep

\* What a send on the PUB socket changes, by the callback or by a replay.
LEMMA SendEffect ==
  ASSUME TypeInv, NEW j \in Topics, SendSerializedMessage(j)
  PROVE  /\ UNCHANGED <<sPhase, sAccepted, sFaults, receiver, connected, arrived>>
         /\ \E m \in Nat :
              /\ \/ /\ sStage[j] = "cleared" /\ m = sAccepted[j]
                    /\ sStage' = [sStage EXCEPT ![j] = "none"] /\ sBacklog' = sBacklog
                 \/ /\ sBacklog[j] # <<>> /\ m = Head(sBacklog[j]) /\ sStage' = sStage
                    /\ sBacklog' = [sBacklog EXCEPT ![j] = Tail(sBacklog[j])]
              /\ sOut' = [sOut EXCEPT ![j] = Append(sOut[j], m)]
              /\ \/ /\ wire' = [wire EXCEPT ![j] = Append(wire[j], m)] /\ lost' = lost
                 \/ /\ wire' = wire /\ lost' = [lost EXCEPT ![j] = lost[j] \cup {m}]
<1>1. ASSUME NEW m \in Nat, sOut' = [sOut EXCEPT ![j] = Append(sOut[j], m)]
      PROVE  \/ /\ wire' = [wire EXCEPT ![j] = Append(wire[j], m)] /\ lost' = lost
             \/ /\ wire' = wire /\ lost' = [lost EXCEPT ![j] = lost[j] \cup {m}]
  <2>1. sOut[j] \in Seq(Nat) /\ sOut'[j] = Append(sOut[j], m)
    BY <1>1 DEF TypeInv
  <2>2. Last(sOut'[j]) = m
    BY <2>1 DEF Last
  <2> QED
    BY <2>2 DEF SendSerializedMessage, Publish
<1>2. CASE Sender!Leave(j)
  <2>1. /\ sStage[j] = "cleared" /\ sAccepted[j] \in Nat
        /\ sStage' = [sStage EXCEPT ![j] = "none"] /\ sBacklog' = sBacklog
        /\ sOut' = [sOut EXCEPT ![j] = Append(sOut[j], sAccepted[j])]
        /\ UNCHANGED <<sPhase, sAccepted, sFaults, receiver, connected, arrived>>
    BY <1>2 DEF SendSerializedMessage, Sender!Leave, Sender!Proceed, TypeInv
  <2> QED
    BY <1>1, <2>1
<1>3. CASE Sender!Release(j)
  <2>1. /\ sBacklog[j] # <<>> /\ sStage' = sStage
        /\ sBacklog' = [sBacklog EXCEPT ![j] = Tail(sBacklog[j])]
        /\ sOut' = [sOut EXCEPT ![j] = Append(sOut[j], Head(sBacklog[j]))]
        /\ UNCHANGED <<sPhase, sAccepted, sFaults, receiver, connected, arrived>>
    BY <1>3 DEF SendSerializedMessage, Sender!Release, TypeInv
  <2>2. Head(sBacklog[j]) \in Nat
    BY <2>1 DEF TypeInv
  <2> QED
    BY <1>1, <2>1, <2>2
<1> QED
  BY <1>2, <1>3 DEF SendSerializedMessage

\* What recv_func changes when it takes a message from the SUB socket.
LEMMA RecvFuncEffect ==
  ASSUME TypeInv, NEW j \in Topics, RecvFunc(j)
  PROVE  /\ wire[j] # <<>>
         /\ rStage[j] = "none" /\ rStage' = [rStage EXCEPT ![j] = "arrived"]
         /\ rAccepted' = [rAccepted EXCEPT ![j] = rAccepted[j] + 1]
         /\ arrived' = [arrived EXCEPT ![j] = Append(arrived[j], Head(wire[j]))]
         /\ wire' = [wire EXCEPT ![j] = Tail(wire[j])]
         /\ UNCHANGED <<sender, rPhase, rBacklog, rOut, rFaults, connected, lost>>
BY DEF RecvFunc, Receiver!Accept, Receiver!Proceed, TypeInv

\* What the fault gate of the receiving node changes.
LEMMA ReceiverGateEffect ==
  ASSUME TypeInv, NEW j \in Topics, ReceiverGate(j)
  PROVE  /\ UNCHANGED <<rPhase, rAccepted, rOut, rFaults, sender, network, arrived>>
         /\ \/ /\ rStage[j] = "arrived" /\ rStage' = [rStage EXCEPT ![j] = "entered"]
               /\ rBacklog' = rBacklog
               /\ rPhase # "over" \/ rBacklog[j] = <<>>
            \/ /\ rStage[j] = "entered" /\ rStage' = [rStage EXCEPT ![j] = "cleared"]
               /\ rBacklog' = rBacklog
               /\ rPhase \in {"up", "stopped", "over"}
            \/ /\ rStage[j] = "entered" /\ rStage' = [rStage EXCEPT ![j] = "none"]
               /\ rPhase = "down"
               /\ \E held \in HeldBack(rBacklog[j], RecvPolicy[j], rAccepted[j]) :
                    rBacklog' = [rBacklog EXCEPT ![j] = held]
<1>1. CASE Receiver!Enter(j)
  BY <1>1 DEF ReceiverGate, Receiver!Enter, Receiver!Proceed, TypeInv
<1>2. CASE Receiver!Clear(j)
  BY <1>2 DEF ReceiverGate, Receiver!Clear, Receiver!Proceed, Receiver!InTime, TypeInv
<1>3. CASE Receiver!Hold(j)
  <2>1. /\ rStage[j] = "entered" /\ rStage' = [rStage EXCEPT ![j] = "none"]
        /\ rPhase = "down"
        /\ rBacklog' = [rBacklog EXCEPT
                          ![j] = Receiver!Held(RecvPolicy[j], rBacklog[j], rAccepted[j])]
        /\ UNCHANGED <<rPhase, rAccepted, rOut, rFaults, sender, network, arrived>>
    BY <1>3 DEF ReceiverGate, Receiver!Hold, Receiver!Proceed, TypeInv
  <2>2. Receiver!Held(RecvPolicy[j], rBacklog[j], rAccepted[j])
          \in HeldBack(rBacklog[j], RecvPolicy[j], rAccepted[j])
    BY PolicyType DEF Receiver!Held, HeldBack, Policies
  <2> QED
    BY <2>1, <2>2
<1> QED
  BY <1>1, <1>2, <1>3 DEF ReceiverGate, Receiver!MessageStep

\* What a publish changes, by the receive thread or by a replay.
LEMMA PublishEffect ==
  ASSUME TypeInv, NEW j \in Topics, PublishReceivedMessage(j)
  PROVE  /\ UNCHANGED <<rPhase, rAccepted, rFaults, sender, network, arrived>>
         /\ \E n \in Nat :
              /\ \/ /\ rStage[j] = "cleared" /\ n = rAccepted[j]
                    /\ rStage' = [rStage EXCEPT ![j] = "none"] /\ rBacklog' = rBacklog
                 \/ /\ rBacklog[j] # <<>> /\ n = Head(rBacklog[j]) /\ rStage' = rStage
                    /\ rBacklog' = [rBacklog EXCEPT ![j] = Tail(rBacklog[j])]
              /\ rOut' = [rOut EXCEPT ![j] = Append(rOut[j], n)]
<1>1. CASE Receiver!Leave(j)
  BY <1>1 DEF PublishReceivedMessage, Receiver!Leave, Receiver!Proceed, TypeInv
<1>2. CASE Receiver!Release(j)
  <2>1. Head(rBacklog[j]) \in Nat
    BY <1>2 DEF Receiver!Release, TypeInv
  <2> QED
    BY <1>2, <2>1 DEF PublishReceivedMessage, Receiver!Release, TypeInv
<1> QED
  BY <1>1, <1>2 DEF PublishReceivedMessage

\* What a break of the connection changes.
LEMMA DisconnectEffect ==
  ASSUME TypeInv, NEW j \in Topics, Disconnect(j)
  PROVE  /\ UNCHANGED <<sender, receiver, arrived>>
         /\ \E n \in 0..Len(wire[j]) :
              /\ wire' = [wire EXCEPT ![j] = SubSeq(wire[j], 1, n)]
              /\ lost' = [lost EXCEPT ![j] = lost[j]
                                        \cup ToSet(SubSeq(wire[j], n + 1, Len(wire[j])))]
BY DEF Disconnect

\* The steps that change neither a message nor a backlog.
Turns ==
  /\ UNCHANGED <<sAccepted, sStage, sBacklog, sOut, rAccepted, rStage, rBacklog, rOut>>
  /\ UNCHANGED <<wire, lost, arrived>>
  /\ sFaults' \in {sFaults, sFaults + 1}
  /\ \/ rPhase' = rPhase /\ rFaults' = rFaults
     \/ rPhase = "up" /\ rPhase' = "down" /\ rFaults' = rFaults + 1
     \/ rPhase = "down" /\ rPhase' = "over" /\ rFaults' = rFaults
     \/ rPhase = "over" /\ rPhase' = "recovering" /\ rFaults' = rFaults
     \/ /\ rPhase = "recovering" /\ rPhase' = "up" /\ rFaults' = rFaults
        /\ \A k \in Topics : rBacklog[k] = <<>>
  /\ \/ sPhase' = sPhase
     \/ sPhase = "up" /\ sPhase' = "down"
     \/ sPhase = "down" /\ sPhase' = "over"
     \/ sPhase = "over" /\ sPhase' = "recovering"
     \/ /\ sPhase = "recovering" /\ sPhase' = "up"
        /\ \A k \in Topics : sBacklog[k] = <<>>

\* The steps of the two faults and of a subscription leave every message where it is.
LEMMA TurnsEffect ==
  ASSUME SenderFault \/ SenderRecovers \/ ReceiverFault \/ ReceiverRecovers
         \/ (\E k \in Topics : Connect(k)) \/ UNCHANGED vars
  PROVE  Turns
<1>1. CASE SenderFault
  BY <1>1 DEF SenderFault, Sender!StartFault, Sender!Turn, Turns, receiver, network
<1>2. CASE SenderRecovers
  BY <1>2 DEF SenderRecovers, Sender!WindowEnds, Sender!BeginRecovery, Sender!EndRecovery,
              Sender!Turn, Sender!LinkTopics, Turns, receiver, network
<1>3. CASE ReceiverFault
  BY <1>3 DEF ReceiverFault, Receiver!StartFault, Receiver!Turn, Turns, sender, network
<1>4. CASE ReceiverRecovers
  BY <1>4 DEF ReceiverRecovers, Receiver!WindowEnds, Receiver!BeginRecovery,
              Receiver!EndRecovery, Receiver!Turn, Receiver!LinkTopics, Turns, sender, network
<1>5. CASE \E k \in Topics : Connect(k)
  BY <1>5 DEF Connect, Turns, sender, receiver
<1>6. CASE UNCHANGED vars
  BY <1>6 DEF vars, Turns, sender, receiver, network
<1> QED
  BY <1>1, <1>2, <1>3, <1>4, <1>5, <1>6

\* Every step is one of these.
LEMMA Steps ==
  ASSUME [Next]_vars
  PROVE  \/ Turns
         \/ \E j \in Topics :
              \/ SubCallback(j) \/ SenderGate(j) \/ SendSerializedMessage(j)
              \/ RecvFunc(j) \/ ReceiverGate(j) \/ PublishReceivedMessage(j)
              \/ Disconnect(j)
BY TurnsEffect DEF Next

-----------------------------------------------------------------------------
(* The types hold. *)

\* What is held back are numbers of messages.
LEMMA HeldBackType ==
  ASSUME NEW S, NEW held \in Seq(S), NEW m \in S, NEW policy
  PROVE  HeldBack(held, policy, m) \subseteq Seq(S)
<1>1. <<m>> \in Seq(S) /\ Append(held, m) \in Seq(S)
  OBVIOUS
<1> QED
  BY <1>1 DEF HeldBack

\* The initial state has these types.
LEMMA InitTypes == Init => TypeInv
BY DEF Init, Sender!Init, Receiver!Init, Sender!LinkTopics, Receiver!LinkTopics, TypeInv, Stages

\* Every step keeps them.
LEMMA StepTypes == TypeInv /\ [Next]_vars => TypeInv'
<1> SUFFICES ASSUME TypeInv, [Next]_vars PROVE TypeInv'
  OBVIOUS
<1>1. ASSUME NEW j \in Topics, SubCallback(j) PROVE TypeInv'
  <2>1. /\ sStage' = [sStage EXCEPT ![j] = "arrived"]
        /\ sAccepted' = [sAccepted EXCEPT ![j] = sAccepted[j] + 1]
        /\ UNCHANGED <<sBacklog, sOut, sFaults, receiver, network, arrived>>
    BY <1>1, SubCallbackEffect
  <2>2. sStage' \in [Topics -> Stages] /\ sAccepted' \in [Topics -> Nat]
    BY <2>1 DEF TypeInv, Stages
  <2> QED
    BY <2>1, <2>2 DEF TypeInv, receiver, network
<1>2. ASSUME NEW j \in Topics, SenderGate(j) PROVE TypeInv'
  <2>1. /\ UNCHANGED <<sPhase, sAccepted, sOut, sFaults, receiver, network, arrived>>
        /\ \E st \in Stages : sStage' = [sStage EXCEPT ![j] = st]
        /\ \/ sBacklog' = sBacklog
           \/ \E held \in HeldBack(sBacklog[j], SendPolicy[j], sAccepted[j]) :
                sBacklog' = [sBacklog EXCEPT ![j] = held]
    BY <1>2, SenderGateEffect DEF Stages
  <2>2. HeldBack(sBacklog[j], SendPolicy[j], sAccepted[j]) \subseteq Seq(Nat)
    BY HeldBackType DEF TypeInv
  <2>3. sBacklog' \in [Topics -> Seq(Nat)]
    <3>1. sBacklog \in [Topics -> Seq(Nat)]
      BY DEF TypeInv
    <3>2. ASSUME NEW held \in Seq(Nat), sBacklog' = [sBacklog EXCEPT ![j] = held]
          PROVE  sBacklog' \in [Topics -> Seq(Nat)]
      BY <3>1, <3>2
    <3> QED
      BY <2>1, <2>2, <3>1, <3>2
  <2> QED
    BY <2>1, <2>3 DEF TypeInv, receiver, network
<1>3. ASSUME NEW j \in Topics, SendSerializedMessage(j) PROVE TypeInv'
  <2>1. PICK m \in Nat :
          /\ \/ /\ sStage' = [sStage EXCEPT ![j] = "none"] /\ sBacklog' = sBacklog
             \/ /\ sBacklog[j] # <<>> /\ sStage' = sStage
                /\ sBacklog' = [sBacklog EXCEPT ![j] = Tail(sBacklog[j])]
          /\ sOut' = [sOut EXCEPT ![j] = Append(sOut[j], m)]
          /\ \/ /\ wire' = [wire EXCEPT ![j] = Append(wire[j], m)] /\ lost' = lost
             \/ /\ wire' = wire /\ lost' = [lost EXCEPT ![j] = lost[j] \cup {m}]
    BY <1>3, SendEffect
  <2>2. UNCHANGED <<sPhase, sAccepted, sFaults, receiver, connected, arrived>>
    BY <1>3, SendEffect
  <2>0. /\ Append(sOut[j], m) \in Seq(Nat) /\ Append(wire[j], m) \in Seq(Nat)
        /\ sBacklog[j] # <<>> => Tail(sBacklog[j]) \in Seq(Nat)
        /\ lost[j] \cup {m} \in SUBSET Nat
    <3>1. sOut[j] \in Seq(Nat) /\ wire[j] \in Seq(Nat) /\ sBacklog[j] \in Seq(Nat)
          /\ lost[j] \subseteq Nat
      BY DEF TypeInv
    <3> QED
      BY <3>1, HeadTailSet
  <2>3. sBacklog' \in [Topics -> Seq(Nat)] /\ sStage' \in [Topics -> Stages]
    <3>1. CASE sStage' = [sStage EXCEPT ![j] = "none"] /\ sBacklog' = sBacklog
      BY <3>1 DEF TypeInv, Stages
    <3>2. CASE /\ sBacklog[j] # <<>> /\ sStage' = sStage
               /\ sBacklog' = [sBacklog EXCEPT ![j] = Tail(sBacklog[j])]
      BY <2>0, <3>2 DEF TypeInv
    <3> QED
      BY <2>1, <3>1, <3>2
  <2>4. wire' \in [Topics -> Seq(Nat)] /\ lost' \in [Topics -> SUBSET Nat]
    <3>1. CASE wire' = [wire EXCEPT ![j] = Append(wire[j], m)] /\ lost' = lost
      BY <2>0, <3>1 DEF TypeInv
    <3>2. CASE wire' = wire /\ lost' = [lost EXCEPT ![j] = lost[j] \cup {m}]
      BY <2>0, <3>2 DEF TypeInv
    <3> QED
      BY <2>1, <3>1, <3>2
  <2>5. sOut' \in [Topics -> Seq(Nat)]
    BY <2>0, <2>1 DEF TypeInv
  <2> QED
    BY <2>2, <2>3, <2>4, <2>5 DEF TypeInv, receiver
<1>4. ASSUME NEW j \in Topics, RecvFunc(j) PROVE TypeInv'
  <2>1. /\ rStage' = [rStage EXCEPT ![j] = "arrived"]
        /\ rAccepted' = [rAccepted EXCEPT ![j] = rAccepted[j] + 1]
        /\ arrived' = [arrived EXCEPT ![j] = Append(arrived[j], Head(wire[j]))]
        /\ wire' = [wire EXCEPT ![j] = Tail(wire[j])]
        /\ UNCHANGED <<sender, rBacklog, rOut, rFaults, lost>>
    BY <1>4, RecvFuncEffect
  <2>2. Append(arrived[j], Head(wire[j])) \in Seq(Nat) /\ Tail(wire[j]) \in Seq(Nat)
    <3>1. wire[j] # <<>> /\ wire[j] \in Seq(Nat) /\ arrived[j] \in Seq(Nat)
      BY <1>4, RecvFuncEffect DEF TypeInv
    <3>2. Head(wire[j]) \in Nat /\ Tail(wire[j]) \in Seq(Nat)
      BY <3>1, HeadTailSet
    <3> QED
      BY <3>1, <3>2
  <2>3. rStage' \in [Topics -> Stages] /\ rAccepted' \in [Topics -> Nat]
    BY <2>1 DEF TypeInv, Stages
  <2>4. arrived' \in [Topics -> Seq(Nat)] /\ wire' \in [Topics -> Seq(Nat)]
    BY <2>1, <2>2 DEF TypeInv
  <2> QED
    BY <2>1, <2>3, <2>4 DEF TypeInv, sender
<1>5. ASSUME NEW j \in Topics, ReceiverGate(j) PROVE TypeInv'
  <2>1. /\ UNCHANGED <<rPhase, rAccepted, rOut, rFaults, sender, network, arrived>>
        /\ \E st \in Stages : rStage' = [rStage EXCEPT ![j] = st]
        /\ \/ rBacklog' = rBacklog
           \/ \E held \in HeldBack(rBacklog[j], RecvPolicy[j], rAccepted[j]) :
                rBacklog' = [rBacklog EXCEPT ![j] = held]
    BY <1>5, ReceiverGateEffect DEF Stages
  <2>2. HeldBack(rBacklog[j], RecvPolicy[j], rAccepted[j]) \subseteq Seq(Nat)
    BY HeldBackType DEF TypeInv
  <2>3. rBacklog' \in [Topics -> Seq(Nat)]
    <3>1. rBacklog \in [Topics -> Seq(Nat)]
      BY DEF TypeInv
    <3>2. ASSUME NEW held \in Seq(Nat), rBacklog' = [rBacklog EXCEPT ![j] = held]
          PROVE  rBacklog' \in [Topics -> Seq(Nat)]
      BY <3>1, <3>2
    <3> QED
      BY <2>1, <2>2, <3>1, <3>2
  <2> QED
    BY <2>1, <2>3 DEF TypeInv, sender, network
<1>6. ASSUME NEW j \in Topics, PublishReceivedMessage(j) PROVE TypeInv'
  <2>1. PICK n \in Nat :
          /\ \/ /\ rStage' = [rStage EXCEPT ![j] = "none"] /\ rBacklog' = rBacklog
             \/ /\ rBacklog[j] # <<>> /\ rStage' = rStage
                /\ rBacklog' = [rBacklog EXCEPT ![j] = Tail(rBacklog[j])]
          /\ rOut' = [rOut EXCEPT ![j] = Append(rOut[j], n)]
    BY <1>6, PublishEffect
  <2>2. UNCHANGED <<rAccepted, rFaults, sender, network, arrived>>
    BY <1>6, PublishEffect
  <2>3. /\ Append(rOut[j], n) \in Seq(Nat)
        /\ rBacklog[j] # <<>> => Tail(rBacklog[j]) \in Seq(Nat)
    <3>1. rOut[j] \in Seq(Nat) /\ rBacklog[j] \in Seq(Nat)
      BY DEF TypeInv
    <3> QED
      BY <3>1, HeadTailSet
  <2>4. rBacklog' \in [Topics -> Seq(Nat)] /\ rStage' \in [Topics -> Stages]
    <3>1. CASE rStage' = [rStage EXCEPT ![j] = "none"] /\ rBacklog' = rBacklog
      BY <3>1 DEF TypeInv, Stages
    <3>2. CASE /\ rBacklog[j] # <<>> /\ rStage' = rStage
               /\ rBacklog' = [rBacklog EXCEPT ![j] = Tail(rBacklog[j])]
      BY <2>3, <3>2 DEF TypeInv
    <3> QED
      BY <2>1, <3>1, <3>2
  <2>5. rOut' \in [Topics -> Seq(Nat)]
    BY <2>1, <2>3 DEF TypeInv
  <2> QED
    BY <2>2, <2>4, <2>5 DEF TypeInv, sender, network
<1>7. ASSUME NEW j \in Topics, Disconnect(j) PROVE TypeInv'
  <2>1. PICK n \in 0..Len(wire[j]) :
          /\ wire' = [wire EXCEPT ![j] = SubSeq(wire[j], 1, n)]
          /\ lost' = [lost EXCEPT ![j] = lost[j]
                                    \cup ToSet(SubSeq(wire[j], n + 1, Len(wire[j])))]
    BY <1>7, DisconnectEffect
  <2>2. wire[j] \in Seq(Nat) /\ SubSeq(wire[j], 1, n) \in Seq(Nat)
        /\ SubSeq(wire[j], n + 1, Len(wire[j])) \in Seq(Nat)
    BY SMTT(30) DEF TypeInv
  <2>3. ToSet(SubSeq(wire[j], n + 1, Len(wire[j]))) \subseteq Nat
    BY <2>2, ElementType
  <2>4. wire' \in [Topics -> Seq(Nat)] /\ lost' \in [Topics -> SUBSET Nat]
    BY <2>1, <2>2, <2>3 DEF TypeInv
  <2>5. UNCHANGED <<sender, receiver, arrived>>
    BY <1>7, DisconnectEffect
  <2> QED
    BY <2>4, <2>5 DEF TypeInv, sender, receiver
<1>8. ASSUME Turns PROVE TypeInv'
  BY <1>8 DEF Turns, TypeInv
<1> QED
  BY <1>1, <1>2, <1>3, <1>4, <1>5, <1>6, <1>7, <1>8, Steps

\* The types of both nodes and of the network.
LEMMA TypesHold == Spec => []TypeInv
BY InitTypes, StepTypes, PTL DEF Spec

-----------------------------------------------------------------------------
(* The receiving node numbers messages in the order they arrived. *)

Numbered ==
  \A k \in Topics :
    /\ rAccepted[k] = Len(arrived[k])
    /\ rBacklog[k] \in Seq(1..rAccepted[k]) /\ rOut[k] \in Seq(1..rAccepted[k])
    /\ rStage[k] # "none" => rAccepted[k] > 0

\* Nothing has arrived at first.
LEMMA InitNumbered == Init => Numbered
BY DEF Init, Receiver!Init, Receiver!LinkTopics, Numbered

\* Every step keeps the numbers of the receiving node within what has arrived.
LEMMA StepNumbered == TypeInv /\ Numbered /\ [Next]_vars => Numbered'
<1> SUFFICES ASSUME TypeInv, Numbered, [Next]_vars, NEW k \in Topics
             PROVE  /\ rAccepted'[k] = Len(arrived'[k])
                    /\ rBacklog'[k] \in Seq(1..rAccepted'[k])
                    /\ rOut'[k] \in Seq(1..rAccepted'[k])
                    /\ rStage'[k] # "none" => rAccepted'[k] > 0
  BY DEF Numbered
<1> DEFINE Goal == /\ rAccepted'[k] = Len(arrived'[k])
                   /\ rBacklog'[k] \in Seq(1..rAccepted'[k])
                   /\ rOut'[k] \in Seq(1..rAccepted'[k])
                   /\ rStage'[k] # "none" => rAccepted'[k] > 0
<1>0. /\ rAccepted[k] = Len(arrived[k]) /\ rAccepted[k] \in Nat
      /\ rBacklog[k] \in Seq(1..rAccepted[k]) /\ rOut[k] \in Seq(1..rAccepted[k])
      /\ rStage[k] # "none" => rAccepted[k] > 0
  BY DEF TypeInv, Numbered
<1>a. ASSUME arrived'[k] = arrived[k], rAccepted'[k] = rAccepted[k], rOut'[k] = rOut[k],
             rBacklog'[k] = rBacklog[k], rStage'[k] # "none" => rStage[k] # "none"
      PROVE  Goal
  BY <1>0, <1>a
<1>1. ASSUME NEW j \in Topics, SubCallback(j) PROVE Goal
  BY <1>a, <1>1, SubCallbackEffect DEF receiver
<1>2. ASSUME NEW j \in Topics, SenderGate(j) PROVE Goal
  BY <1>a, <1>2, SenderGateEffect DEF receiver
<1>3. ASSUME NEW j \in Topics, SendSerializedMessage(j) PROVE Goal
  BY <1>a, <1>3, SendEffect DEF receiver
<1>4. ASSUME NEW j \in Topics, RecvFunc(j) PROVE Goal
  <2>1. CASE j = k
    <3>1. /\ rAccepted'[k] = rAccepted[k] + 1
          /\ arrived'[k] = Append(arrived[k], Head(wire[k]))
          /\ UNCHANGED <<rBacklog, rOut>>
      BY <1>4, <2>1, RecvFuncEffect DEF TypeInv
    <3>2. arrived[k] \in Seq(Nat)
      BY DEF TypeInv
    <3>3. rAccepted'[k] = Len(arrived'[k]) /\ rAccepted'[k] > 0
      BY <1>0, <3>1, <3>2
    <3>4. 1..rAccepted[k] \subseteq 1..rAccepted'[k]
      BY <1>0, <3>1
    <3>5. rBacklog[k] \in Seq(1..rAccepted'[k]) /\ rOut[k] \in Seq(1..rAccepted'[k])
      BY <1>0, <3>4, SeqMonotonic
    <3> QED
      BY <3>1, <3>3, <3>5
  <2>2. CASE j # k
    <3>0. /\ \E st : rStage' = [rStage EXCEPT ![j] = st]
          /\ \E n : rAccepted' = [rAccepted EXCEPT ![j] = n]
          /\ \E s : arrived' = [arrived EXCEPT ![j] = s]
          /\ UNCHANGED <<rBacklog, rOut>>
      BY <1>4, RecvFuncEffect
    <3>1. /\ rStage'[k] = rStage[k] /\ rAccepted'[k] = rAccepted[k]
          /\ arrived'[k] = arrived[k] /\ UNCHANGED <<rBacklog, rOut>>
      BY <2>2, <3>0 DEF TypeInv
    <3> QED
      BY <1>a, <3>1
  <2> QED
    BY <2>1, <2>2
<1>5. ASSUME NEW j \in Topics, ReceiverGate(j) PROVE Goal
  <2>1. UNCHANGED <<rAccepted, rOut, arrived>>
    BY <1>5, ReceiverGateEffect
  <2>2. CASE j = k
    <3>1. rStage[k] # "none"
      BY <1>5, <2>2, ReceiverGateEffect
    <3>2. rBacklog'[k] \in HeldBack(rBacklog[k], RecvPolicy[k], rAccepted[k])
          \/ rBacklog'[k] = rBacklog[k]
      BY <1>5, <2>2, ReceiverGateEffect DEF TypeInv
    <3>3. rAccepted[k] \in 1..rAccepted[k]
      BY <1>0, <3>1
    <3>4. HeldBack(rBacklog[k], RecvPolicy[k], rAccepted[k]) \subseteq Seq(1..rAccepted[k])
      BY <1>0, <3>3, HeldBackType
    <3> QED
      BY <1>0, <2>1, <3>1, <3>2, <3>4
  <2>3. CASE j # k
    <3>0. /\ \E r : rBacklog' = rBacklog \/ rBacklog' = [rBacklog EXCEPT ![j] = r]
          /\ \E st : rStage' = [rStage EXCEPT ![j] = st]
      BY <1>5, ReceiverGateEffect
    <3>1. rBacklog'[k] = rBacklog[k] /\ rStage'[k] = rStage[k]
      BY <2>3, <3>0 DEF TypeInv
    <3> QED
      BY <1>a, <2>1, <3>1
  <2> QED
    BY <2>2, <2>3
<1>6. ASSUME NEW j \in Topics, PublishReceivedMessage(j) PROVE Goal
  <2>1. UNCHANGED <<rAccepted, arrived>>
    BY <1>6, PublishEffect
  <2>2. CASE j = k
    <3>a. PICK n \in Nat :
            /\ \/ /\ rStage[k] = "cleared" /\ n = rAccepted[k]
                  /\ rStage' = [rStage EXCEPT ![k] = "none"] /\ rBacklog' = rBacklog
               \/ /\ rBacklog[k] # <<>> /\ n = Head(rBacklog[k]) /\ rStage' = rStage
                  /\ rBacklog' = [rBacklog EXCEPT ![k] = Tail(rBacklog[k])]
            /\ rOut' = [rOut EXCEPT ![k] = Append(rOut[k], n)]
      BY <1>6, <2>2, PublishEffect
    <3>1. /\ \/ /\ rStage[k] = "cleared" /\ n = rAccepted[k]
                /\ rStage'[k] = "none" /\ rBacklog'[k] = rBacklog[k]
             \/ /\ rBacklog[k] # <<>> /\ n = Head(rBacklog[k]) /\ rStage'[k] = rStage[k]
                /\ rBacklog'[k] = Tail(rBacklog[k])
          /\ rOut'[k] = Append(rOut[k], n)
      BY <3>a DEF TypeInv
    <3>2. CASE rStage[k] = "cleared" /\ n = rAccepted[k]
               /\ rStage'[k] = "none" /\ rBacklog'[k] = rBacklog[k]
      <4>1. n \in 1..rAccepted[k]
        BY <1>0, <3>2
      <4>2. rOut'[k] \in Seq(1..rAccepted[k])
        BY <1>0, <3>1, <4>1
      <4> QED
        BY <1>0, <2>1, <3>2, <4>2
    <3>3. CASE rBacklog[k] # <<>> /\ n = Head(rBacklog[k]) /\ rStage'[k] = rStage[k]
               /\ rBacklog'[k] = Tail(rBacklog[k])
      <4>1. n \in 1..rAccepted[k] /\ rBacklog'[k] \in Seq(1..rAccepted[k])
        BY <1>0, <3>3, HeadTailProperties
      <4>2. rOut'[k] \in Seq(1..rAccepted[k])
        BY <1>0, <3>1, <4>1
      <4> QED
        BY <1>0, <2>1, <3>3, <4>1, <4>2
    <3> QED
      BY <3>1, <3>2, <3>3
  <2>3. CASE j # k
    <3>1. rBacklog'[k] = rBacklog[k] /\ rStage'[k] = rStage[k] /\ rOut'[k] = rOut[k]
      BY <1>6, <2>3, PublishEffect, ZenonT(30) DEF TypeInv
    <3> QED
      BY <1>a, <2>1, <3>1
  <2> QED
    BY <2>2, <2>3
<1>7. ASSUME NEW j \in Topics, Disconnect(j) PROVE Goal
  BY <1>a, <1>7, DisconnectEffect DEF receiver
<1>8. ASSUME Turns PROVE Goal
  BY <1>a, <1>8 DEF Turns
<1> HIDE DEF Goal
<1>9. Goal
  BY <1>1, <1>2, <1>3, <1>4, <1>5, <1>6, <1>7, <1>8, Steps
<1> QED
  BY <1>9 DEF Goal

\* The receiving node only has numbers of messages that arrived.
LEMMA NumberedHolds == Spec => []Numbered
BY InitNumbered, StepNumbered, TypesHold, PTL DEF Spec

-----------------------------------------------------------------------------
(* Where a backlog excludes a message that has passed the gate. *)

Gates ==
  /\ sPhase \notin {"stopped"} /\ rPhase \notin {"stopped"}
  /\ \A k \in Topics :
       /\ sPhase = "up" \/ sStage[k] = "cleared" => sBacklog[k] = <<>>
       /\ rPhase = "up" \/ (rPhase = "down" /\ rStage[k] = "cleared") => rBacklog[k] = <<>>

\* At first nothing is held back.
LEMMA InitGates == Init => Gates
BY DEF Init, Sender!Init, Receiver!Init, Sender!LinkTopics, Receiver!LinkTopics, Gates

\* Every step keeps it so.
LEMMA StepGates == TypeInv /\ Gates /\ [Next]_vars => Gates'
<1> SUFFICES ASSUME TypeInv, Gates, [Next]_vars PROVE Gates'
  OBVIOUS
<1>1. ASSUME NEW j \in Topics, SubCallback(j) PROVE Gates'
  BY <1>1, SubCallbackEffect DEF TypeInv, Gates, receiver
<1>2. ASSUME NEW j \in Topics, SenderGate(j) PROVE Gates'
  <2>1. UNCHANGED <<sPhase, receiver>>
    BY <1>2, SenderGateEffect
  <2>2. CASE sBacklog' = sBacklog
    BY <1>2, <2>1, <2>2, SenderGateEffect DEF TypeInv, Gates, receiver
  <2>3. CASE sPhase = "down" /\ sStage' = [sStage EXCEPT ![j] = "none"]
             /\ \E held : sBacklog' = [sBacklog EXCEPT ![j] = held]
    BY <2>1, <2>3 DEF TypeInv, Gates, receiver
  <2> QED
    BY <1>2, <2>2, <2>3, SenderGateEffect
<1>3. ASSUME NEW j \in Topics, SendSerializedMessage(j) PROVE Gates'
  <2>1. UNCHANGED <<sPhase, receiver>>
    BY <1>3, SendEffect
  <2>2. CASE sStage' = [sStage EXCEPT ![j] = "none"] /\ sBacklog' = sBacklog
    BY <2>1, <2>2 DEF TypeInv, Gates, receiver
  <2>3. CASE sBacklog[j] # <<>> /\ sStage' = sStage
             /\ sBacklog' = [sBacklog EXCEPT ![j] = Tail(sBacklog[j])]
    BY <2>1, <2>3 DEF TypeInv, Gates, receiver
  <2> QED
    BY <1>3, <2>2, <2>3, SendEffect
<1>4. ASSUME NEW j \in Topics, RecvFunc(j) PROVE Gates'
  BY <1>4, RecvFuncEffect, ZenonT(30) DEF TypeInv, Gates, sender
<1>5. ASSUME NEW j \in Topics, ReceiverGate(j) PROVE Gates'
  <2>1. UNCHANGED <<rPhase, sender>>
    BY <1>5, ReceiverGateEffect
  <2>2. CASE rBacklog' = rBacklog
    BY <1>5, <2>1, <2>2, ReceiverGateEffect DEF TypeInv, Gates, sender
  <2>3. CASE rPhase = "down" /\ rStage' = [rStage EXCEPT ![j] = "none"]
             /\ \E held : rBacklog' = [rBacklog EXCEPT ![j] = held]
    BY <2>1, <2>3 DEF TypeInv, Gates, sender
  <2> QED
    BY <1>5, <2>2, <2>3, ReceiverGateEffect
<1>6. ASSUME NEW j \in Topics, PublishReceivedMessage(j) PROVE Gates'
  <2>1. UNCHANGED <<rPhase, sender>>
    BY <1>6, PublishEffect
  <2>2. CASE rStage' = [rStage EXCEPT ![j] = "none"] /\ rBacklog' = rBacklog
    BY <2>1, <2>2 DEF TypeInv, Gates, sender
  <2>3. CASE rBacklog[j] # <<>> /\ rStage' = rStage
             /\ rBacklog' = [rBacklog EXCEPT ![j] = Tail(rBacklog[j])]
    BY <2>1, <2>3 DEF TypeInv, Gates, sender
  <2> QED
    BY <1>6, <2>2, <2>3, PublishEffect
<1>7. ASSUME NEW j \in Topics, Disconnect(j) PROVE Gates'
  BY <1>7, DisconnectEffect DEF Gates, sender, receiver
<1>8. ASSUME Turns PROVE Gates'
  <2>1. UNCHANGED <<sStage, sBacklog, rStage, rBacklog>>
    BY <1>8 DEF Turns
  <2>2. /\ sPhase' \notin {"stopped"}
        /\ \A k \in Topics : sPhase' = "up" \/ sStage[k] = "cleared" => sBacklog[k] = <<>>
    BY <1>8 DEF Turns, Gates
  <2>3. /\ rPhase' \notin {"stopped"}
        /\ \A k \in Topics : rPhase' = "up" \/ (rPhase' = "down" /\ rStage[k] = "cleared")
                               => rBacklog[k] = <<>>
    BY <1>8 DEF Turns, Gates
  <2> QED
    BY <2>1, <2>2, <2>3 DEF Gates
<1> QED
  BY <1>1, <1>2, <1>3, <1>4, <1>5, <1>6, <1>7, <1>8, Steps

\* A backlog never meets a link that is up, or a sender past its gate.
LEMMA GatesHold == Spec => []Gates
BY InitGates, StepGates, TypesHold, PTL DEF Spec

-----------------------------------------------------------------------------
(* What a step does with the messages of a topic: how the contents of its places
   change from C to D. *)

Others(C, D, P) == \A s \in Stores \ P : D[s] = C[s]
Accepts(C, D, m) ==
  C["sending"] = <<>> /\ D["sending"] = <<m>> /\ Others(C, D, {"sending"})
HoldsBack(C, D, p, r, policy) ==
  \E m \in Nat : /\ C[p] = <<m>> /\ D[p] = <<>>
                 /\ D[r] \in HeldBack(C[r], policy, m) /\ Others(C, D, {p, r})
Moves(C, D, p, r) ==
  /\ C[p] # <<>> /\ D[p] = Tail(C[p]) /\ D[r] = Append(C[r], Head(C[p]))
  /\ Others(C, D, {p, r})
Drops(C, D, p) == C[p] # <<>> /\ D[p] = Tail(C[p]) /\ Others(C, D, {p})
Cuts(C, D, p, n) == D[p] = SubSeq(C[p], 1, n) /\ Others(C, D, {p})

Course(k, C, D) ==
  LET Same == sAccepted'[k] = sAccepted[k] /\ lost'[k] = lost[k]
  IN  \/ Same /\ Others(C, D, {})
      \/ /\ Accepts(C, D, sAccepted[k] + 1)
         /\ sAccepted'[k] = sAccepted[k] + 1 /\ lost'[k] = lost[k]
      \/ Same /\ HoldsBack(C, D, "sending", "held by sender", SendPolicy[k])
      \/ \E p \in {"sending", "held by sender"} :
           /\ p = "sending" => C["held by sender"] = <<>>
           /\ \/ Same /\ Moves(C, D, p, "wire")
              \/ /\ Drops(C, D, p)
                 /\ sAccepted'[k] = sAccepted[k] /\ lost'[k] = lost[k] \cup {Head(C[p])}
      \/ Same /\ Moves(C, D, "wire", "receiving") /\ C["receiving"] = <<>>
      \/ Same /\ HoldsBack(C, D, "receiving", "held by receiver", RecvPolicy[k])
      \/ /\ Same /\ Moves(C, D, "receiving", "delivered")
         /\ rStage[k] = "cleared" /\ rStage'[k] = "none"
         /\ UNCHANGED <<rPhase, rFaults, rBacklog>>
      \/ Same /\ Moves(C, D, "held by receiver", "delivered")
      \/ /\ sAccepted'[k] = sAccepted[k]
         /\ \E n \in 0..Len(C["wire"]) :
              /\ Cuts(C, D, "wire", n)
              /\ lost'[k] = lost[k] \cup ToSet(SubSeq(C["wire"], n + 1, Len(C["wire"])))

\* Sent, as a function of what has arrived.
Through(A, numbers) == [i \in DOMAIN numbers |-> A[numbers[i]]]

\* What the translation does to the ends of a sequence.
LEMMA ThroughFacts ==
  ASSUME NEW A \in Seq(Nat), NEW s \in Seq(1..Len(A))
  PROVE  /\ Through(A, s) \in Seq(Nat) /\ Len(Through(A, s)) = Len(s)
         /\ Through(A, <<>>) = <<>> /\ \A n : Through(A, <<n>>) = <<A[n]>>
         /\ \A n \in 1..Len(A) : Through(A, Append(s, n)) = Append(Through(A, s), A[n])
         /\ s # <<>> => /\ Through(A, s) # <<>>
                        /\ Head(Through(A, s)) = A[Head(s)]
                        /\ Tail(Through(A, s)) = Through(A, Tail(s))
         /\ \A m \in Nat : Through(Append(A, m), s) = Through(A, s)
<1>0. /\ A \in Seq(Nat) /\ Len(s) \in Nat /\ DOMAIN s = 1..Len(s)
      /\ \A i \in 1..Len(s) : s[i] \in 1..Len(A) /\ A[s[i]] \in Nat
  OBVIOUS
<1>g. ASSUME NEW t \in Seq(1..Len(A))
      PROVE  /\ Through(A, t) \in Seq(Nat) /\ Len(Through(A, t)) = Len(t)
             /\ \A i \in 1..Len(t) : Through(A, t)[i] = A[t[i]]
  <2>1. /\ Len(t) \in Nat /\ DOMAIN t = 1..Len(t)
        /\ \A i \in 1..Len(t) : t[i] \in 1..Len(A) /\ A[t[i]] \in Nat
    BY SMTT(30)
  <2> QED
    BY <2>1 DEF Through
<1>1. Through(A, s) \in Seq(Nat) /\ Len(Through(A, s)) = Len(s)
      /\ \A i \in 1..Len(s) : Through(A, s)[i] = A[s[i]]
  BY <1>g
<1>2. Through(A, <<>>) = <<>>
  BY DEF Through
<1>3. ASSUME NEW n PROVE Through(A, <<n>>) = <<A[n]>>
  BY DEF Through
<1>4. ASSUME NEW n \in 1..Len(A) PROVE Through(A, Append(s, n)) = Append(Through(A, s), A[n])
  <2>1. /\ Append(s, n) \in Seq(1..Len(A)) /\ Len(Append(s, n)) = Len(s) + 1
        /\ Append(s, n)[Len(s) + 1] = n /\ \A i \in 1..Len(s) : Append(s, n)[i] = s[i]
        /\ A[n] \in Nat
    OBVIOUS
  <2>2. /\ Append(Through(A, s), A[n]) \in Seq(Nat)
        /\ Len(Append(Through(A, s), A[n])) = Len(s) + 1
        /\ Append(Through(A, s), A[n])[Len(s) + 1] = A[n]
        /\ \A i \in 1..Len(s) : Append(Through(A, s), A[n])[i] = Through(A, s)[i]
    BY <1>1, <2>1
  <2>3. /\ Through(A, Append(s, n)) \in Seq(Nat)
        /\ Len(Through(A, Append(s, n))) = Len(s) + 1
        /\ \A i \in 1..(Len(s) + 1) : Through(A, Append(s, n))[i] = A[Append(s, n)[i]]
    BY <1>g, <2>1
  <2>4. ASSUME NEW i \in 1..(Len(s) + 1)
        PROVE  Through(A, Append(s, n))[i] = Append(Through(A, s), A[n])[i]
    <3>1. CASE i = Len(s) + 1
      BY <2>1, <2>2, <2>3, <3>1
    <3>2. CASE i \in 1..Len(s)
      BY <1>1, <2>1, <2>2, <2>3, <3>2
    <3>3. i = Len(s) + 1 \/ i \in 1..Len(s)
      BY <1>0
    <3> QED
      BY <3>1, <3>2, <3>3
  <2> QED
    BY <2>2, <2>3, <2>4, SeqEqual
<1>5. ASSUME s # <<>>
      PROVE  /\ Through(A, s) # <<>> /\ Head(Through(A, s)) = A[Head(s)]
             /\ Tail(Through(A, s)) = Through(A, Tail(s))
  <2>1. /\ Head(s) = s[1] /\ Len(s) >= 1 /\ Tail(s) \in Seq(1..Len(A))
        /\ Len(Tail(s)) = Len(s) - 1 /\ \A i \in 1..(Len(s) - 1) : Tail(s)[i] = s[i + 1]
    BY <1>5
  <2>2. Through(A, s) # <<>>
    BY <1>1, <2>1
  <2>3. /\ Head(Through(A, s)) = Through(A, s)[1] /\ Tail(Through(A, s)) \in Seq(Nat)
        /\ Len(Tail(Through(A, s))) = Len(s) - 1
        /\ \A i \in 1..(Len(s) - 1) : Tail(Through(A, s))[i] = Through(A, s)[i + 1]
    BY <1>1, <2>2, HeadTailProperties
  <2>4. /\ Through(A, Tail(s)) \in Seq(Nat) /\ Len(Through(A, Tail(s))) = Len(s) - 1
        /\ \A i \in 1..(Len(s) - 1) : Through(A, Tail(s))[i] = A[Tail(s)[i]]
    BY <1>g, <2>1
  <2>5. \A i \in 1..(Len(s) - 1) : Tail(Through(A, s))[i] = Through(A, Tail(s))[i]
    BY <1>0, <1>1, <2>1, <2>3, <2>4
  <2>6. Tail(Through(A, s)) = Through(A, Tail(s))
    BY <2>3, <2>4, <2>5, SeqEqual
  <2> QED
    BY <1>0, <1>1, <2>1, <2>2, <2>3, <2>6
<1>6. ASSUME NEW m \in Nat PROVE Through(Append(A, m), s) = Through(A, s)
  <2>1. \A n \in 1..Len(A) : Append(A, m)[n] = A[n]
    OBVIOUS
  <2> QED
    BY <1>0, <2>1 DEF Through
<1> QED
  BY <1>1, <1>2, <1>3, <1>4, <1>5, <1>6

-----------------------------------------------------------------------------
(* The contents of the places, spelled out. *)

ContentsOf(k, C) ==
  /\ C \in [Stores -> Seq(Nat)]
  /\ C["sending"] = UnderWay(sStage[k], sAccepted[k])
  /\ C["held by sender"] = sBacklog[k]
  /\ C["wire"] = wire[k]
  /\ C["receiving"] = IF rStage[k] = "none" THEN <<>> ELSE <<arrived[k][rAccepted[k]]>>
  /\ C["held by receiver"] = Through(arrived[k], rBacklog[k])
  /\ C["delivered"] = Through(arrived[k], rOut[k])

\* The stores of a topic and the variables behind them.
LEMMA ContentsAre ==
  ASSUME TypeInv, Numbered, NEW k \in Topics
  PROVE  ContentsOf(k, Contents(k))
<1> DEFINE C == Contents(k)
<1>0. DOMAIN C = Stores /\ C = [s \in Stores |-> C[s]]
  BY DEF Contents
<1>1. /\ DOMAIN C = Stores
      /\ C["sending"] = UnderWay(sStage[k], sAccepted[k])
      /\ C["held by sender"] = sBacklog[k] /\ C["wire"] = wire[k]
      /\ C["receiving"] = Through(arrived[k], UnderWay(rStage[k], rAccepted[k]))
      /\ C["held by receiver"] = Through(arrived[k], rBacklog[k])
      /\ C["delivered"] = Through(arrived[k], rOut[k])
  BY DEF Contents, Content, Stores, Delivered, Sent, Through
<1> HIDE DEF C
<1>2. /\ sAccepted[k] \in Nat /\ sBacklog[k] \in Seq(Nat) /\ wire[k] \in Seq(Nat)
      /\ arrived[k] \in Seq(Nat) /\ rAccepted[k] = Len(arrived[k])
      /\ rBacklog[k] \in Seq(1..Len(arrived[k])) /\ rOut[k] \in Seq(1..Len(arrived[k]))
      /\ rStage[k] # "none" => rAccepted[k] > 0
  BY DEF TypeInv, Numbered
<1>4. C["receiving"] = IF rStage[k] = "none" THEN <<>> ELSE <<arrived[k][rAccepted[k]]>>
  <2>1. Through(arrived[k], <<>>) = <<>>
        /\ \A n : Through(arrived[k], <<n>>) = <<arrived[k][n]>>
    BY <1>2, ThroughFacts
  <2> QED
    BY <1>1, <2>1 DEF UnderWay
<1>5. C["held by receiver"] \in Seq(Nat) /\ C["delivered"] \in Seq(Nat)
  <2>1. Through(arrived[k], rBacklog[k]) \in Seq(Nat)
    BY <1>2, ThroughFacts
  <2>2. Through(arrived[k], rOut[k]) \in Seq(Nat)
    BY <1>2, ThroughFacts
  <2> QED
    BY <1>1, <2>1, <2>2
<1>6. C["sending"] \in Seq(Nat) /\ C["receiving"] \in Seq(Nat)
  <2>1. rStage[k] # "none" => arrived[k][rAccepted[k]] \in Nat
    BY <1>2
  <2>2. <<>> \in Seq(Nat) /\ \A n \in Nat : <<n>> \in Seq(Nat)
    OBVIOUS
  <2> QED
    BY <1>1, <1>2, <1>4, <2>1, <2>2 DEF UnderWay
<1>7. \A s \in Stores : C[s] \in Seq(Nat)
  BY <1>1, <1>2, <1>5, <1>6 DEF Stores
<1>8. C \in [Stores -> Seq(Nat)]
  BY <1>0, <1>7
<1>9. ContentsOf(k, C)
  BY <1>1, <1>4, <1>8 DEF ContentsOf
<1> QED
  BY <1>9 DEF C

\* The same for the next state.
LEMMA ContentsNext ==
  ASSUME NEW k \in Topics
  PROVE  TypeInv' /\ Numbered' => ContentsOf(k, Contents(k))'
<1>1. TypeInv /\ Numbered => ContentsOf(k, Contents(k))
  BY ContentsAre
<1> QED
  BY <1>1, PTL

\* All stores are empty at first.
LEMMA InitContents ==
  ASSUME TypeInv, Numbered, Init, NEW k \in Topics
  PROVE  \A s \in Stores : Contents(k)[s] = <<>>
<1>1. /\ sStage[k] = "none" /\ sBacklog[k] = <<>> /\ wire[k] = <<>>
      /\ rStage[k] = "none" /\ rBacklog[k] = <<>> /\ rOut[k] = <<>>
  BY DEF Init, Sender!Init, Receiver!Init, Sender!LinkTopics, Receiver!LinkTopics
<1>2. Through(arrived[k], <<>>) = <<>>
  BY DEF Through
<1> QED
  BY <1>1, <1>2, ContentsAre DEF ContentsOf, UnderWay, Stores

\* A topic without a step of its own.
Idle(k) ==
  /\ sAccepted'[k] = sAccepted[k] /\ sStage'[k] = sStage[k] /\ sBacklog'[k] = sBacklog[k]
  /\ rAccepted'[k] = rAccepted[k] /\ rStage'[k] = rStage[k] /\ rBacklog'[k] = rBacklog[k]
  /\ rOut'[k] = rOut[k] /\ arrived'[k] = arrived[k]
  /\ wire'[k] = wire[k] /\ lost'[k] = lost[k]

\* A step for one topic leaves the others alone.
LEMMA IdleElsewhere ==
  ASSUME TypeInv, NEW j \in Topics, NEW k \in Topics, j # k,
         \/ SubCallback(j) \/ SenderGate(j) \/ SendSerializedMessage(j)
         \/ RecvFunc(j) \/ ReceiverGate(j) \/ PublishReceivedMessage(j)
         \/ Disconnect(j)
  PROVE  Idle(k)
<1>1. CASE SubCallback(j)
  <2>1. /\ \E st : sStage' = [sStage EXCEPT ![j] = st]
        /\ \E n : sAccepted' = [sAccepted EXCEPT ![j] = n]
        /\ UNCHANGED <<sBacklog, rAccepted, rStage, rBacklog, rOut, arrived, wire, lost>>
    BY <1>1, SubCallbackEffect DEF receiver, network
  <2> QED
    BY <2>1 DEF Idle, TypeInv
<1>2. CASE SenderGate(j)
  <2>1. /\ \E st : sStage' = [sStage EXCEPT ![j] = st]
        /\ \E r : sBacklog' = sBacklog \/ sBacklog' = [sBacklog EXCEPT ![j] = r]
        /\ UNCHANGED <<sAccepted, rAccepted, rStage, rBacklog, rOut, arrived, wire, lost>>
    BY <1>2, SenderGateEffect DEF receiver, network
  <2> QED
    BY <2>1 DEF Idle, TypeInv
<1>3. CASE SendSerializedMessage(j)
  <2>1. /\ sStage' = [sStage EXCEPT ![j] = "none"] \/ sStage' = sStage
        /\ \E r : sBacklog' = sBacklog \/ sBacklog' = [sBacklog EXCEPT ![j] = r]
        /\ \E r : wire' = wire \/ wire' = [wire EXCEPT ![j] = r]
        /\ \E r : lost' = lost \/ lost' = [lost EXCEPT ![j] = r]
        /\ UNCHANGED <<sAccepted, rAccepted, rStage, rBacklog, rOut, arrived>>
    BY <1>3, SendEffect DEF receiver
  <2> QED
    BY <2>1 DEF Idle, TypeInv
<1>4. CASE RecvFunc(j)
  <2>1. /\ \E st : rStage' = [rStage EXCEPT ![j] = st]
        /\ \E n : rAccepted' = [rAccepted EXCEPT ![j] = n]
        /\ \E s : arrived' = [arrived EXCEPT ![j] = s]
        /\ \E s : wire' = [wire EXCEPT ![j] = s]
        /\ UNCHANGED <<sAccepted, sStage, sBacklog, rBacklog, rOut, lost>>
    BY <1>4, RecvFuncEffect DEF sender
  <2> QED
    BY <2>1 DEF Idle, TypeInv
<1>5. CASE ReceiverGate(j)
  <2>1. /\ \E st : rStage' = [rStage EXCEPT ![j] = st]
        /\ \E r : rBacklog' = rBacklog \/ rBacklog' = [rBacklog EXCEPT ![j] = r]
        /\ UNCHANGED <<sAccepted, sStage, sBacklog, rAccepted, rOut, arrived, wire, lost>>
    BY <1>5, ReceiverGateEffect DEF sender, network
  <2> QED
    BY <2>1 DEF Idle, TypeInv
<1>6. CASE PublishReceivedMessage(j)
  <2>1. /\ rStage' = [rStage EXCEPT ![j] = "none"] \/ rStage' = rStage
        /\ \E r : rBacklog' = rBacklog \/ rBacklog' = [rBacklog EXCEPT ![j] = r]
        /\ \E r : rOut' = [rOut EXCEPT ![j] = r]
        /\ UNCHANGED <<sAccepted, sStage, sBacklog, rAccepted, arrived, wire, lost>>
    BY <1>6, PublishEffect DEF sender, network
  <2> QED
    BY <2>1 DEF Idle, TypeInv
<1>7. CASE Disconnect(j)
  <2>1. /\ \E r : wire' = [wire EXCEPT ![j] = r]
        /\ \E r : lost' = [lost EXCEPT ![j] = r]
        /\ UNCHANGED <<sAccepted, sStage, sBacklog, rAccepted, rStage, rBacklog, rOut, arrived>>
    BY <1>7, DisconnectEffect DEF sender, receiver
  <2> QED
    BY <2>1 DEF Idle, TypeInv
<1> QED
  BY <1>1, <1>2, <1>3, <1>4, <1>5, <1>6, <1>7

-----------------------------------------------------------------------------
(* Every step takes the messages of a topic one of these ways. *)

\* What the receiving node holds back, in the numbers of the sender.
LEMMA HeldThrough ==
  ASSUME NEW A \in Seq(Nat), NEW s \in Seq(1..Len(A)), NEW n \in 1..Len(A), NEW policy,
         NEW r \in HeldBack(s, policy, n)
  PROVE  Through(A, r) \in HeldBack(Through(A, s), policy, A[n])
<1>1. /\ Through(A, <<n>>) = <<A[n]>>
      /\ Through(A, Append(s, n)) = Append(Through(A, s), A[n])
  BY ThroughFacts
<1> QED
  BY <1>1 DEF HeldBack

\* Every step takes the messages of every topic along one of the courses.
LEMMA StepContents ==
  ASSUME TypeInv, Numbered, Gates, TypeInv', Numbered', [Next]_vars, NEW k \in Topics
  PROVE  Course(k, Contents(k), Contents(k)')
<1> DEFINE C == Contents(k)
           D == Contents(k)'
<1>1. /\ C \in [Stores -> Seq(Nat)]
      /\ C["sending"] = UnderWay(sStage[k], sAccepted[k])
      /\ C["held by sender"] = sBacklog[k]
      /\ C["wire"] = wire[k]
      /\ C["receiving"] = IF rStage[k] = "none" THEN <<>> ELSE <<arrived[k][rAccepted[k]]>>
      /\ C["held by receiver"] = Through(arrived[k], rBacklog[k])
      /\ C["delivered"] = Through(arrived[k], rOut[k])
  BY ContentsAre DEF ContentsOf
<1>2. /\ D \in [Stores -> Seq(Nat)]
      /\ D["sending"] = UnderWay(sStage'[k], sAccepted'[k])
      /\ D["held by sender"] = sBacklog'[k]
      /\ D["wire"] = wire'[k]
      /\ D["receiving"] = IF rStage'[k] = "none"
                          THEN <<>> ELSE <<arrived'[k][rAccepted'[k]]>>
      /\ D["held by receiver"] = Through(arrived'[k], rBacklog'[k])
      /\ D["delivered"] = Through(arrived'[k], rOut'[k])
  BY ContentsNext DEF ContentsOf
<1> SUFFICES Course(k, C, D)
  OBVIOUS
<1> HIDE DEF C, D
<1>3. /\ sAccepted[k] \in Nat /\ sBacklog[k] \in Seq(Nat) /\ wire[k] \in Seq(Nat)
      /\ arrived[k] \in Seq(Nat) /\ rAccepted[k] = Len(arrived[k])
      /\ rBacklog[k] \in Seq(1..Len(arrived[k])) /\ rOut[k] \in Seq(1..Len(arrived[k]))
      /\ rStage[k] # "none" => rAccepted[k] \in 1..Len(arrived[k])
      /\ rAccepted[k] \in Nat
  BY SMTT(30) DEF TypeInv, Numbered
<1>4. \A P : Others(C, D, P) <=> \A s \in Stores \ P : D[s] = C[s]
  BY DEF Others
<1>a. ASSUME sAccepted'[k] = sAccepted[k], lost'[k] = lost[k], Others(C, D, {})
      PROVE  Course(k, C, D)
  BY <1>a DEF Course
<1>b. ASSUME Accepts(C, D, sAccepted[k] + 1),
             sAccepted'[k] = sAccepted[k] + 1, lost'[k] = lost[k]
      PROVE  Course(k, C, D)
  BY <1>b DEF Course
<1>c. ASSUME sAccepted'[k] = sAccepted[k], lost'[k] = lost[k],
             \/ HoldsBack(C, D, "sending", "held by sender", SendPolicy[k])
             \/ HoldsBack(C, D, "receiving", "held by receiver", RecvPolicy[k])
      PROVE  Course(k, C, D)
  BY <1>c DEF Course
<1>d. ASSUME sAccepted'[k] = sAccepted[k], lost'[k] = lost[k],
             NEW p \in {"sending", "held by sender"}, Moves(C, D, p, "wire"),
             p = "sending" => C["held by sender"] = <<>>
      PROVE  Course(k, C, D)
  BY <1>d DEF Course
<1>e. ASSUME NEW p \in {"sending", "held by sender"},
             sAccepted'[k] = sAccepted[k], lost'[k] = lost[k] \cup {Head(C[p])},
             Drops(C, D, p),
             p = "sending" => C["held by sender"] = <<>>
      PROVE  Course(k, C, D)
  BY <1>e DEF Course
<1>f. ASSUME sAccepted'[k] = sAccepted[k], lost'[k] = lost[k],
             Moves(C, D, "wire", "receiving"), C["receiving"] = <<>>
      PROVE  Course(k, C, D)
  BY <1>f DEF Course
<1>g. ASSUME sAccepted'[k] = sAccepted[k], lost'[k] = lost[k],
             Moves(C, D, "receiving", "delivered"),
             rStage[k] = "cleared", rStage'[k] = "none",
             UNCHANGED <<rPhase, rFaults, rBacklog>>
      PROVE  Course(k, C, D)
  BY <1>g DEF Course
<1>h. ASSUME sAccepted'[k] = sAccepted[k], lost'[k] = lost[k],
             Moves(C, D, "held by receiver", "delivered")
      PROVE  Course(k, C, D)
  BY <1>h DEF Course
<1>i. ASSUME sAccepted'[k] = sAccepted[k], NEW n \in 0..Len(C["wire"]), Cuts(C, D, "wire", n),
             lost'[k] = lost[k] \cup ToSet(SubSeq(C["wire"], n + 1, Len(C["wire"])))
      PROVE  Course(k, C, D)
  BY <1>i DEF Course
<1>5. ASSUME Idle(k) PROVE Course(k, C, D)
  <2>1. \A s \in Stores : D[s] = C[s]
    BY <1>1, <1>2, <1>5 DEF Idle, Stores
  <2>2. Others(C, D, {})
    BY <2>1 DEF Others
  <2> QED
    BY <1>5, <1>a, <2>2 DEF Idle
<1>6. CASE SubCallback(k)
  <2>1. /\ sStage[k] = "none" /\ sStage' = [sStage EXCEPT ![k] = "arrived"]
        /\ sAccepted' = [sAccepted EXCEPT ![k] = sAccepted[k] + 1]
        /\ UNCHANGED <<sBacklog, rAccepted, rStage, rBacklog, rOut, arrived, wire, lost>>
    BY <1>6, SubCallbackEffect DEF receiver, network
  <2>2. sStage'[k] = "arrived" /\ sAccepted'[k] = sAccepted[k] + 1
    BY <2>1 DEF TypeInv
  <2>3. \A s \in Stores \ {"sending"} : D[s] = C[s]
    BY <1>1, <1>2, <2>1 DEF Stores
  <2>4. C["sending"] = <<>> /\ D["sending"] = <<sAccepted[k] + 1>>
    BY <1>1, <1>2, <2>1, <2>2 DEF UnderWay
  <2>5. Accepts(C, D, sAccepted[k] + 1)
    BY <2>3, <2>4 DEF Accepts, Others
  <2> QED
    BY <1>b, <2>1, <2>2, <2>5
<1>7. CASE SenderGate(k)
  <2>1. UNCHANGED <<sAccepted, rAccepted, rStage, rBacklog, rOut, arrived, wire, lost>>
    BY <1>7, SenderGateEffect DEF receiver, network
  <2>2. \A s \in Stores \ {"sending", "held by sender"} : D[s] = C[s]
    BY <1>1, <1>2, <2>1 DEF Stores
  <2>3. CASE /\ sStage[k] # "none" /\ sBacklog' = sBacklog
             /\ \E st : st # "none" /\ sStage' = [sStage EXCEPT ![k] = st]
    <3>1. sStage'[k] # "none" /\ sBacklog'[k] = sBacklog[k] /\ sAccepted'[k] = sAccepted[k]
      BY <2>1, <2>3 DEF TypeInv
    <3>2. D["sending"] = C["sending"] /\ D["held by sender"] = C["held by sender"]
      BY <1>1, <1>2, <2>3, <3>1 DEF UnderWay
    <3>3. Others(C, D, {})
      BY <2>2, <3>2 DEF Others, Stores
    <3>a. sAccepted'[k] = sAccepted[k] /\ lost'[k] = lost[k]
      BY <2>1
    <3> QED
      BY <1>a, <3>a, <3>3
  <2>4. CASE /\ sStage[k] = "entered" /\ sStage' = [sStage EXCEPT ![k] = "none"]
             /\ \E held \in HeldBack(sBacklog[k], SendPolicy[k], sAccepted[k]) :
                  sBacklog' = [sBacklog EXCEPT ![k] = held]
    <3>1. /\ sStage'[k] = "none" /\ sAccepted'[k] = sAccepted[k]
          /\ sBacklog'[k] \in HeldBack(sBacklog[k], SendPolicy[k], sAccepted[k])
      BY <2>1, <2>4 DEF TypeInv
    <3>2. C["sending"] = <<sAccepted[k]>> /\ D["sending"] = <<>>
      BY <1>1, <1>2, <2>4, <3>1 DEF UnderWay
    <3>3. D["held by sender"] \in HeldBack(C["held by sender"], SendPolicy[k], sAccepted[k])
      BY <1>1, <1>2, <3>1
    <3>4. HoldsBack(C, D, "sending", "held by sender", SendPolicy[k])
      BY <1>3, <2>2, <3>2, <3>3 DEF HoldsBack, Others
    <3>a. sAccepted'[k] = sAccepted[k] /\ lost'[k] = lost[k]
      BY <2>1
    <3> QED
      BY <1>c, <3>a, <3>4
  <2>5. \/ /\ sStage[k] # "none" /\ sBacklog' = sBacklog
           /\ \E st : st # "none" /\ sStage' = [sStage EXCEPT ![k] = st]
        \/ /\ sStage[k] = "entered" /\ sStage' = [sStage EXCEPT ![k] = "none"]
           /\ \E held \in HeldBack(sBacklog[k], SendPolicy[k], sAccepted[k]) :
                sBacklog' = [sBacklog EXCEPT ![k] = held]
    BY <1>7, SenderGateEffect
  <2> QED
    BY <2>3, <2>4, <2>5
<1>8. CASE SendSerializedMessage(k)
  <2>1. UNCHANGED <<sAccepted, rAccepted, rStage, rBacklog, rOut, arrived>>
    BY <1>8, SendEffect DEF receiver
  <2>2. \A s \in {"receiving", "held by receiver", "delivered"} : D[s] = C[s]
    BY <1>1, <1>2, <2>1
  <2>3. PICK m \in Nat :
          /\ \/ /\ sStage[k] = "cleared" /\ m = sAccepted[k]
                /\ sStage' = [sStage EXCEPT ![k] = "none"] /\ sBacklog' = sBacklog
             \/ /\ sBacklog[k] # <<>> /\ m = Head(sBacklog[k]) /\ sStage' = sStage
                /\ sBacklog' = [sBacklog EXCEPT ![k] = Tail(sBacklog[k])]
          /\ \/ wire' = [wire EXCEPT ![k] = Append(wire[k], m)] /\ lost' = lost
             \/ wire' = wire /\ lost' = [lost EXCEPT ![k] = lost[k] \cup {m}]
    BY <1>8, SendEffect
  <2>4. \/ wire'[k] = Append(wire[k], m) /\ lost'[k] = lost[k]
        \/ wire'[k] = wire[k] /\ lost'[k] = lost[k] \cup {m}
    BY <2>3 DEF TypeInv
  <2>5. ASSUME NEW p \in {"sending", "held by sender"},
               p = "sending" => C["held by sender"] = <<>>,
               C[p] # <<>>, Head(C[p]) = m, D[p] = Tail(C[p]),
               \A s \in {"sending", "held by sender"} \ {p} : D[s] = C[s]
        PROVE  Course(k, C, D)
    <3>0. sAccepted'[k] = sAccepted[k] /\ p \in Stores /\ p # "wire"
      BY <2>1 DEF Stores
    <3>1. \A s \in Stores \ {p, "wire"} : D[s] = C[s]
      BY <2>2, <2>5 DEF Stores
    <3>2. CASE wire'[k] = Append(wire[k], m) /\ lost'[k] = lost[k]
      <4>1. Moves(C, D, p, "wire")
        BY <1>1, <1>2, <2>5, <3>1, <3>2 DEF Moves, Others
      <4> QED
        BY <1>d, <2>5, <3>0, <3>2, <4>1
    <3>3. CASE wire'[k] = wire[k] /\ lost'[k] = lost[k] \cup {m}
      <4>1. Drops(C, D, p)
        BY <1>1, <1>2, <2>5, <3>1, <3>3 DEF Drops, Others
      <4> QED
        BY <1>e, <2>5, <3>0, <3>3, <4>1
    <3> QED
      BY <2>4, <3>2, <3>3
  <2>6. CASE /\ sStage[k] = "cleared" /\ m = sAccepted[k]
             /\ sStage' = [sStage EXCEPT ![k] = "none"] /\ sBacklog' = sBacklog
    <3>1. sStage'[k] = "none" /\ sBacklog[k] = <<>>
      BY <2>6 DEF TypeInv, Gates
    <3>2. C["sending"] = <<m>> /\ D["sending"] = <<>> /\ C["held by sender"] = <<>>
          /\ D["held by sender"] = C["held by sender"]
      BY <1>1, <1>2, <2>6, <3>1 DEF UnderWay
    <3>3. <<m>> # <<>> /\ Head(<<m>>) = m /\ Tail(<<m>>) = <<>>
      OBVIOUS
    <3>4. /\ C["sending"] # <<>> /\ Head(C["sending"]) = m /\ D["sending"] = Tail(C["sending"])
          /\ \A s \in {"sending", "held by sender"} \ {"sending"} : D[s] = C[s]
      BY <3>2, <3>3
    <3>5. C["held by sender"] = <<>> /\ "sending" \in {"sending", "held by sender"}
      BY <3>2
    <3> QED
      BY ONLY <2>5, <3>4, <3>5
  <2>7. CASE /\ sBacklog[k] # <<>> /\ m = Head(sBacklog[k]) /\ sStage' = sStage
             /\ sBacklog' = [sBacklog EXCEPT ![k] = Tail(sBacklog[k])]
    <3>1. sBacklog'[k] = Tail(sBacklog[k]) /\ sStage'[k] = sStage[k]
      BY <2>7 DEF TypeInv
    <3>2. /\ C["held by sender"] # <<>> /\ Head(C["held by sender"]) = m
          /\ D["held by sender"] = Tail(C["held by sender"])
          /\ D["sending"] = C["sending"]
      BY <1>1, <1>2, <2>1, <2>7, <3>1
    <3>3. /\ \A s \in {"sending", "held by sender"} \ {"held by sender"} : D[s] = C[s]
          /\ "held by sender" \in {"sending", "held by sender"} /\ "held by sender" # "sending"
      BY <3>2
    <3> QED
      BY ONLY <2>5, <3>2, <3>3
  <2> QED
    BY <2>3, <2>6, <2>7
<1>9. CASE RecvFunc(k)
  <2>1. /\ wire[k] # <<>> /\ rStage[k] = "none"
        /\ rStage' = [rStage EXCEPT ![k] = "arrived"]
        /\ rAccepted' = [rAccepted EXCEPT ![k] = rAccepted[k] + 1]
        /\ arrived' = [arrived EXCEPT ![k] = Append(arrived[k], Head(wire[k]))]
        /\ wire' = [wire EXCEPT ![k] = Tail(wire[k])]
        /\ UNCHANGED <<sAccepted, sStage, sBacklog, rBacklog, rOut, lost>>
    BY <1>9, RecvFuncEffect DEF sender
  <2>2. /\ rStage'[k] = "arrived" /\ rAccepted'[k] = rAccepted[k] + 1
        /\ arrived'[k] = Append(arrived[k], Head(wire[k])) /\ wire'[k] = Tail(wire[k])
        /\ Head(wire[k]) \in Nat
    BY <2>1 DEF TypeInv
  <2>3. arrived'[k][rAccepted[k] + 1] = Head(wire[k])
    BY <1>3, <2>2
  <2>4. Through(arrived'[k], rBacklog[k]) = Through(arrived[k], rBacklog[k])
    BY <1>3, <2>2, ThroughFacts
  <2>5. Through(arrived'[k], rOut[k]) = Through(arrived[k], rOut[k])
    BY <1>3, <2>2, ThroughFacts
  <2>6. C["receiving"] = <<>> /\ D["receiving"] = <<Head(wire[k])>>
    BY <1>1, <1>2, <2>1, <2>2, <2>3
  <2>7. \A s \in Stores \ {"wire", "receiving"} : D[s] = C[s]
    BY <1>1, <1>2, <2>1, <2>4, <2>5 DEF Stores
  <2>8. Append(<<>>, Head(wire[k])) = <<Head(wire[k])>>
    OBVIOUS
  <2>9. Moves(C, D, "wire", "receiving")
    BY <1>1, <1>2, <2>1, <2>2, <2>6, <2>7, <2>8 DEF Moves, Others
  <2> QED
    BY <1>f, <2>1, <2>6, <2>9
<1>10. CASE ReceiverGate(k)
  <2>1. UNCHANGED <<sAccepted, sStage, sBacklog, rAccepted, rOut, arrived, wire, lost>>
    BY <1>10, ReceiverGateEffect DEF sender, network
  <2>2. \A s \in Stores \ {"receiving", "held by receiver"} : D[s] = C[s]
    BY <1>1, <1>2, <2>1 DEF Stores
  <2>3. CASE /\ rStage[k] # "none" /\ rBacklog' = rBacklog
             /\ \E st : st # "none" /\ rStage' = [rStage EXCEPT ![k] = st]
    <3>1. rStage'[k] # "none"
      BY <2>3 DEF TypeInv
    <3>2. D["receiving"] = C["receiving"] /\ D["held by receiver"] = C["held by receiver"]
      BY <1>1, <1>2, <2>1, <2>3, <3>1
    <3>3. Others(C, D, {})
      BY <2>2, <3>2 DEF Others, Stores
    <3>a. sAccepted'[k] = sAccepted[k] /\ lost'[k] = lost[k]
      BY <2>1
    <3> QED
      BY <1>a, <3>a, <3>3
  <2>4. CASE /\ rStage[k] = "entered" /\ rStage' = [rStage EXCEPT ![k] = "none"]
             /\ \E held \in HeldBack(rBacklog[k], RecvPolicy[k], rAccepted[k]) :
                  rBacklog' = [rBacklog EXCEPT ![k] = held]
    <3>1. /\ rStage'[k] = "none"
          /\ rBacklog'[k] \in HeldBack(rBacklog[k], RecvPolicy[k], rAccepted[k])
      BY <2>4 DEF TypeInv
    <3>2. C["receiving"] = <<arrived[k][rAccepted[k]]>> /\ D["receiving"] = <<>>
      BY <1>1, <1>2, <2>4, <3>1
    <3>3. rAccepted[k] \in 1..Len(arrived[k]) /\ arrived[k][rAccepted[k]] \in Nat
      BY <1>3, <2>4
    <3>4. Through(arrived[k], rBacklog'[k])
            \in HeldBack(Through(arrived[k], rBacklog[k]), RecvPolicy[k],
                         arrived[k][rAccepted[k]])
      BY <1>3, <3>1, <3>3, HeldThrough
    <3>5. D["held by receiver"]
            \in HeldBack(C["held by receiver"], RecvPolicy[k], arrived[k][rAccepted[k]])
      BY <1>1, <1>2, <2>1, <3>4
    <3>6. HoldsBack(C, D, "receiving", "held by receiver", RecvPolicy[k])
      BY <2>2, <3>2, <3>3, <3>5 DEF HoldsBack, Others
    <3>a. sAccepted'[k] = sAccepted[k] /\ lost'[k] = lost[k]
      BY <2>1
    <3> QED
      BY <1>c, <3>a, <3>6
  <2>5. \/ /\ rStage[k] # "none" /\ rBacklog' = rBacklog
           /\ \E st : st # "none" /\ rStage' = [rStage EXCEPT ![k] = st]
        \/ /\ rStage[k] = "entered" /\ rStage' = [rStage EXCEPT ![k] = "none"]
           /\ \E held \in HeldBack(rBacklog[k], RecvPolicy[k], rAccepted[k]) :
                rBacklog' = [rBacklog EXCEPT ![k] = held]
    BY <1>10, ReceiverGateEffect
  <2> QED
    BY <2>3, <2>4, <2>5
<1>11. CASE PublishReceivedMessage(k)
  <2>1. UNCHANGED <<sAccepted, sStage, sBacklog, rAccepted, arrived, wire, lost,
                    rPhase, rFaults>>
    BY <1>11, PublishEffect DEF sender, network
  <2>2. PICK n \in Nat :
          /\ \/ /\ rStage[k] = "cleared" /\ n = rAccepted[k]
                /\ rStage' = [rStage EXCEPT ![k] = "none"] /\ rBacklog' = rBacklog
             \/ /\ rBacklog[k] # <<>> /\ n = Head(rBacklog[k]) /\ rStage' = rStage
                /\ rBacklog' = [rBacklog EXCEPT ![k] = Tail(rBacklog[k])]
          /\ rOut' = [rOut EXCEPT ![k] = Append(rOut[k], n)]
    BY <1>11, PublishEffect
  <2>3. rOut'[k] = Append(rOut[k], n)
    BY <2>2 DEF TypeInv
  <2>4. ASSUME n \in 1..Len(arrived[k])
        PROVE  D["delivered"] = Append(C["delivered"], arrived[k][n])
    <3>1. Through(arrived[k], Append(rOut[k], n))
            = Append(Through(arrived[k], rOut[k]), arrived[k][n])
      BY <1>3, <2>4, ThroughFacts
    <3> QED
      BY <1>1, <1>2, <2>1, <2>3, <3>1
  <2>5. CASE /\ rStage[k] = "cleared" /\ n = rAccepted[k]
             /\ rStage' = [rStage EXCEPT ![k] = "none"] /\ rBacklog' = rBacklog
    <3>1. rStage'[k] = "none" /\ n \in 1..Len(arrived[k])
      BY <1>3, <2>5 DEF TypeInv
    <3>2. C["receiving"] = <<arrived[k][n]>> /\ D["receiving"] = <<>>
      BY <1>1, <1>2, <2>5, <3>1
    <3>3. /\ <<arrived[k][n]>> # <<>> /\ Head(<<arrived[k][n]>>) = arrived[k][n]
          /\ Tail(<<arrived[k][n]>>) = <<>>
      OBVIOUS
    <3>4. \A s \in Stores \ {"receiving", "delivered"} : D[s] = C[s]
      BY <1>1, <1>2, <2>1, <2>5 DEF Stores
    <3>5. Moves(C, D, "receiving", "delivered")
      BY <2>4, <3>1, <3>2, <3>3, <3>4 DEF Moves, Others
    <3>a. sAccepted'[k] = sAccepted[k] /\ lost'[k] = lost[k]
      BY <2>1
    <3> QED
      BY <1>g, <2>1, <2>5, <3>a, <3>1, <3>5
  <2>6. CASE /\ rBacklog[k] # <<>> /\ n = Head(rBacklog[k]) /\ rStage' = rStage
             /\ rBacklog' = [rBacklog EXCEPT ![k] = Tail(rBacklog[k])]
    <3>1. rBacklog'[k] = Tail(rBacklog[k])
      BY <2>6 DEF TypeInv
    <3>2. n \in 1..Len(arrived[k])
      BY <1>3, <2>6, HeadTailProperties
    <3>3. /\ Through(arrived[k], rBacklog[k]) # <<>>
          /\ Head(Through(arrived[k], rBacklog[k])) = arrived[k][n]
          /\ Tail(Through(arrived[k], rBacklog[k])) = Through(arrived[k], Tail(rBacklog[k]))
      BY <1>3, <2>6, ThroughFacts
    <3>4. \A s \in Stores \ {"held by receiver", "delivered"} : D[s] = C[s]
      BY <1>1, <1>2, <2>1, <2>6 DEF Stores
    <3>5. D["held by receiver"] = Tail(C["held by receiver"])
      BY <1>1, <1>2, <2>1, <3>1, <3>3
    <3>6. Moves(C, D, "held by receiver", "delivered")
      BY <1>1, <2>4, <3>2, <3>3, <3>4, <3>5 DEF Moves, Others
    <3>a. sAccepted'[k] = sAccepted[k] /\ lost'[k] = lost[k]
      BY <2>1
    <3> QED
      BY <1>h, <3>a, <3>6
  <2> QED
    BY <2>2, <2>5, <2>6
<1>12. CASE Disconnect(k)
  <2>1. UNCHANGED <<sAccepted, sStage, sBacklog, rAccepted, rStage, rBacklog, rOut, arrived>>
    BY <1>12, DisconnectEffect DEF sender, receiver
  <2>2. PICK n \in 0..Len(wire[k]) :
          /\ wire' = [wire EXCEPT ![k] = SubSeq(wire[k], 1, n)]
          /\ lost' = [lost EXCEPT ![k] = lost[k]
                                    \cup ToSet(SubSeq(wire[k], n + 1, Len(wire[k])))]
    BY <1>12, DisconnectEffect
  <2>3. /\ wire'[k] = SubSeq(wire[k], 1, n)
        /\ lost'[k] = lost[k] \cup ToSet(SubSeq(wire[k], n + 1, Len(wire[k])))
    BY <2>2 DEF TypeInv
  <2>4. \A s \in Stores \ {"wire"} : D[s] = C[s]
    BY <1>1, <1>2, <2>1 DEF Stores
  <2>5. Cuts(C, D, "wire", n) /\ n \in 0..Len(C["wire"])
        /\ lost'[k] = lost[k] \cup ToSet(SubSeq(C["wire"], n + 1, Len(C["wire"])))
    BY <1>1, <1>2, <2>3, <2>4 DEF Cuts, Others
  <2>6. sAccepted'[k] = sAccepted[k]
    BY <2>1
  <2> QED
    BY <1>i, <2>5, <2>6
<1>13. CASE Turns
  <2>1. Idle(k)
    BY <1>13 DEF Turns, Idle
  <2> QED
    BY <1>5, <2>1
<1>14. ASSUME NEW j \in Topics, j # k,
              \/ SubCallback(j) \/ SenderGate(j) \/ SendSerializedMessage(j)
              \/ RecvFunc(j) \/ ReceiverGate(j) \/ PublishReceivedMessage(j)
              \/ Disconnect(j)
       PROVE  Course(k, C, D)
  BY <1>5, <1>14, IdleElsewhere
<1>15. CASE \E j \in Topics :
              \/ SubCallback(j) \/ SenderGate(j) \/ SendSerializedMessage(j)
              \/ RecvFunc(j) \/ ReceiverGate(j) \/ PublishReceivedMessage(j)
              \/ Disconnect(j)
  BY <1>6, <1>7, <1>8, <1>9, <1>10, <1>11, <1>12, <1>14, <1>15
<1> QED
  BY <1>13, <1>15, Steps

-----------------------------------------------------------------------------
(* Nothing buffered is mislaid. *)

\* A place loses messages from its end.
LEMMA PrefixClean ==
  ASSUME NEW S, NEW n \in Nat, NEW C \in [S -> Seq(Nat)], NEW D \in [S -> Seq(Nat)],
         Clean(C, n),
         \A s \in S : \A i \in DOMAIN D[s] : i \in DOMAIN C[s] /\ D[s][i] = C[s][i]
  PROVE  Clean(D, n)
<1>1. DOMAIN C = S /\ DOMAIN D = S
  OBVIOUS
<1> QED
  BY <1>1, SMTT(30) DEF Clean, NoRepeat

Holds(C, m) == \E s \in Stores : m \in ToSet(C[s])

\* A new message is held somewhere.
LEMMA AcceptsHolds ==
  ASSUME NEW C \in [Stores -> Seq(Nat)], NEW D \in [Stores -> Seq(Nat)], NEW n \in Nat,
         Accepts(C, D, n), NEW m
  PROVE  Holds(D, m) <=> Holds(C, m) \/ m = n
<1>1. ToSet(C["sending"]) = {} /\ ToSet(D["sending"]) = {n} /\ "sending" \in Stores
  BY EmptySet, SingletonSet DEF Accepts, Stores
<1>2. \A s \in Stores : s = "sending" \/ D[s] = C[s]
  BY DEF Accepts, Others
<1> QED
  BY <1>1, <1>2 DEF Holds

\* A move from one store to another keeps what is held.
LEMMA MovesHolds ==
  ASSUME NEW C \in [Stores -> Seq(Nat)], NEW D \in [Stores -> Seq(Nat)],
         NEW p \in Stores, NEW r \in Stores \ {p}, Moves(C, D, p, r), NEW m
  PROVE  Holds(D, m) <=> Holds(C, m)
<1>1. ToSet(C[p]) = {Head(C[p])} \cup ToSet(D[p]) /\ Head(C[p]) \in Nat
  BY HeadTailSet DEF Moves
<1>2. ToSet(D[r]) = ToSet(C[r]) \cup {Head(C[p])}
  BY <1>1, AppendSet DEF Moves
<1>3. \A s \in Stores : s = p \/ s = r \/ D[s] = C[s]
  BY DEF Moves, Others
<1>4. ASSUME Holds(C, m) PROVE Holds(D, m)
  BY <1>1, <1>2, <1>3, <1>4 DEF Holds
<1>5. ASSUME Holds(D, m) PROVE Holds(C, m)
  BY <1>1, <1>2, <1>3, <1>5 DEF Holds
<1> QED
  BY <1>4, <1>5

\* In what is clean, a message is where it is and nowhere else.
LEMMA OnePlace ==
  ASSUME NEW n \in Nat, NEW C \in [Stores -> Seq(Nat)], Clean(C, n),
         NEW s \in Stores, NEW r \in Stores, NEW i \in DOMAIN C[s], NEW j \in DOMAIN C[r],
         C[s][i] = C[r][j]
  PROVE  s = r /\ i = j
BY DEF Clean, NoRepeat

\* A drop loses one message and no other.
LEMMA DropsHolds ==
  ASSUME NEW n \in Nat, NEW C \in [Stores -> Seq(Nat)], NEW D \in [Stores -> Seq(Nat)],
         Clean(C, n), NEW p \in Stores, Drops(C, D, p), NEW m
  PROVE  /\ Holds(C, m) <=> Holds(D, m) \/ m = Head(C[p])
         /\ ~ Holds(D, Head(C[p]))
<1>1. C[p] \in Seq(Nat) /\ C[p] # <<>> /\ D[p] = Tail(C[p])
      /\ \A s \in Stores : s = p \/ D[s] = C[s]
  BY DEF Drops, Others
<1>2. ToSet(C[p]) = {Head(C[p])} \cup ToSet(D[p])
  BY <1>1, HeadTailSet
<1>3. /\ Head(C[p]) = C[p][1] /\ 1 \in DOMAIN C[p]
      /\ \A i \in DOMAIN D[p] : i \in Nat \ {0} /\ i + 1 \in DOMAIN C[p] /\ D[p][i] = C[p][i + 1]
  BY <1>1, TailFacts
<1>4. ASSUME NEW s \in Stores, NEW i \in DOMAIN D[s] PROVE D[s][i] # C[p][1]
  <2>1. CASE s = p
    <3>1. i + 1 \in DOMAIN C[p] /\ i + 1 # 1 /\ D[p][i] = C[p][i + 1]
      BY <1>3, <1>4, <2>1
    <3> QED
      BY <1>3, <2>1, <3>1, OnePlace, SMTT(30)
  <2>2. CASE s # p
    <3>1. i \in DOMAIN C[s] /\ D[s][i] = C[s][i]
      BY <1>1, <1>4, <2>2
    <3> QED
      BY <1>3, <2>2, <3>1, OnePlace, ZenonT(30)
  <2> QED
    BY <2>1, <2>2
<1>5. ~ Holds(D, Head(C[p]))
  BY <1>3, <1>4, ToSetDef DEF Holds
<1>6. Holds(C, m) <=> Holds(D, m) \/ m = Head(C[p])
  BY <1>1, <1>2 DEF Holds
<1> QED
  BY <1>5, <1>6

\* A break loses what it cuts off and nothing else.
LEMMA CutsHolds ==
  ASSUME NEW a \in Nat, NEW C \in [Stores -> Seq(Nat)], NEW D \in [Stores -> Seq(Nat)],
         Clean(C, a), NEW p \in Stores, NEW n \in 0..Len(C[p]), Cuts(C, D, p, n), NEW m
  PROVE  LET rest == ToSet(SubSeq(C[p], n + 1, Len(C[p])))
         IN  /\ Holds(C, m) <=> Holds(D, m) \/ m \in rest
             /\ ~ (Holds(D, m) /\ m \in rest)
             /\ Clean(D, a)
<1> DEFINE rest == ToSet(SubSeq(C[p], n + 1, Len(C[p])))
<1>0. C[p] \in Seq(Nat) /\ Len(C[p]) \in Nat /\ n \in Nat /\ n <= Len(C[p])
      /\ DOMAIN C[p] = 1..Len(C[p]) /\ D[p] = SubSeq(C[p], 1, n)
      /\ \A s \in Stores : s = p \/ D[s] = C[s]
  BY DEF Cuts, Others
<1>1. DOMAIN D[p] = 1..n /\ \A i \in 1..n : D[p][i] = C[p][i]
  BY <1>0
<1>2. /\ DOMAIN SubSeq(C[p], n + 1, Len(C[p])) = 1..(Len(C[p]) - n)
      /\ \A i \in 1..(Len(C[p]) - n) : SubSeq(C[p], n + 1, Len(C[p]))[i] = C[p][i + n]
  BY <1>0
<1>3. \A x : x \in rest <=> \E i \in (n + 1)..Len(C[p]) : x = C[p][i]
  <2>1. ASSUME NEW x \in rest PROVE \E i \in (n + 1)..Len(C[p]) : x = C[p][i]
    <3>1. PICK i \in 1..(Len(C[p]) - n) : x = C[p][i + n]
      BY <1>2, <2>1, ToSetDef
    <3>2. i + n \in (n + 1)..Len(C[p])
      BY <1>0, <3>1
    <3> QED
      BY <3>1, <3>2
  <2>2. ASSUME NEW i \in (n + 1)..Len(C[p]) PROVE C[p][i] \in rest
    <3>1. i - n \in 1..(Len(C[p]) - n) /\ (i - n) + n = i
      BY <1>0, <2>2
    <3>2. SubSeq(C[p], n + 1, Len(C[p]))[i - n] = C[p][i]
      BY <1>2, <3>1
    <3> QED
      BY <1>2, <3>1, <3>2, ToSetDef
  <2> QED
    BY <2>1, <2>2
<1> HIDE DEF rest
<1>4. \A s \in Stores : \A i \in DOMAIN D[s] : i \in DOMAIN C[s] /\ D[s][i] = C[s][i]
  <2>1. 1..n \subseteq DOMAIN C[p]
    BY <1>0
  <2> QED
    BY <1>0, <1>1, <2>1
<1>5. Clean(D, a)
  BY <1>4, PrefixClean
<1>6. ASSUME Holds(C, m) PROVE Holds(D, m) \/ m \in rest
  <2>0. PICK s \in Stores : \E i \in DOMAIN C[s] : m = C[s][i]
    BY <1>6, ToSetDef DEF Holds
  <2>1. PICK i \in DOMAIN C[s] : m = C[s][i]
    BY <2>0
  <2>2. CASE s # p
    BY <1>0, <2>1, <2>2, ToSetDef DEF Holds
  <2>3. CASE s = p /\ i > n
    <3>1. i \in (n + 1)..Len(C[p])
      BY <1>0, <2>1, <2>3
    <3> QED
      BY <1>3, <2>1, <2>3, <3>1
  <2>4. CASE s = p /\ i <= n
    <3>1. i \in DOMAIN D[p] /\ D[p][i] = m
      BY <1>0, <1>1, <2>1, <2>4
    <3> QED
      BY <3>1, ToSetDef DEF Holds
  <2>5. i > n \/ i <= n \/ s # p
    BY <1>0, <2>1
  <2> QED
    BY <2>2, <2>3, <2>4, <2>5
<1>7. ASSUME Holds(D, m) PROVE Holds(C, m) /\ m \notin rest
  <2>0. PICK s \in Stores : \E i \in DOMAIN D[s] : m = D[s][i]
    BY <1>7, ToSetDef DEF Holds
  <2>1. PICK i \in DOMAIN D[s] : m = D[s][i]
    BY <2>0
  <2>2. i \in DOMAIN C[s] /\ m = C[s][i]
    BY <1>4, <2>1
  <2>3. Holds(C, m)
    BY <2>2, ToSetDef DEF Holds
  <2>4. ASSUME m \in rest PROVE FALSE
    <3>1. PICK j \in (n + 1)..Len(C[p]) : m = C[p][j]
      BY <1>3, <2>4
    <3>2. j \in DOMAIN C[p] /\ C[s][i] = C[p][j] /\ j > n
      BY <1>0, <2>2, <3>1
    <3>3. s = p /\ i = j
      BY ONLY <2>1, <2>2, <3>2, OnePlace, Clean(C, a), a \in Nat, p \in Stores,
              C \in [Stores -> Seq(Nat)]
    <3>4. i \in 1..n
      BY <1>1, <2>1, <3>3
    <3> QED
      BY <1>0, <3>2, <3>3, <3>4
  <2> QED
    BY <2>3, <2>4
<1>8. ASSUME m \in rest PROVE Holds(C, m)
  <2>1. PICK j \in (n + 1)..Len(C[p]) : m = C[p][j]
    BY <1>3, <1>8
  <2>2. j \in DOMAIN C[p]
    BY <1>0
  <2> QED
    BY <2>1, <2>2, ToSetDef DEF Holds
<1> QED
  BY <1>5, <1>6, <1>7, <1>8 DEF rest

\* A topic with "buffer" holds a message back behind the others.
LEMMA BufferMoves ==
  ASSUME NEW C, NEW D, NEW p, NEW r, HoldsBack(C, D, p, r, "buffer")
  PROVE  Moves(C, D, p, r)
<1>1. PICK m \in Nat : /\ C[p] = <<m>> /\ D[p] = <<>>
                       /\ D[r] = Append(C[r], m) /\ Others(C, D, {p, r})
  BY DEF HoldsBack, HeldBack
<1>2. <<m>> # <<>> /\ Head(<<m>>) = m /\ Tail(<<m>>) = <<>>
  OBVIOUS
<1> QED
  BY <1>1, <1>2 DEF Moves

\* What NothingMislaid says, as the steps preserve it.
Placed(C, a, gone) ==
  /\ Clean(C, a)
  /\ \A m : /\ Holds(C, m) \/ m \in gone <=> m \in 1..a
            /\ ~ (Holds(C, m) /\ m \in gone)

\* A move mislays nothing.
LEMMA MovesPlaced ==
  ASSUME NEW C \in [Stores -> Seq(Nat)], NEW D \in [Stores -> Seq(Nat)], NEW a \in Nat,
         NEW gone, Placed(C, a, gone),
         NEW p \in Stores, NEW r \in Stores, p # r, Moves(C, D, p, r)
  PROVE  Placed(D, a, gone)
<1>1. \A m : Holds(D, m) <=> Holds(C, m)
  BY MovesHolds
<1>2. Clean(D, a)
  <2>1. DOMAIN C = Stores
    OBVIOUS
  <2>2. Moved(C, D, p, r)
    BY <2>1 DEF Moves, Moved, Less, Others
  <2> QED
    BY <2>2, MoveClean DEF Placed
<1> QED
  BY <1>1, <1>2 DEF Placed

PlacedAll == \A k \in Buffered : Placed(Contents(k), sAccepted[k], lost[k])

\* Nothing is mislaid at first.
LEMMA InitPlaced == TypeInv /\ Numbered /\ Init => PlacedAll
<1> SUFFICES ASSUME TypeInv, Numbered, Init, NEW k \in Buffered
             PROVE  Placed(Contents(k), sAccepted[k], lost[k])
  BY DEF PlacedAll
<1> DEFINE C == Contents(k)
<1>1. k \in Topics
  BY DEF Buffered
<1>2. sAccepted[k] = 0 /\ lost[k] = {}
  BY <1>1 DEF Init, Sender!Init, Sender!LinkTopics
<1>3. C \in [Stores -> Seq(Nat)] /\ \A s \in Stores : C[s] = <<>>
  BY <1>1, InitContents, ContentsAre DEF ContentsOf
<1> HIDE DEF C
<1>4. \A m : ~ Holds(C, m)
  BY <1>3, EmptySet DEF Holds
<1>5. Clean(C, 0)
  BY <1>3 DEF Clean, NoRepeat
<1>6. Placed(C, sAccepted[k], lost[k])
  BY <1>2, <1>4, <1>5 DEF Placed
<1> QED
  BY <1>6 DEF C

\* No step mislays a message of a buffer topic.
LEMMA StepPlaced ==
  TypeInv /\ Numbered /\ Gates /\ PlacedAll /\ TypeInv' /\ Numbered' /\ [Next]_vars
    => PlacedAll'
<1> SUFFICES ASSUME TypeInv, Numbered, Gates, PlacedAll, TypeInv', Numbered', [Next]_vars,
                    NEW k \in Buffered
             PROVE  Placed(Contents(k)', sAccepted'[k], lost'[k])
  BY DEF PlacedAll
<1> DEFINE C == Contents(k)
           D == Contents(k)'
<1>1. k \in Topics /\ SendPolicy[k] = "buffer" /\ RecvPolicy[k] = "buffer"
  BY DEF Buffered
<1>2. Course(k, C, D)
  BY <1>1, StepContents
<1>3. C \in [Stores -> Seq(Nat)] /\ sAccepted[k] \in Nat
  BY <1>1, ContentsAre DEF ContentsOf, TypeInv
<1>4. D \in [Stores -> Seq(Nat)]
  BY <1>1, ContentsNext DEF ContentsOf
<1>5. Placed(C, sAccepted[k], lost[k])
  BY DEF PlacedAll
<1> SUFFICES Placed(D, sAccepted'[k], lost'[k])
  OBVIOUS
<1> HIDE DEF C, D
<1>6. ASSUME sAccepted'[k] = sAccepted[k], lost'[k] = lost[k], Placed(D, sAccepted[k], lost[k])
      PROVE  Placed(D, sAccepted'[k], lost'[k])
  BY <1>6
<1>7. {"sending", "held by sender", "wire", "receiving", "held by receiver", "delivered"}
        \subseteq Stores
  BY DEF Stores
<1>8. ASSUME NEW p \in Stores, NEW r \in Stores, p # r, Moves(C, D, p, r)
      PROVE  Placed(D, sAccepted[k], lost[k])
  BY <1>3, <1>4, <1>5, <1>8, MovesPlaced
<1>9. ASSUME Others(C, D, {}) PROVE Placed(D, sAccepted[k], lost[k])
  <2>1. \A s \in Stores : D[s] = C[s]
    BY <1>9 DEF Others
  <2>2. D = C
    BY <1>3, <1>4, <2>1
  <2> QED
    BY <1>5, <2>2
<1>a. CASE Accepts(C, D, sAccepted[k] + 1) /\ sAccepted'[k] = sAccepted[k] + 1
           /\ lost'[k] = lost[k]
  <2>0. sAccepted[k] + 1 \in Nat
    BY <1>3
  <2>1. \A m : Holds(D, m) <=> Holds(C, m) \/ m = sAccepted[k] + 1
    <3>1. ASSUME NEW n \in Nat, n = sAccepted[k] + 1, NEW m
          PROVE  Holds(D, m) <=> Holds(C, m) \/ m = n
      <4>1. Accepts(C, D, n)
        BY <1>a, <3>1
      <4> QED
        BY <1>3, <1>4, <4>1, AcceptsHolds
    <3> QED
      BY <2>0, <3>1
  <2>2. Fresh(C, D, "sending", sAccepted[k] + 1)
    <3>1. DOMAIN C = Stores
      BY <1>3
    <3> QED
      BY <1>a, <3>1 DEF Accepts, Others, Fresh
  <2>3. Clean(D, sAccepted[k] + 1)
    BY <1>3, <1>4, <1>5, <1>7, <2>2, FreshClean DEF Placed
  <2>4. \A m : m \in 1..(sAccepted[k] + 1) <=> m \in 1..sAccepted[k] \/ m = sAccepted[k] + 1
    BY <1>3
  <2>5. sAccepted[k] + 1 \notin 1..sAccepted[k]
    BY <1>3
  <2> QED
    BY <1>5, <1>a, <2>1, <2>3, <2>4, <2>5 DEF Placed
<1>b. ASSUME NEW p \in {"sending", "held by sender"}, Drops(C, D, p),
             sAccepted'[k] = sAccepted[k], lost'[k] = lost[k] \cup {Head(C[p])}
      PROVE  Placed(D, sAccepted'[k], lost'[k])
  <2>1. p \in Stores /\ Clean(C, sAccepted[k])
    BY <1>5, <1>7 DEF Placed
  <2>2. \A m : /\ Holds(C, m) <=> Holds(D, m) \/ m = Head(C[p])
               /\ ~ Holds(D, Head(C[p]))
    BY <1>3, <1>4, <1>b, <2>1, DropsHolds
  <2>3. Clean(D, sAccepted[k])
    <3>1. \A s \in Stores : D[s] = C[s] \/ D[s] = <<>> \/ (C[s] # <<>> /\ D[s] = Tail(C[s]))
      BY <1>b DEF Drops, Others
    <3> QED
      BY <1>3, <1>4, <2>1, <3>1, FewerClean
  <2> QED
    BY <1>5, <1>b, <2>2, <2>3 DEF Placed
<1>c. ASSUME NEW n \in 0..Len(C["wire"]), Cuts(C, D, "wire", n),
             sAccepted'[k] = sAccepted[k],
             lost'[k] = lost[k] \cup ToSet(SubSeq(C["wire"], n + 1, Len(C["wire"])))
      PROVE  Placed(D, sAccepted'[k], lost'[k])
  <2> DEFINE rest == ToSet(SubSeq(C["wire"], n + 1, Len(C["wire"])))
  <2>1. "wire" \in Stores /\ Clean(C, sAccepted[k])
    BY <1>5, <1>7 DEF Placed
  <2>2. ASSUME NEW m
        PROVE  /\ Holds(C, m) <=> Holds(D, m) \/ m \in rest
               /\ ~ (Holds(D, m) /\ m \in rest)
               /\ Clean(D, sAccepted[k])
    BY <1>3, <1>4, <1>c, <2>1, CutsHolds, ZenonT(30)
  <2>3. lost'[k] = lost[k] \cup rest
    BY <1>c
  <2> HIDE DEF rest
  <2> QED
    BY <1>5, <1>c, <2>2, <2>3 DEF Placed
<1>d. ASSUME \/ Moves(C, D, "sending", "held by sender")
             \/ Moves(C, D, "sending", "wire") \/ Moves(C, D, "held by sender", "wire")
             \/ Moves(C, D, "wire", "receiving") \/ Moves(C, D, "receiving", "held by receiver")
             \/ Moves(C, D, "receiving", "delivered")
             \/ Moves(C, D, "held by receiver", "delivered")
      PROVE  Placed(D, sAccepted[k], lost[k])
  BY <1>7, <1>8, <1>d
<1>e. ASSUME \/ HoldsBack(C, D, "sending", "held by sender", SendPolicy[k])
             \/ HoldsBack(C, D, "receiving", "held by receiver", RecvPolicy[k])
      PROVE  Placed(D, sAccepted[k], lost[k])
  BY <1>1, <1>d, <1>e, BufferMoves
<1> QED
  BY <1>2, <1>6, <1>9, <1>a, <1>b, <1>c, <1>d, <1>e DEF Course

\* Every message of a buffer topic is in one place or lost.
LEMMA PlacedAllHolds == Spec => []PlacedAll
<1>1. TypeInv /\ Numbered /\ Init => PlacedAll
  BY InitPlaced
<1> QED
  BY <1>1, StepPlaced, TypesHold, NumberedHolds, GatesHold, PTL DEF Spec

\* NothingMislaid: a topic with "buffer" at both nodes has each message it accepted in
\* exactly one place, sub_cb, fault buffer of the sender, connection, recv_func, fault
\* buffer of the receiver or published, or the connection has lost it, whatever faults
\* the two nodes have and however they overlap.
THEOREM NothingIsMislaid == Spec => []NothingMislaid
<1>1. ASSUME TypeInv, Numbered, PlacedAll PROVE NothingMislaid
  <2> SUFFICES ASSUME NEW k \in Buffered
               PROVE  /\ Somewhere(k) \cup lost[k] = 1..sAccepted[k]
                      /\ Somewhere(k) \cap lost[k] = {}
                      /\ NoRepeat(Contents(k))
    BY DEF NothingMislaid
  <2>1. Placed(Contents(k), sAccepted[k], lost[k])
    BY <1>1 DEF PlacedAll
  <2>2. \A s \in Stores : Contents(k)[s] = Content(k, s)
    BY DEF Contents
  <2>3. \A m : m \in Somewhere(k) <=> Holds(Contents(k), m)
    BY <2>2 DEF Somewhere, Holds
  <2> QED
    BY <2>1, <2>3 DEF Placed, Clean
<1>2. TypeInv /\ Numbered /\ PlacedAll => NothingMislaid
  BY <1>1
<1> QED
  BY <1>2, TypesHold, NumberedHolds, PlacedAllHolds, PTL

-----------------------------------------------------------------------------
(* Messages stay in line. A place further along holds older ones; a message gets ahead
   only from recv_func, past the fault buffer of the receiving node. *)

\* The places further back on the way than s.
Behind(s) ==
  {t \in Stores :
     \/ t = "sending" /\ s # "sending"
     \/ t = "held by sender" /\ s \notin {"sending", "held by sender"}
     \/ t = "wire" /\ s \in {"receiving", "held by receiver", "delivered"}
     \/ t = "receiving" /\ s \in {"held by receiver", "delivered"}}

\* Being behind is transitive and goes one way.
LEMMA BehindOrder ==
  /\ \A s, t, r \in Stores : t \in Behind(s) /\ r \in Behind(t) => r \in Behind(s)
  /\ \A s, t \in Stores : t \in Behind(s) =>
       s # t /\ t \notin {"held by receiver", "delivered"} /\ s \notin Behind(t)
BY DEF Behind, Stores

\* Of two stores one is behind the other, but for what the receiver holds and what is out.
LEMMA BehindTotal ==
  \A s, t \in Stores : \/ s = t \/ s \in Behind(t) \/ t \in Behind(s)
                      \/ {s, t} = {"held by receiver", "delivered"}
BY DEF Behind, Stores

\* Nothing is between place p and place r, where its next message goes.
Between(C, r, p) == \A s \in Stores : s \in Behind(r) /\ p \in Behind(s) => C[s] = <<>>

\* Nothing is between two stores that follow each other.
LEMMA Neighbours ==
  ASSUME NEW C
  PROVE  /\ Between(C, "wire", "held by sender")
         /\ C["held by sender"] = <<>> => Between(C, "wire", "sending")
         /\ Between(C, "held by sender", "sending") /\ Between(C, "receiving", "wire")
         /\ Between(C, "held by receiver", "receiving")
         /\ Between(C, "delivered", "receiving")
         /\ Between(C, "delivered", "held by receiver")
BY DEF Between, Behind, Stores

InLine(C, a) ==
  /\ \A s \in Stores : \A t \in Behind(s) : AllBelow(ToSet(C[s]), ToSet(C[t]))
  /\ \A s \in Stores : s # "delivered" => Ascending(C[s])
  /\ \A s \in Stores : \A m \in ToSet(C[s]) : m <= a

\* Only stores are behind a store.
LEMMA BehindStores == \A s : Behind(s) \subseteq Stores
BY DEF Behind

\* A store that loses messages stays in line.
LEMMA FewerInLine ==
  ASSUME NEW C, NEW D, NEW a, InLine(C, a),
         \A s \in Stores : ToSet(D[s]) \subseteq ToSet(C[s]),
         \A s \in Stores : s # "delivered" => Ascending(D[s])
  PROVE  InLine(D, a)
BY BehindStores DEF InLine, AllBelow

\* A move to the next store that holds something keeps the line.
LEMMA MovesInLine ==
  ASSUME NEW C \in [Stores -> Seq(Nat)], NEW D \in [Stores -> Seq(Nat)], NEW a,
         InLine(C, a), NEW p \in Stores, NEW r \in Stores, p # r, p # "delivered",
         Moves(C, D, p, r), Between(C, r, p),
         p \in Behind(r) \/ (r = "delivered" /\ p = "held by receiver")
  PROVE  InLine(D, a)
<1> DEFINE m == Head(C[p])
<1>1. /\ C[p] \in Seq(Nat) /\ C[p] # <<>> /\ D[p] = Tail(C[p])
      /\ C[r] \in Seq(Nat) /\ D[r] = Append(C[r], m)
      /\ \A s \in Stores : s = p \/ s = r \/ D[s] = C[s]
  BY DEF Moves, Others
<1>2. m \in Nat /\ Tail(C[p]) \in Seq(Nat) /\ ToSet(C[p]) = {m} \cup ToSet(D[p])
  BY <1>1, HeadTailSet
<1> HIDE DEF m
<1>3. ToSet(D[r]) = ToSet(C[r]) \cup {m}
  BY <1>1, <1>2, AppendSet
<1>4. Ascending(D[p]) /\ AllBelow({m}, ToSet(D[p]))
  <2>1. Ascending(C[p])
    BY DEF InLine
  <2> QED
    BY <1>1, <2>1, AscendingTail DEF m
<1>5. \A s \in Stores : \A x \in ToSet(D[s]) : x \in ToSet(C[s]) \/ (s = r /\ x = m)
  BY <1>1, <1>2, <1>3
<1>6. m \in ToSet(C[p])
  BY <1>2
<1>7. ASSUME NEW s \in Stores, NEW t \in Behind(s),
             NEW x \in ToSet(D[s]), NEW y \in ToSet(D[t])
      PROVE  x < y
  <2>0. t \in Stores /\ s # t /\ t \notin {"held by receiver", "delivered"} /\ s \notin Behind(t)
    BY BehindStores, BehindOrder
  <2>1. CASE x \in ToSet(C[s]) /\ y \in ToSet(C[t])
    BY <2>1 DEF InLine, AllBelow
  <2>2. CASE s = r /\ x = m
    <3>1. y \in ToSet(C[t])
      BY <1>5, <2>0, <2>2
    <3>2. CASE t = p
      BY <1>4, <2>2, <3>2 DEF AllBelow
    <3>3. CASE t \in Behind(p)
      BY <1>6, <2>2, <3>1, <3>3 DEF InLine, AllBelow
    <3>4. CASE p \in Behind(t)
      <4>1. C[t] = <<>>
        BY <2>0, <2>2, <3>4 DEF Between
      <4> QED
        BY <3>1, <4>1, EmptySet
    <3>5. t = p \/ t \in Behind(p) \/ p \in Behind(t)
      <4>1. {t, p} # {"held by receiver", "delivered"}
        BY <2>0
      <4> QED
        BY <2>0, <4>1, BehindTotal
    <3> QED
      BY <3>2, <3>3, <3>4, <3>5
  <2>3. CASE t = r /\ y = m
    <3>1. p \in Behind(s)
      BY <2>0, <2>3, BehindOrder
    <3>2. x \in ToSet(C[s])
      BY <1>5, <2>0, <2>3
    <3> QED
      BY <1>6, <2>3, <3>1, <3>2 DEF InLine, AllBelow
  <2> QED
    BY <1>5, <2>0, <2>1, <2>2, <2>3
<1>8. ASSUME NEW s \in Stores, s # "delivered" PROVE Ascending(D[s])
  <2>1. CASE s = r
    <3>1. Ascending(C[r]) /\ AllBelow(ToSet(C[r]), ToSet(C[p]))
      BY <1>8, <2>1 DEF InLine
    <3>2. AllBelow(ToSet(C[r]), {m})
      BY <1>6, <3>1 DEF AllBelow
    <3> QED
      BY <1>1, <1>2, <2>1, <3>1, <3>2, AscendingAppend
  <2>2. CASE s # r
    BY <1>1, <1>4, <1>8, <2>2 DEF InLine
  <2> QED
    BY <2>1, <2>2
<1>9. ASSUME NEW s \in Stores, NEW x \in ToSet(D[s]) PROVE x <= a
  BY <1>5, <1>6 DEF InLine
<1>b. ASSUME NEW s \in Stores, NEW t \in Behind(s) PROVE AllBelow(ToSet(D[s]), ToSet(D[t]))
  BY <1>7 DEF AllBelow
<1> QED
  BY <1>8, <1>9, <1>b DEF InLine

\* A new message goes to the end of the line.
LEMMA AcceptsInLine ==
  ASSUME NEW C \in [Stores -> Seq(Nat)], NEW D \in [Stores -> Seq(Nat)], NEW a \in Nat,
         InLine(C, a), Accepts(C, D, a + 1)
  PROVE  InLine(D, a + 1)
<1>1. /\ D["sending"] = <<a + 1>> /\ \A s \in Stores : s = "sending" \/ D[s] = C[s]
  BY DEF Accepts, Others
<1>2. ToSet(D["sending"]) = {a + 1}
  BY <1>1, SingletonSet
<1>3. ASSUME NEW s \in Stores, NEW x \in ToSet(C[s]) PROVE x \in Nat /\ x <= a /\ x < a + 1
  <2>1. C[s] \in Seq(Nat) /\ x <= a
    BY <1>3 DEF InLine
  <2>2. x \in Nat
    BY <1>3, <2>1, ElementType
  <2> QED
    BY <2>1, <2>2
<1>4. ASSUME NEW s \in Stores, NEW t \in Behind(s)
      PROVE  AllBelow(ToSet(D[s]), ToSet(D[t]))
  <2>1. s # "sending" /\ t \in Stores
    BY DEF Behind
  <2>2. CASE t = "sending"
    BY <1>1, <1>2, <1>3, <2>1, <2>2 DEF AllBelow
  <2>3. CASE t # "sending"
    BY <1>1, <1>4, <2>1, <2>3 DEF InLine
  <2> QED
    BY <2>2, <2>3
<1>5. ASSUME NEW s \in Stores, s # "delivered" PROVE Ascending(D[s])
  BY <1>1, <1>5, AscendingShort DEF InLine
<1>6. ASSUME NEW s \in Stores, NEW x \in ToSet(D[s]) PROVE x <= a + 1
  <2>1. x = a + 1 \/ x \in ToSet(C[s])
    BY <1>1, <1>2
  <2> QED
    BY <1>3, <2>1
<1> QED
  BY <1>4, <1>5, <1>6 DEF InLine

\* Holding a message back keeps the line.
LEMMA HoldsBackInLine ==
  ASSUME NEW C \in [Stores -> Seq(Nat)], NEW D \in [Stores -> Seq(Nat)], NEW a,
         InLine(C, a), NEW p \in Stores, NEW r \in Stores, p # "delivered",
         NEW policy, HoldsBack(C, D, p, r, policy), p \in Behind(r), Between(C, r, p)
  PROVE  InLine(D, a)
<1>1. PICK m \in Nat : /\ C[p] = <<m>> /\ D[p] = <<>>
                       /\ D[r] \in {C[r], <<m>>, Append(C[r], m)}
                       /\ Others(C, D, {p, r})
  BY DEF HoldsBack, HeldBack
<1>2. <<m>> # <<>> /\ Head(<<m>>) = m /\ Tail(<<m>>) = <<>> /\ Append(<<>>, m) = <<m>>
  OBVIOUS
<1>3. p # r
  BY BehindOrder
<1>4. CASE D[r] = C[r]
  <2>1. \A s \in Stores : D[s] = C[s] \/ D[s] = <<>>
    BY <1>1, <1>4 DEF Others
  <2>2. /\ \A s \in Stores : ToSet(D[s]) \subseteq ToSet(C[s])
        /\ \A s \in Stores : s # "delivered" => Ascending(D[s])
    BY <2>1, EmptySet, AscendingShort DEF InLine
  <2> QED
    BY <2>2, FewerInLine
<1>5. CASE D[r] = Append(C[r], m)
  <2>1. Moves(C, D, p, r)
    BY <1>1, <1>2, <1>5 DEF Moves
  <2> QED
    BY <1>3, <2>1, MovesInLine
<1>6. CASE D[r] = <<m>>
  <2> DEFINE E == [C EXCEPT ![r] = <<>>]
  <2>1. /\ E \in [Stores -> Seq(Nat)] /\ E[r] = <<>>
        /\ \A s \in Stores : s = r \/ E[s] = C[s]
    OBVIOUS
  <2> HIDE DEF E
  <2>2. /\ \A s \in Stores : ToSet(E[s]) \subseteq ToSet(C[s])
        /\ \A s \in Stores : s # "delivered" => Ascending(E[s])
    BY <2>1, EmptySet, AscendingShort DEF InLine
  <2>3. InLine(E, a)
    BY <2>2, FewerInLine
  <2>4. Moves(E, D, p, r)
    BY <1>1, <1>2, <1>3, <1>6, <2>1 DEF Moves, Others
  <2>5. Between(E, r, p)
    BY <2>1 DEF Between
  <2> QED
    BY <1>3, <2>1, <2>3, <2>4, <2>5, MovesInLine
<1> QED
  BY <1>1, <1>4, <1>5, <1>6

\* A drop keeps the line.
LEMMA DropsInLine ==
  ASSUME NEW C \in [Stores -> Seq(Nat)], NEW D \in [Stores -> Seq(Nat)], NEW a,
         InLine(C, a), NEW p \in Stores, p # "delivered", Drops(C, D, p)
  PROVE  InLine(D, a)
<1>1. C[p] \in Seq(Nat) /\ C[p] # <<>> /\ D[p] = Tail(C[p])
      /\ \A s \in Stores : s = p \/ D[s] = C[s]
  BY DEF Drops, Others
<1>2. ToSet(D[p]) \subseteq ToSet(C[p])
  BY <1>1, HeadTailSet
<1>3. Ascending(D[p])
  <2>1. Ascending(C[p])
    BY DEF InLine
  <2> QED
    BY <1>1, <2>1, AscendingTail
<1>4. /\ \A s \in Stores : ToSet(D[s]) \subseteq ToSet(C[s])
      /\ \A s \in Stores : s # "delivered" => Ascending(D[s])
  BY <1>1, <1>2, <1>3 DEF InLine
<1> QED
  BY <1>4, FewerInLine

\* A break keeps the line.
LEMMA CutsInLine ==
  ASSUME NEW C \in [Stores -> Seq(Nat)], NEW D \in [Stores -> Seq(Nat)], NEW a,
         InLine(C, a), NEW p \in Stores, p # "delivered",
         NEW n \in 0..Len(C[p]), Cuts(C, D, p, n)
  PROVE  InLine(D, a)
<1>1. /\ C[p] \in Seq(Nat) /\ Len(C[p]) \in Nat /\ n \in Nat /\ n <= Len(C[p])
      /\ D[p] = SubSeq(C[p], 1, n) /\ \A s \in Stores : s = p \/ D[s] = C[s]
  BY DEF Cuts, Others
<1>2. /\ DOMAIN D[p] = 1..n /\ DOMAIN C[p] = 1..Len(C[p])
      /\ \A i \in 1..n : D[p][i] = C[p][i] /\ i \in 1..Len(C[p])
  BY <1>1
<1>3. ToSet(D[p]) \subseteq ToSet(C[p])
  BY <1>2, ToSetDef
<1>4. Ascending(D[p])
  <2>1. Ascending(C[p])
    BY DEF InLine
  <2> QED
    BY <1>2, <2>1 DEF Ascending
<1>5. /\ \A s \in Stores : ToSet(D[s]) \subseteq ToSet(C[s])
      /\ \A s \in Stores : s # "delivered" => Ascending(D[s])
  BY <1>1, <1>3, <1>4 DEF InLine
<1> QED
  BY <1>5, FewerInLine

InLineAll == \A k \in Topics : InLine(Contents(k), sAccepted[k])

\* Empty stores are in line.
LEMMA InitInLine == TypeInv /\ Numbered /\ Init => InLineAll
<1> SUFFICES ASSUME TypeInv, Numbered, Init, NEW k \in Topics
             PROVE  InLine(Contents(k), sAccepted[k])
  BY DEF InLineAll
<1>1. \A s \in Stores : Contents(k)[s] = <<>>
  BY InitContents
<1> QED
  BY <1>1, EmptySet, AscendingShort, BehindStores DEF InLine, AllBelow

\* Every course keeps the line.
LEMMA CourseInLine ==
  ASSUME NEW k \in Topics, NEW C \in [Stores -> Seq(Nat)], NEW D \in [Stores -> Seq(Nat)],
         sAccepted[k] \in Nat, InLine(C, sAccepted[k]), Course(k, C, D)
  PROVE  InLine(D, sAccepted'[k])
<1> DEFINE a == sAccepted[k]
<1>1. /\ "sending" \in Behind("held by sender") /\ "sending" \in Behind("wire")
      /\ "held by sender" \in Behind("wire") /\ "wire" \in Behind("receiving")
      /\ "receiving" \in Behind("held by receiver") /\ "receiving" \in Behind("delivered")
  BY DEF Behind, Stores
<1>2. {"sending", "held by sender", "wire", "receiving", "held by receiver", "delivered"}
        \subseteq Stores
  BY DEF Stores
<1>3. a \in Nat /\ InLine(C, a)
  OBVIOUS
<1> HIDE DEF a
<1>4. ASSUME Others(C, D, {}) PROVE InLine(D, a)
  <2>1. \A s \in Stores : D[s] = C[s]
    BY <1>4 DEF Others
  <2> QED
    BY <1>3, <2>1 DEF InLine
<1>5. ASSUME Accepts(C, D, sAccepted[k] + 1), sAccepted'[k] = sAccepted[k] + 1
      PROVE  InLine(D, sAccepted'[k])
  BY <1>3, <1>5, AcceptsInLine DEF a
<1>6. ASSUME HoldsBack(C, D, "sending", "held by sender", SendPolicy[k]) PROVE InLine(D, a)
  BY <1>1, <1>2, <1>3, <1>6, Neighbours, HoldsBackInLine
<1>7. ASSUME HoldsBack(C, D, "receiving", "held by receiver", RecvPolicy[k])
      PROVE  InLine(D, a)
  BY <1>1, <1>2, <1>3, <1>7, Neighbours, HoldsBackInLine
<1>8. ASSUME NEW p \in {"sending", "held by sender"}, Moves(C, D, p, "wire"),
             p = "sending" => C["held by sender"] = <<>>
      PROVE  InLine(D, a)
  <2>1. Between(C, "wire", p)
    BY <1>8, Neighbours
  <2>2. p \in Stores /\ "wire" \in Stores /\ p # "wire" /\ p # "delivered"
        /\ p \in Behind("wire")
    BY <1>1, <1>2
  <2> QED
    BY <1>3, <1>8, <2>1, <2>2, MovesInLine
<1>9. ASSUME NEW p \in {"sending", "held by sender"}, Drops(C, D, p) PROVE InLine(D, a)
  <2>1. p \in Stores /\ p # "delivered"
    BY <1>2
  <2> QED
    BY <1>3, <1>9, <2>1, DropsInLine
<1>a. ASSUME Moves(C, D, "wire", "receiving") PROVE InLine(D, a)
  BY <1>1, <1>2, <1>3, <1>a, Neighbours, MovesInLine
<1>b. ASSUME Moves(C, D, "receiving", "delivered") PROVE InLine(D, a)
  BY <1>1, <1>2, <1>3, <1>b, Neighbours, MovesInLine
<1>c. ASSUME Moves(C, D, "held by receiver", "delivered") PROVE InLine(D, a)
  BY <1>1, <1>2, <1>3, <1>c, Neighbours, MovesInLine
<1>d. ASSUME NEW n \in 0..Len(C["wire"]), Cuts(C, D, "wire", n) PROVE InLine(D, a)
  BY <1>2, <1>3, <1>d, CutsInLine
<1> QED
  BY <1>4, <1>5, <1>6, <1>7, <1>8, <1>9, <1>a, <1>b, <1>c, <1>d DEF Course, a

\* Every step keeps the line.
LEMMA StepInLine ==
  TypeInv /\ Numbered /\ Gates /\ InLineAll /\ TypeInv' /\ Numbered' /\ [Next]_vars
    => InLineAll'
<1> SUFFICES ASSUME TypeInv, Numbered, Gates, InLineAll, TypeInv', Numbered', [Next]_vars,
                    NEW k \in Topics
             PROVE  InLine(Contents(k)', sAccepted'[k])
  BY DEF InLineAll
<1>1. Course(k, Contents(k), Contents(k)')
  BY StepContents
<1>2. Contents(k) \in [Stores -> Seq(Nat)] /\ sAccepted[k] \in Nat
  BY ContentsAre DEF ContentsOf, TypeInv
<1>3. Contents(k)' \in [Stores -> Seq(Nat)]
  BY ContentsNext DEF ContentsOf
<1>4. InLine(Contents(k), sAccepted[k])
  BY DEF InLineAll
<1> QED
  BY <1>1, <1>2, <1>3, <1>4, CourseInLine

\* The messages of a topic stand in line, all the way.
LEMMA InLineAllHolds == Spec => []InLineAll
<1>1. TypeInv /\ Numbered /\ Init => InLineAll
  BY InitInLine
<1> QED
  BY <1>1, StepInLine, TypesHold, NumberedHolds, GatesHold, PTL DEF Spec

-----------------------------------------------------------------------------
(* Who gets ahead, and how often. *)

\* The delivered messages that a smaller one follows, or will follow.
Ahead(C) ==
  Overtaking(C["delivered"])
    \cup {m \in ToSet(C["delivered"]) : \E n \in ToSet(C["held by receiver"]) : n < m}

\* Whether the last fault of the receiving node may still let one get ahead.
MayGetAhead(k) ==
  \/ rPhase = "down"
  \/ /\ rBacklog[k] # <<>>
     /\ rStage[k] = "cleared" \/ (rPhase = "over" /\ rStage[k] = "entered")

AheadBounded ==
  \A k \in Topics :
    /\ Cardinality(Ahead(Contents(k))) <= rFaults
    /\ MayGetAhead(k) => Cardinality(Ahead(Contents(k))) < rFaults

\* Those ahead are finitely many.
LEMMA AheadFinite ==
  ASSUME NEW C \in [Stores -> Seq(Nat)], NEW a \in Nat, InLine(C, a)
  PROVE  IsFiniteSet(Ahead(C)) /\ Cardinality(Ahead(C)) \in Nat
<1>1. C["delivered"] \in Seq(Nat) /\ "delivered" \in Stores
  BY DEF Stores
<1>2. Ahead(C) \subseteq ToSet(C["delivered"])
  BY ToSetDef DEF Ahead, Overtaking
<1>3. \A m \in Ahead(C) : m \in Nat /\ m <= a
  BY <1>1, <1>2, ElementType DEF InLine
<1>4. Ahead(C) \in SUBSET Nat /\ \A m \in Ahead(C) : m <= a
  BY <1>3
<1>5. IsFiniteSet(Ahead(C))
  BY <1>4, FS_BoundedSetOfNaturals
<1> QED
  BY <1>5, FS_CardinalityType

\* A step of the receiving node that publishes a held message lets nobody get ahead.
LEMMA ReplayAhead ==
  ASSUME NEW C \in [Stores -> Seq(Nat)], NEW D \in [Stores -> Seq(Nat)], NEW a,
         InLine(C, a), Moves(C, D, "held by receiver", "delivered")
  PROVE  Ahead(D) \subseteq Ahead(C)
<1> DEFINE h == C["held by receiver"]
           d == C["delivered"]
           m == Head(h)
<1>1. /\ h \in Seq(Nat) /\ h # <<>> /\ D["held by receiver"] = Tail(h)
      /\ d \in Seq(Nat) /\ D["delivered"] = Append(d, m)
      /\ Ascending(h)
  BY DEF Moves, InLine, Stores
<1> HIDE DEF h, d
<1>2. m \in Nat /\ ToSet(h) = {m} \cup ToSet(Tail(h)) /\ Tail(h) \in Seq(Nat)
  BY <1>1, HeadTailSet
<1>3. AllBelow({m}, ToSet(Tail(h)))
  BY <1>1, AscendingTail
<1> HIDE DEF m
<1>4. /\ Overtaking(Append(d, m)) = Overtaking(d) \cup {n \in ToSet(d) : m < n}
      /\ ToSet(Append(d, m)) = ToSet(d) \cup {m}
  BY <1>1, <1>2, OvertakingAppend, AppendSet
<1>5. Ahead(C) = Overtaking(d) \cup {x \in ToSet(d) : \E n \in ToSet(h) : n < x}
  BY DEF Ahead, h, d
<1>6. Ahead(D) = Overtaking(Append(d, m))
                   \cup {x \in ToSet(Append(d, m)) : \E n \in ToSet(Tail(h)) : n < x}
  BY <1>1 DEF Ahead
<1>7. ASSUME NEW n \in ToSet(Tail(h)), n < m PROVE FALSE
  <2>1. m < n
    BY <1>3, <1>7 DEF AllBelow
  <2>2. m \in Nat /\ n \in Nat
    BY <1>2, <1>7, ElementType
  <2> QED
    BY <1>7, <2>1, <2>2, NotBothBelow
<1> QED
  BY <1>2, <1>4, <1>5, <1>6, <1>7

\* One that publishes the message of recv_func lets this one get ahead, if others are held.
LEMMA PublishAhead ==
  ASSUME NEW C \in [Stores -> Seq(Nat)], NEW D \in [Stores -> Seq(Nat)], NEW a,
         InLine(C, a), Moves(C, D, "receiving", "delivered")
  PROVE  /\ Ahead(D) \subseteq Ahead(C) \cup {Head(C["receiving"])}
         /\ C["held by receiver"] = <<>> => Ahead(D) \subseteq Ahead(C)
<1> DEFINE h == C["held by receiver"]
           d == C["delivered"]
           m == Head(C["receiving"])
<1>1. /\ C["receiving"] \in Seq(Nat) /\ C["receiving"] # <<>> /\ D["held by receiver"] = h
      /\ d \in Seq(Nat) /\ D["delivered"] = Append(d, m)
  BY DEF Moves, Others, Stores
<1>2. m \in Nat /\ m \in ToSet(C["receiving"])
  BY <1>1, HeadTailSet
<1>3. \A n \in ToSet(d) : n < m /\ n \in Nat
  <2>1. "receiving" \in Behind("delivered") /\ "delivered" \in Stores
    BY DEF Behind, Stores
  <2>2. AllBelow(ToSet(C["delivered"]), ToSet(C["receiving"]))
    BY <2>1 DEF InLine
  <2> QED
    BY <1>1, <1>2, <2>2, ElementType DEF AllBelow
<1>4. Ahead(C) = Overtaking(d) \cup {x \in ToSet(d) : \E n \in ToSet(h) : n < x}
  BY DEF Ahead
<1>5. Ahead(D) = Overtaking(Append(d, m))
                   \cup {x \in ToSet(Append(d, m)) : \E n \in ToSet(h) : n < x}
  BY <1>1 DEF Ahead
<1> SUFFICES Ahead(D) \subseteq Ahead(C) \cup {m} /\ (h = <<>> => Ahead(D) \subseteq Ahead(C))
  OBVIOUS
<1> HIDE DEF h, d, m
<1>6. /\ Overtaking(Append(d, m)) = Overtaking(d) \cup {n \in ToSet(d) : m < n}
      /\ ToSet(Append(d, m)) = ToSet(d) \cup {m}
  BY <1>1, <1>2, OvertakingAppend, AppendSet
<1>7. ASSUME NEW n \in ToSet(d), m < n PROVE FALSE
  <2>1. n < m /\ n \in Nat
    BY <1>3
  <2> QED
    BY <1>2, <1>7, <2>1, NotBothBelow
<1>8. Ahead(D) \subseteq Ahead(C) \cup {m}
  BY <1>4, <1>5, <1>6, <1>7
<1>9. ASSUME h = <<>> PROVE Ahead(D) \subseteq Ahead(C)
  <2>1. ToSet(h) = {}
    BY <1>9, EmptySet
  <2> QED
    BY <1>4, <1>5, <1>6, <1>7, <2>1
<1> QED
  BY <1>8, <1>9

\* A message held back is larger than all that were delivered.
LEMMA HoldAhead ==
  ASSUME NEW C \in [Stores -> Seq(Nat)], NEW D \in [Stores -> Seq(Nat)], NEW a,
         InLine(C, a), NEW policy,
         HoldsBack(C, D, "receiving", "held by receiver", policy)
  PROVE  Ahead(D) \subseteq Ahead(C)
<1>1. PICK m \in Nat :
        /\ C["receiving"] = <<m>>
        /\ D["held by receiver"]
             \in {C["held by receiver"], <<m>>, Append(C["held by receiver"], m)}
        /\ D["delivered"] = C["delivered"]
  BY DEF HoldsBack, HeldBack, Others, Stores
<1>2. C["held by receiver"] \in Seq(Nat) /\ C["delivered"] \in Seq(Nat)
  BY DEF Stores
<1>3. ToSet(D["held by receiver"]) \subseteq ToSet(C["held by receiver"]) \cup {m}
  BY <1>1, <1>2, SingletonSet, AppendSet
<1>4. ASSUME NEW x \in ToSet(C["delivered"]), m < x PROVE FALSE
  <2>1. "receiving" \in Behind("delivered") /\ "delivered" \in Stores
    BY DEF Behind, Stores
  <2>2. AllBelow(ToSet(C["delivered"]), {m})
    BY <1>1, <2>1, SingletonSet DEF InLine
  <2>3. x < m
    BY <1>4, <2>2 DEF AllBelow
  <2>4. m \in Nat /\ x \in Nat
    BY <1>1, <1>2, <1>4, ElementType
  <2> QED
    BY <1>4, <2>3, <2>4, NotBothBelow
<1> QED
  BY <1>1, <1>3, <1>4 DEF Ahead

\* Only a publish by recv_func beside held messages lets one more get ahead.
LEMMA CourseAhead ==
  ASSUME NEW k \in Topics, NEW C \in [Stores -> Seq(Nat)], NEW D \in [Stores -> Seq(Nat)],
         NEW a, InLine(C, a), Course(k, C, D)
  PROVE  \/ Ahead(D) \subseteq Ahead(C)
         \/ /\ Ahead(D) \subseteq Ahead(C) \cup {Head(C["receiving"])}
            /\ C["held by receiver"] # <<>>
            /\ rStage[k] = "cleared" /\ rStage'[k] = "none"
            /\ UNCHANGED <<rPhase, rFaults, rBacklog>>
<1>1. ASSUME D["delivered"] = C["delivered"], D["held by receiver"] = C["held by receiver"]
      PROVE  Ahead(D) \subseteq Ahead(C)
  BY <1>1 DEF Ahead
<1>2. ASSUME \/ Others(C, D, {}) \/ Accepts(C, D, sAccepted[k] + 1)
             \/ HoldsBack(C, D, "sending", "held by sender", SendPolicy[k])
             \/ \E p \in {"sending", "held by sender"} :
                  Moves(C, D, p, "wire") \/ Drops(C, D, p)
             \/ Moves(C, D, "wire", "receiving")
             \/ \E n \in 0..Len(C["wire"]) : Cuts(C, D, "wire", n)
      PROVE  Ahead(D) \subseteq Ahead(C)
  <2>1. D["delivered"] = C["delivered"] /\ D["held by receiver"] = C["held by receiver"]
    BY <1>2 DEF Others, Accepts, HoldsBack, Moves, Drops, Cuts, Stores
  <2> QED
    BY <1>1, <2>1
<1>3. CASE HoldsBack(C, D, "receiving", "held by receiver", RecvPolicy[k])
  BY <1>3, HoldAhead
<1>4. CASE Moves(C, D, "held by receiver", "delivered")
  BY <1>4, ReplayAhead
<1>5. CASE /\ Moves(C, D, "receiving", "delivered")
           /\ rStage[k] = "cleared" /\ rStage'[k] = "none"
           /\ UNCHANGED <<rPhase, rFaults, rBacklog>>
  BY <1>5, PublishAhead
<1> QED
  BY <1>2, <1>3, <1>4, <1>5 DEF Course

\* A fault that may not let one get ahead any more never may again.
LEMMA StepMayGetAhead ==
  ASSUME TypeInv, Gates, [Next]_vars, NEW k \in Topics
  PROVE  \/ rFaults' = rFaults /\ (MayGetAhead(k)' => MayGetAhead(k))
         \/ rFaults' = rFaults + 1
<1> DEFINE Goal == rFaults' = rFaults /\ (MayGetAhead(k)' => MayGetAhead(k))
<1>a. ASSUME rPhase' = rPhase, rFaults' = rFaults, rStage'[k] = rStage[k],
             rBacklog'[k] = rBacklog[k]
      PROVE  Goal
  BY <1>a DEF MayGetAhead
<1>1. ASSUME NEW j \in Topics, SubCallback(j) PROVE Goal
  BY <1>1, <1>a, SubCallbackEffect DEF receiver
<1>2. ASSUME NEW j \in Topics, SenderGate(j) PROVE Goal
  BY <1>2, <1>a, SenderGateEffect DEF receiver
<1>3. ASSUME NEW j \in Topics, SendSerializedMessage(j) PROVE Goal
  BY <1>3, <1>a, SendEffect DEF receiver
<1>4. ASSUME NEW j \in Topics, RecvFunc(j) PROVE Goal
  <2>1. /\ UNCHANGED <<rPhase, rBacklog, rFaults>>
        /\ rStage' = [rStage EXCEPT ![j] = "arrived"]
    BY <1>4, RecvFuncEffect
  <2> QED
    BY <2>1 DEF MayGetAhead, TypeInv
<1>5. ASSUME NEW j \in Topics, ReceiverGate(j) PROVE Goal
  <2>1. UNCHANGED <<rPhase, rFaults>>
    BY <1>5, ReceiverGateEffect
  <2>2. CASE j # k
    <3>1. Idle(k)
      BY <1>5, <2>2, IdleElsewhere
    <3> QED
      BY <1>a, <2>1, <3>1 DEF Idle
  <2>3. CASE /\ rStage[k] = "arrived" /\ rStage' = [rStage EXCEPT ![k] = "entered"]
             /\ rBacklog' = rBacklog /\ (rPhase # "over" \/ rBacklog[k] = <<>>)
    <3>1. rStage'[k] = "entered"
      BY <2>3 DEF TypeInv
    <3> QED
      BY <2>1, <2>3, <3>1 DEF MayGetAhead
  <2>4. CASE /\ rStage[k] = "entered" /\ rStage' = [rStage EXCEPT ![k] = "cleared"]
             /\ rBacklog' = rBacklog /\ rPhase \in {"up", "stopped", "over"}
    BY <2>1, <2>4 DEF MayGetAhead, Gates
  <2>5. CASE rPhase = "down"
    BY <2>1, <2>5 DEF MayGetAhead
  <2> QED
    BY <1>5, <2>2, <2>3, <2>4, <2>5, ReceiverGateEffect
<1>6. ASSUME NEW j \in Topics, PublishReceivedMessage(j) PROVE Goal
  <2>1. UNCHANGED <<rPhase, rFaults>>
    BY <1>6, PublishEffect
  <2>2. CASE j # k
    <3>1. Idle(k)
      BY <1>6, <2>2, IdleElsewhere
    <3> QED
      BY <1>a, <2>1, <3>1 DEF Idle
  <2>3. CASE rStage' = [rStage EXCEPT ![k] = "none"] /\ rBacklog' = rBacklog
    <3>1. rStage'[k] = "none"
      BY <2>3 DEF TypeInv
    <3> QED
      BY <2>1, <2>3, <3>1 DEF MayGetAhead
  <2>4. CASE rBacklog[k] # <<>> /\ rStage' = rStage
    BY <2>1, <2>4 DEF MayGetAhead
  <2> QED
    BY <1>6, <2>2, <2>3, <2>4, PublishEffect
<1>7. ASSUME NEW j \in Topics, Disconnect(j) PROVE Goal
  BY <1>7, <1>a, DisconnectEffect DEF receiver
<1>8. ASSUME Turns PROVE Goal \/ rFaults' = rFaults + 1
  <2>1. UNCHANGED <<rStage, rBacklog>>
    BY <1>8 DEF Turns
  <2>2. CASE rPhase' = rPhase /\ rFaults' = rFaults
    BY <1>a, <2>1, <2>2
  <2>3. CASE rPhase = "down" /\ rPhase' = "over" /\ rFaults' = rFaults
    BY <2>3 DEF MayGetAhead
  <2>4. CASE rPhase = "over" /\ rPhase' = "recovering" /\ rFaults' = rFaults
    BY <2>1, <2>4 DEF MayGetAhead
  <2>5. CASE /\ rPhase' = "up" /\ rFaults' = rFaults
             /\ \A j \in Topics : rBacklog[j] = <<>>
    BY <2>1, <2>5 DEF MayGetAhead
  <2> QED
    BY <1>8, <2>2, <2>3, <2>4, <2>5 DEF Turns
<1> HIDE DEF Goal
<1>9. Goal \/ rFaults' = rFaults + 1
  BY <1>1, <1>2, <1>3, <1>4, <1>5, <1>6, <1>7, <1>8, Steps
<1> QED
  BY <1>9 DEF Goal

\* Nobody is ahead at first.
LEMMA InitAhead == TypeInv /\ Numbered /\ Init => AheadBounded
<1> SUFFICES ASSUME TypeInv, Numbered, Init, NEW k \in Topics
             PROVE  /\ Cardinality(Ahead(Contents(k))) <= rFaults
                    /\ MayGetAhead(k) => Cardinality(Ahead(Contents(k))) < rFaults
  BY DEF AheadBounded
<1>1. Contents(k)["delivered"] = <<>>
  BY InitContents DEF Stores
<1>2. Ahead(Contents(k)) = {}
  <2>1. Ahead(Contents(k)) \subseteq ToSet(Contents(k)["delivered"])
    BY <1>1, ToSetDef DEF Ahead, Overtaking
  <2> QED
    BY <1>1, <2>1, EmptySet
<1>3. rFaults = 0 /\ rPhase = "up" /\ rBacklog[k] = <<>>
  BY DEF Init, Receiver!Init, Receiver!LinkTopics
<1> QED
  BY <1>2, <1>3, FS_EmptySet DEF MayGetAhead

\* Every step keeps those ahead, and the one to come, within the faults.
LEMMA StepAheadBounded ==
  TypeInv /\ Numbered /\ Gates /\ InLineAll /\ AheadBounded /\ TypeInv' /\ Numbered'
    /\ InLineAll' /\ [Next]_vars => AheadBounded'
<1> SUFFICES ASSUME TypeInv, Numbered, Gates, InLineAll, AheadBounded, TypeInv', Numbered',
                    InLineAll', [Next]_vars, NEW k \in Topics
             PROVE  /\ Cardinality(Ahead(Contents(k)')) <= rFaults'
                    /\ MayGetAhead(k)' => Cardinality(Ahead(Contents(k)')) < rFaults'
  BY DEF AheadBounded
<1> DEFINE C == Contents(k)
           D == Contents(k)'
           A == Ahead(C)
           B == Ahead(D)
           x == Head(C["receiving"])
<1>1. C \in [Stores -> Seq(Nat)] /\ D \in [Stores -> Seq(Nat)]
      /\ InLine(C, sAccepted[k]) /\ InLine(D, sAccepted'[k])
      /\ sAccepted[k] \in Nat /\ sAccepted'[k] \in Nat
  BY ContentsAre, ContentsNext DEF ContentsOf, InLineAll, TypeInv
<1>2. C["held by receiver"] = Through(arrived[k], rBacklog[k])
  BY ContentsAre DEF ContentsOf
<1>3. Course(k, C, D)
  BY StepContents
<1>4. /\ Cardinality(A) <= rFaults /\ (MayGetAhead(k) => Cardinality(A) < rFaults)
      /\ rFaults \in Nat
  BY DEF AheadBounded, TypeInv
<1> SUFFICES Cardinality(B) <= rFaults' /\ (MayGetAhead(k)' => Cardinality(B) < rFaults')
  OBVIOUS
<1> HIDE DEF C, D
<1>5. IsFiniteSet(A) /\ Cardinality(A) \in Nat /\ IsFiniteSet(B) /\ Cardinality(B) \in Nat
  BY <1>1, AheadFinite
<1>6. \/ B \subseteq A
      \/ /\ B \subseteq A \cup {x} /\ C["held by receiver"] # <<>>
         /\ rStage[k] = "cleared" /\ rStage'[k] = "none"
         /\ UNCHANGED <<rPhase, rFaults, rBacklog>>
  BY <1>1, <1>3, CourseAhead
<1>7. \/ rFaults' = rFaults /\ (MayGetAhead(k)' => MayGetAhead(k))
      \/ rFaults' = rFaults + 1
  BY StepMayGetAhead
<1> HIDE DEF A, B, x
<1>8. CASE B \subseteq A
  <2>1. Cardinality(B) <= Cardinality(A)
    BY <1>5, <1>8, FS_Subset
  <2> QED
    BY <1>4, <1>5, <1>7, <2>1
<1>9. CASE /\ B \subseteq A \cup {x} /\ C["held by receiver"] # <<>>
           /\ rStage[k] = "cleared" /\ rStage'[k] = "none"
           /\ UNCHANGED <<rPhase, rFaults, rBacklog>>
  <2> DEFINE S == A \cup {x}
  <2>1. rBacklog[k] # <<>>
    <3>1. Through(arrived[k], <<>>) = <<>>
      BY DEF Through
    <3> QED
      BY <1>2, <1>9, <3>1
  <2>2. MayGetAhead(k) /\ rPhase # "down"
    BY <1>9, <2>1 DEF MayGetAhead, Gates
  <2>3. ~ MayGetAhead(k)'
    BY <1>9, <2>2 DEF MayGetAhead
  <2>4. IsFiniteSet(S) /\ Cardinality(S) <= Cardinality(A) + 1
    BY <1>5, OneMore
  <2>5. B \in SUBSET S
    BY <1>9
  <2> HIDE DEF S
  <2>6. Cardinality(S) \in Nat /\ Cardinality(B) <= Cardinality(S)
    BY <2>4, <2>5, FS_Subset, FS_CardinalityType
  <2>7. Cardinality(A) < rFaults /\ rFaults' = rFaults
    BY <1>4, <1>9, <2>2
  <2> QED
    BY <1>4, <1>5, <2>3, <2>4, <2>6, <2>7
<1> QED
  BY <1>6, <1>8, <1>9

\* Those ahead, and the one to come, are no more than the faults of the receiving node.
LEMMA AheadHolds == Spec => []AheadBounded
<1>1. TypeInv /\ Numbered /\ Init => AheadBounded
  BY InitAhead
<1> QED
  BY <1>1, StepAheadBounded, TypesHold, NumberedHolds, GatesHold, InLineAllHolds,
     PTL DEF Spec

\* ReceiverAloneReorders: messages are published at the far end in the order sub_cb got
\* them, but for at most one per topic and fault of the receiving node; no fault of the
\* sending node and no break of the connection adds to that.
THEOREM OnlyReceiverReorders == Spec => []ReceiverAloneReorders
<1>1. ASSUME TypeInv, Numbered, InLineAll, AheadBounded PROVE ReceiverAloneReorders
  <2> SUFFICES ASSUME NEW k \in Topics
               PROVE  Cardinality(Overtaking(Delivered(k))) <= rFaults
    BY DEF ReceiverAloneReorders
  <2> DEFINE A == Ahead(Contents(k))
             O == Overtaking(Delivered(k))
  <2>1. Contents(k)["delivered"] = Delivered(k)
    BY DEF Contents, Content, Stores
  <2>2. O \subseteq A
    BY <2>1 DEF Ahead
  <2>3. Contents(k) \in [Stores -> Seq(Nat)] /\ InLine(Contents(k), sAccepted[k])
        /\ sAccepted[k] \in Nat
    BY <1>1, ContentsAre DEF ContentsOf, InLineAll, TypeInv
  <2>4. IsFiniteSet(A) /\ Cardinality(A) \in Nat
    BY <2>3, AheadFinite
  <2>5. Cardinality(A) <= rFaults /\ rFaults \in Nat
    BY <1>1 DEF AheadBounded, TypeInv
  <2> HIDE DEF A, O
  <2>6. Cardinality(O) <= Cardinality(A) /\ Cardinality(O) \in Nat
    BY <2>2, <2>4, FS_Subset, FS_CardinalityType
  <2>7. Cardinality(O) <= rFaults
    BY <2>4, <2>5, <2>6
  <2> QED
    BY <2>7 DEF O
<1>2. TypeInv /\ Numbered /\ InLineAll /\ AheadBounded => ReceiverAloneReorders
  BY <1>1
<1> QED
  BY <1>2, TypesHold, NumberedHolds, InLineAllHolds, AheadHolds, PTL
=============================================================================
