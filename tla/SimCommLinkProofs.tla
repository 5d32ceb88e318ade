--------------------------- MODULE SimCommLinkProofs ---------------------------
(***************************************************************************)
(* Theorems about SimComm for every number of topics, every policy and     *)
(* bound, when faults come from the control server.                        *)
(*                                                                         *)
(* A send topic without limit keeps the order of its messages, a receive   *)
(* topic lets at most one message per fault overtake the buffered ones.    *)
(*                                                                         *)
(* When no topic has a limit, SimComm implements FaultLink: its initial    *)
(* states map to the initial state of a link, and each of its steps to a   *)
(* step of the link or to none.                                            *)
(***************************************************************************)
EXTENDS SimCommProofs

-----------------------------------------------------------------------------
(* One topic without limit, one step. *)

LEMMA OvertakersDef == ASSUME NEW k PROVE Overtakers(k) = Overtaking(out[k])
BY DEF Overtakers, Overtaking

LEMMA OvertakersDefNext == ASSUME NEW k PROVE Overtakers(k)' = Overtaking(out'[k])
BY DEF Overtakers, Overtaking


\* The one worker that carries messages of topic k, and the message it carries if it
\* is past its last gate.
Carrier(k) == IF k \in RecvTopics THEN k ELSE Main
Busy(k) == hand[Carrier(k)].topic = k
Cleared(k) == IF Busy(k) /\ pc[Carrier(k)] = "deliver" THEN {next[k]} ELSE {}

\* What the fault holds back of topic k, wherever it is.
Held(k) == ToSet(buffer[k]) \cup Replayed(k)

SameStore(k) ==
  /\ out'[k] = out[k] /\ buffer'[k] = buffer[k]
  /\ \A t \in Flushers : todo'[t][k] = todo[t][k]

Rests(k) ==
  /\ SameStore(k) /\ next'[k] = next[k]
  /\ Busy(k)' => Busy(k)
  /\ Cleared(k)' \subseteq Cleared(k)

Accepts(k) == SameStore(k) /\ next'[k] = next[k] + 1 /\ Cleared(k)' = {}

Clears(k) ==
  /\ SameStore(k) /\ next'[k] = next[k]
  /\ Busy(k) /\ pc[Carrier(k)] = "gate" /\ pc'[Carrier(k)] = "deliver"
  /\ ~recovering /\ ~FaultWindowOpen /\ UNCHANGED faultVars
  /\ Cleared(k)' = {next[k]}

Holds(k) ==
  /\ Busy(k) /\ ~Busy(k)'
  /\ out'[k] = out[k] /\ next'[k] = next[k]
  /\ buffer'[k] \in {buffer[k], <<next[k]>>, Append(buffer[k], next[k])}
  /\ \A t \in Flushers : todo'[t][k] = todo[t][k]

Leaves(k) ==
  /\ Busy(k) /\ pc[Carrier(k)] = "deliver" /\ ~Busy(k)'
  /\ out'[k] = Append(out[k], next[k]) /\ next'[k] = next[k]
  /\ buffer'[k] = buffer[k]
  /\ \A t \in Flushers : todo'[t][k] = todo[t][k]

Swaps(k) ==
  /\ out'[k] = out[k] /\ next'[k] = next[k] /\ Busy(k)' = Busy(k)
  /\ Cleared(k)' \subseteq Cleared(k)
  /\ buffer'[k] = <<>>
  /\ \E t \in Flushers : /\ todo[t][k] = <<>> /\ todo'[t][k] = buffer[k]
                         /\ \A u \in Flushers : u # t => todo'[u] = todo[u]

Replays(k) ==
  /\ next'[k] = next[k] /\ Busy(k)' = Busy(k) /\ Cleared(k)' = Cleared(k)
  /\ buffer[k] = <<>> /\ buffer'[k] = <<>>
  /\ \E t \in Flushers :
       /\ todo[t][k] # <<>>
       /\ out'[k] = Append(out[k], Head(todo[t][k])) /\ todo'[t][k] = Tail(todo[t][k])
       /\ \A u \in Flushers : u # t => todo[u][k] = <<>> /\ todo'[u] = todo[u]

TopicStep(k) ==
  \/ Rests(k) \/ Accepts(k) \/ Clears(k) \/ Holds(k) \/ Leaves(k) \/ Swaps(k) \/ Replays(k)

LEMMA CarrierFacts ==
  ASSUME NEW k \in Unlimited
  PROVE  /\ Carrier(k) \in Workers /\ k \in Topics /\ k # 0
         /\ HandCustody => \A w \in Workers : hand[w].topic = k => w = Carrier(k)
<1>1. k \in Topics /\ k \notin Limited /\ k # 0
  BY TopicFacts DEF Unlimited
<1>2. k \in RecvTopics \/ k \notin RecvTopics
  OBVIOUS
<1> QED
  BY <1>1, <1>2, TopicFacts, ThreadFacts DEF Carrier, HandCustody

\* A step that leaves topic k, its carrier and its replay alone.
LEMMA RestsAside ==
  ASSUME NEW k \in Unlimited, SameStore(k), next'[k] = next[k],
         hand'[Carrier(k)].topic = k => hand[Carrier(k)].topic = k,
         pc'[Carrier(k)] = "deliver" => pc[Carrier(k)] = "deliver"
  PROVE  Rests(k)
BY DEF Rests, Busy, Cleared

LEMMA StepTopic ==
  ASSUME TypeOK, Coordination, MessageInv, [Next]_vars, NEW k \in Unlimited
  PROVE  TopicStep(k)
<1> USE ThreadFacts
<1> DEFINE c == Carrier(k)
<1>0. /\ c \in Workers /\ c \in Flushers /\ c \in Threads /\ k \in Topics /\ k # 0
      /\ HandCustody /\ StoreCustody
      /\ \A w \in Workers : hand[w].topic = k => w = c
      /\ \A w \in Workers : w # c => hand[w].topic # k
  BY CarrierFacts DEF MessageInv
<1>1. hand[c].topic = k => hand[c].msg = next[k]
  BY <1>0 DEF MessageInv, CarriedNewest
<1>2. ASSUME NEW j \in SendTopics, SubCallback(j) PROVE TopicStep(k)
  <2>1. /\ SameStore(k) /\ next' = [next EXCEPT ![j] = next[j] + 1]
        /\ pc' = [pc EXCEPT ![Main] = "check"]
        /\ hand'[Main].topic = j /\ \A v \in Workers : v # Main => hand'[v] = hand[v]
    BY <1>2 DEF SubCallback, SameStore, Goto, TypeOK
  <2>2. CASE j = k
    <3>1. c = Main
      BY <2>2, TopicFacts DEF Carrier
    <3> QED
      BY <2>1, <2>2, <3>1 DEF TopicStep, Accepts, Cleared, TypeOK
  <2>3. CASE j # k
    <3>1. next'[k] = next[k] /\ (pc'[c] = "deliver" => pc[c] = "deliver")
      BY <1>0, <2>1, <2>3 DEF TypeOK
    <3>2. hand'[c].topic = k => hand[c].topic = k
      BY <1>0, <2>1, <2>3
    <3> QED
      BY <2>1, <3>1, <3>2, RestsAside DEF TopicStep
  <2> QED
    BY <2>2, <2>3
<1>3. ASSUME NEW j \in RecvTopics, Receive(j) PROVE TopicStep(k)
  <2>1. /\ SameStore(k) /\ next' = [next EXCEPT ![j] = next[j] + 1]
        /\ pc' = [pc EXCEPT ![j] = "check"]
        /\ hand'[j].topic = j /\ \A v \in Workers : v # j => hand'[v] = hand[v]
    BY <1>3 DEF Receive, SameStore, Goto, TypeOK
  <2>2. CASE j = k
    <3>1. c = k
      BY <2>2 DEF Carrier
    <3> QED
      BY <2>1, <2>2, <3>1 DEF TopicStep, Accepts, Cleared, TypeOK
  <2>3. CASE j # k
    <3>1. next'[k] = next[k] /\ (pc'[c] = "deliver" => pc[c] = "deliver")
      BY <1>0, <2>1, <2>3 DEF TypeOK
    <3>2. hand'[c].topic = k => hand[c].topic = k
      BY <1>0, <2>1, <2>3
    <3> QED
      BY <2>1, <3>1, <3>2, RestsAside DEF TopicStep
  <2> QED
    BY <2>2, <2>3
<1>4. ASSUME NEW j \in Limited, SendFuncPop(j) PROVE TopicStep(k)
  <2>1. /\ SameStore(k) /\ next' = next /\ pc' = [pc EXCEPT ![j] = "check"]
        /\ hand'[j].topic = j /\ \A v \in Workers : v # j => hand'[v] = hand[v]
    BY <1>4 DEF SendFuncPop, SameStore, Goto, TypeOK
  <2>2. j # k
    BY DEF Unlimited
  <2>3. hand'[c].topic = k => hand[c].topic = k
    BY <1>0, <2>1, <2>2
  <2>4. pc'[c] = "deliver" => pc[c] = "deliver"
    BY <1>0, <2>1 DEF TypeOK
  <2> QED
    BY <2>1, <2>3, <2>4, RestsAside DEF TopicStep
<1>5. ASSUME NEW w \in Workers, ComesToGate(w) PROVE TopicStep(k)
  <2>1. /\ SameStore(k) /\ next' = next /\ hand' = hand /\ pc' = [pc EXCEPT ![w] = "gate"]
    BY <1>5 DEF ComesToGate, SameStore, pathVars
  <2>2. pc'[c] = "deliver" => pc[c] = "deliver"
    BY <1>0, <2>1 DEF TypeOK
  <2> QED
    BY <2>1, <2>2, RestsAside DEF TopicStep
<1>6. ASSUME NEW w \in Workers, ConsumeByFault(w) PROVE TopicStep(k)
  <2> DEFINE j == hand[w].topic
  <2>1. /\ pc' = [pc EXCEPT ![w] = "idle"] /\ UNCHANGED <<next, out, todo>>
        /\ hand'[w] = NoMessage /\ \A v \in Workers : v # w => hand'[v] = hand[v]
        /\ \A i \in Topics : i # j => buffer'[i] = buffer[i]
    BY <1>0, <1>6, ConsumeEffect
  <2>2. CASE j = k
    <3>1. w = c /\ hand[w].msg = next[k] /\ hand'[c].topic # k
      BY <1>0, <1>1, <2>1, <2>2, NoMessageType
    <3>2. buffer'[k] \in {buffer[k], <<next[k]>>, Append(buffer[k], next[k])}
      <4>1. /\ Policy[k] \in Policies
            /\ Policy[k] = "drop" => buffer'[k] = buffer[k]
            /\ Policy[k] = "latest" => buffer'[k] = <<hand[w].msg>>
            /\ Policy[k] = "buffer" => buffer'[k] = Append(buffer[k], hand[w].msg)
        BY <1>0, <1>6, <2>2, ConsumeEffect
      <4> QED
        BY <3>1, <4>1 DEF Policies
    <3> QED
      BY <2>1, <2>2, <3>1, <3>2 DEF TopicStep, Holds, Busy
  <2>3. CASE j # k
    <3>1. SameStore(k)
      BY <1>0, <2>1, <2>3 DEF SameStore
    <3>2. hand'[c].topic = k => hand[c].topic = k
      BY <1>0, <2>1, NoMessageType
    <3>3. pc'[c] = "deliver" => pc[c] = "deliver"
      BY <1>0, <2>1 DEF TypeOK
    <3> QED
      BY <2>1, <3>1, <3>2, <3>3, RestsAside DEF TopicStep
  <2> QED
    BY <2>2, <2>3
<1>7. ASSUME NEW w \in Workers, PassFaultGate(w) PROVE TopicStep(k)
  <2>1. /\ SameStore(k) /\ next' = next /\ UNCHANGED faultVars
        /\ pc[w] = "gate" /\ ~recovering /\ ~FaultWindowOpen
        /\ pc' = [pc EXCEPT ![w] = "check"] \/ pc' = [pc EXCEPT ![w] = "deliver"]
    BY <1>7 DEF PassFaultGate, AtGate, Goto, SameStore
  <2>2. hand'[c].topic = hand[c].topic
    BY <1>0, <1>7, PassKeepsMessage
  <2>3. CASE pc'[c] = "deliver" /\ pc[c] # "deliver" /\ hand[c].topic = k
    <3>1. w = c
      BY <1>0, <2>1, <2>3 DEF TypeOK
    <3> QED
      BY <2>1, <2>2, <2>3, <3>1 DEF TopicStep, Clears, Busy, Cleared
  <2>4. CASE pc'[c] = "deliver" => pc[c] = "deliver"
    BY <2>1, <2>2, <2>4, RestsAside DEF TopicStep
  <2>5. CASE hand[c].topic # k
    BY <2>1, <2>2, <2>5 DEF TopicStep, Rests, Busy, Cleared
  <2> QED
    BY <2>3, <2>4, <2>5
<1>8. ASSUME NEW w \in Workers, Deliver(w) PROVE TopicStep(k)
  <2> DEFINE j == hand[w].topic
  <2>1. /\ pc[w] = "deliver" /\ pc' = [pc EXCEPT ![w] = "idle"]
        /\ UNCHANGED <<next, buffer, todo>>
        /\ hand'[w] = NoMessage /\ \A v \in Workers : v # w => hand'[v] = hand[v]
        /\ \A i \in Topics : i # j => out'[i] = out[i]
    BY <1>0, <1>8, DeliverEffect
  <2>2. CASE j = k
    <3>1. w = c /\ hand[w].msg = next[k] /\ hand'[c].topic # k
      BY <1>0, <1>1, <2>1, <2>2, NoMessageType
    <3>2. ~(w = Main /\ k \in Limited)
      BY DEF Unlimited
    <3>3. out'[k] = Append(out[k], next[k])
      BY <1>0, <1>8, <2>2, <3>1, <3>2, DeliverEffect
    <3> QED
      BY <2>1, <2>2, <3>1, <3>3 DEF TopicStep, Leaves, Busy
  <2>3. CASE j # k
    <3>1. SameStore(k)
      BY <1>0, <2>1, <2>3 DEF SameStore
    <3>2. hand'[c].topic = k => hand[c].topic = k
      BY <1>0, <2>1, NoMessageType
    <3>3. pc'[c] = "deliver" => pc[c] = "deliver"
      BY <1>0, <2>1 DEF TypeOK
    <3> QED
      BY <2>1, <3>1, <3>2, <3>3, RestsAside DEF TopicStep
  <2> QED
    BY <2>2, <2>3
<1>9. ASSUME NEW t \in Flushers, RecoveryBegins(t) PROVE TopicStep(k)
  <2>1. SameStore(k) /\ next' = next /\ hand' = hand /\ pc' = [pc EXCEPT ![t] = "swap"]
    BY <1>9 DEF RecoveryBegins, BeginRecovery, Goto, SameStore, pathVars
  <2>2. pc'[c] = "deliver" => pc[c] = "deliver"
    BY <1>0, <2>1 DEF TypeOK
  <2> QED
    BY <2>1, <2>2, RestsAside DEF TopicStep
<1>10. ASSUME NEW t \in Flushers, SwapFaultBuffers(t) PROVE TopicStep(k)
  <2>1. /\ UNCHANGED <<next, hand, out>> /\ pc' = [pc EXCEPT ![t] = "replay"]
        /\ buffer'[k] = <<>> /\ todo[t][k] = <<>> /\ todo'[t][k] = buffer[k]
        /\ \A u \in Flushers : u # t => todo'[u] = todo[u]
    BY <1>0, <1>10 DEF SwapFaultBuffers, Goto, StoreCustody, EmptyBuffers, TypeOK, pathVars
  <2>2. pc'[c] = "deliver" => pc[c] = "deliver"
    BY <1>0, <2>1 DEF TypeOK
  <2>3. Busy(k)' = Busy(k) /\ Cleared(k)' \subseteq Cleared(k)
    BY <2>1, <2>2 DEF Busy, Cleared
  <2> QED
    BY <2>1, <2>3 DEF TopicStep, Swaps
<1>11. ASSUME NEW t \in Flushers, ReplayOne(t) PROVE TopicStep(k)
  <2>1. PICK j \in Topics :
          /\ todo[t][j] # <<>>
          /\ todo'[t][j] = Tail(todo[t][j])
          /\ \A i \in Topics : i # j => todo'[t][i] = todo[t][i] /\ out'[i] = out[i]
          /\ j \notin Limited => out'[j] = Append(out[j], Head(todo[t][j]))
    BY <1>11, ReplayEffect
  <2>2. /\ pc[t] = "replay" /\ UNCHANGED <<pc, hand, next, buffer>>
        /\ \A u \in Flushers : u # t => todo'[u] = todo[u]
    BY <1>11, ReplayEffect
  <2>3. CASE j # k
    <3>1. SameStore(k)
      BY <1>0, <2>1, <2>2, <2>3 DEF SameStore
    <3> QED
      BY <2>2, <3>1, RestsAside DEF TopicStep
  <2>4. CASE j = k
    <3>1. Busy(k)' = Busy(k) /\ Cleared(k)' = Cleared(k)
      BY <2>2 DEF Busy, Cleared
    <3>2. ASSUME NEW u \in Flushers, u # t PROVE todo[u][k] = <<>>
      <4>1. pc[u] # "replay"
        BY <2>2, <3>2 DEF Coordination, SingleFlusher, Flushing
      <4> QED
        BY <1>0, <4>1 DEF StoreCustody, EmptyBuffers
    <3>3. buffer[k] = <<>>
      BY <1>0, <2>2 DEF StoreCustody, EmptyBuffers
    <3> QED
      BY <2>1, <2>2, <2>4, <3>1, <3>2, <3>3 DEF TopicStep, Replays, Unlimited
  <2> QED
    BY <2>3, <2>4
<1>12. ASSUME NEW t \in Flushers, RecoveryEnds(t) PROVE TopicStep(k)
  <2>1. SameStore(k) /\ next' = next /\ hand' = hand
    BY <1>12 DEF RecoveryEnds, SameStore, pathVars
  <2>2. pc'[c] = "deliver" => pc[c] = "deliver"
    BY <1>0, <1>12 DEF RecoveryEnds, CarryPlaces, TypeOK
  <2> QED
    BY <2>1, <2>2, RestsAside DEF TopicStep
<1>13. ASSUME NEW t \in {Control, Timer}, Start(t) PROVE TopicStep(k)
  <2>1. buffer' = buffer
    BY <1>13, StartFindsQuiet DEF Start, StartNodeFault
  <2>2. /\ SameStore(k) /\ next' = next /\ hand' = hand
        /\ pc' = [pc EXCEPT ![t] = IF running THEN "notifyOne" ELSE "started"]
    BY <1>13, <2>1 DEF Start, Goto, SameStore, pathVars
  <2>3. pc'[c] = "deliver" => pc[c] = "deliver"
    BY <1>0, <2>2 DEF TypeOK
  <2> QED
    BY <2>2, <2>3, RestsAside DEF TopicStep
<1>14. ASSUME Aside PROVE TopicStep(k)
  <2>1. SameStore(k) /\ next' = next /\ hand' = hand
    BY <1>14 DEF Aside, SameStore, pathVars
  <2>2. pc'[c] = "deliver" => pc[c] = "deliver"
    BY <1>0, <1>14 DEF Aside, CarryPlaces
  <2> QED
    BY <2>1, <2>2, RestsAside DEF TopicStep
<1> QED
  BY <1>2, <1>3, <1>4, <1>5, <1>6, <1>7, <1>8, <1>9, <1>10, <1>11, <1>12, <1>13, <1>14,
     StepMoves

-----------------------------------------------------------------------------
(* What the fault holds back of a topic after a step. *)

LEMMA HeldTypes ==
  ASSUME TypeOK, NEW k \in Topics
  PROVE  /\ next[k] \in Nat /\ out[k] \in Seq(Nat) /\ buffer[k] \in Seq(Nat)
         /\ \A t \in Flushers : todo[t][k] \in Seq(Nat)
         /\ Held(k) \subseteq Nat /\ ToSet(out[k]) \subseteq Nat
<1>1. /\ next[k] \in Nat /\ out[k] \in Seq(Nat) /\ buffer[k] \in Seq(Nat)
      /\ \A t \in Flushers : todo[t][k] \in Seq(Nat)
  BY DEF TypeOK
<1> QED
  BY <1>1, ElementType DEF Held, Replayed

LEMMA HeldSame ==
  ASSUME NEW k, SameStore(k)
  PROVE  Held(k)' = Held(k)
BY ReplayedSame DEF SameStore, Held

\* Swapping the buffers out moves what is held and keeps all of it.
LEMMA HeldSwap ==
  ASSUME NEW k, Swaps(k)
  PROVE  Held(k)' = Held(k)
<1>1. PICK t \in Flushers : /\ todo[t][k] = <<>> /\ todo'[t][k] = buffer[k]
                            /\ \A u \in Flushers : u # t => todo'[u] = todo[u]
  BY DEF Swaps
<1>2. Replayed(k)' = Replayed(k) \cup ToSet(buffer[k])
  BY <1>1, ReplayedAdd
<1> QED
  BY <1>2, EmptySet DEF Swaps, Held

\* A replay takes the oldest of what is held.
LEMMA HeldReplay ==
  ASSUME TypeOK, NEW k \in Topics, Replays(k), \A t \in Flushers : Ascending(todo[t][k])
  PROVE  \E m \in Nat : /\ out'[k] = Append(out[k], m)
                        /\ Held(k) = Held(k)' \cup {m}
                        /\ AllBelow({m}, Held(k)')
<1>1. PICK t \in Flushers :
        /\ todo[t][k] # <<>>
        /\ out'[k] = Append(out[k], Head(todo[t][k])) /\ todo'[t][k] = Tail(todo[t][k])
        /\ \A u \in Flushers : u # t => todo[u][k] = <<>> /\ todo'[u] = todo[u]
  BY DEF Replays
<1> DEFINE m == Head(todo[t][k])
<1>2. todo[t][k] \in Seq(Nat) /\ m \in Nat
  BY <1>1, HeldTypes, HeadTailSet
<1>3. Replayed(k) = Replayed(k)' \cup {m}
  BY <1>1, <1>2, ReplayedTake
<1>4. buffer[k] = <<>> /\ buffer'[k] = <<>>
  BY DEF Replays
<1>5. Held(k) = Held(k)' \cup {m}
  BY <1>3, <1>4 DEF Held
<1>6. Held(k)' = ToSet(Tail(todo[t][k]))
  <2>1. \A u \in Flushers : u # t => ToSet(todo'[u][k]) = {}
    BY <1>1, EmptySet
  <2>2. Replayed(k)' = ToSet(todo'[t][k])
    BY <2>1 DEF Replayed
  <2> QED
    BY <1>1, <1>4, <2>2, EmptySet DEF Held
<1>7. AllBelow({m}, Held(k)')
  BY <1>1, <1>2, <1>6, AscendingTail
<1> QED
  BY <1>1, <1>2, <1>5, <1>7

-----------------------------------------------------------------------------
(* Order. What is held of a topic is in order, and the message under way is newer
   than all that is held or out; on a send topic all that is held is newer than all
   that is out. *)

OrderedAt(k) ==
  /\ Ascending(buffer[k]) /\ \A t \in Flushers : Ascending(todo[t][k])
  /\ Busy(k) => AllBelow(ToSet(out[k]) \cup Held(k), {next[k]})
Ordered == \A k \in Unlimited : OrderedAt(k)

SendOrderedAt(k) == Ascending(out[k]) /\ AllBelow(ToSet(out[k]), Held(k))
SendOrdered == \A k \in SendTopics \ Limited : SendOrderedAt(k)

LEMMA InitOrder == Init => Ordered /\ SendOrdered
<1> SUFFICES ASSUME Init PROVE Ordered /\ SendOrdered
  OBVIOUS
<1>1. ASSUME NEW k \in Topics
      PROVE  buffer[k] = <<>> /\ out[k] = <<>> /\ \A t \in Flushers : todo[t][k] = <<>>
  BY DEF Init, EmptyBuffers
<1>2. ASSUME NEW k \in Unlimited PROVE OrderedAt(k)
  <2>1. ~Busy(k)
    BY CarrierFacts DEF Init, Busy, NoMessage
  <2> QED
    BY <1>1, <2>1, AscendingShort, CarrierFacts DEF OrderedAt
<1>3. ASSUME NEW k \in SendTopics \ Limited PROVE SendOrderedAt(k)
  <2>1. ToSet(out[k]) = {} /\ Ascending(out[k])
    BY <1>1, ThreadFacts, EmptySet, AscendingShort
  <2> QED
    BY <2>1 DEF SendOrderedAt, AllBelow
<1> QED
  BY <1>2, <1>3 DEF Ordered, SendOrdered

LEMMA StepOrderedAt ==
  ASSUME TypeOK, MessageInv, NEW k \in Unlimited, TopicStep(k), OrderedAt(k)
  PROVE  OrderedAt(k)'
<1>0. /\ k \in Topics
      /\ next[k] \in Nat /\ out[k] \in Seq(Nat) /\ buffer[k] \in Seq(Nat)
      /\ \A t \in Flushers : todo[t][k] \in Seq(Nat)
      /\ Held(k) \subseteq Nat /\ ToSet(out[k]) \subseteq Nat
  BY HeldTypes DEF Unlimited
<1>1. CASE Rests(k) \/ Clears(k)
  <2>1. SameStore(k) /\ next'[k] = next[k] /\ (Busy(k)' => Busy(k))
    BY <1>1 DEF Rests, Clears
  <2>2. Held(k)' = Held(k)
    BY <2>1, HeldSame
  <2> QED
    BY <2>1, <2>2 DEF OrderedAt, SameStore
<1>2. CASE Accepts(k)
  <2>1. SameStore(k) /\ next'[k] = next[k] + 1 /\ Held(k)' = Held(k)
    BY <1>2, HeldSame DEF Accepts
  <2>2. ToSet(out[k]) \cup Held(k) \subseteq 1..next[k]
    BY <1>0, KnownPlaces DEF MessageInv, KnownBound, Held
  <2>3. AllBelow(ToSet(out[k]) \cup Held(k), {next[k] + 1})
    BY <1>0, <2>2 DEF AllBelow
  <2> QED
    BY <2>1, <2>3 DEF OrderedAt, SameStore
<1>3. CASE Holds(k)
  <2>1. AllBelow(ToSet(buffer[k]), {next[k]})
    BY <1>3 DEF Holds, OrderedAt, Held, AllBelow
  <2>2. Ascending(Append(buffer[k], next[k])) /\ Ascending(<<next[k]>>)
    BY <1>0, <2>1, AscendingAppend, AscendingShort DEF OrderedAt
  <2>3. Ascending(buffer'[k])
    BY <1>3, <2>2 DEF Holds, OrderedAt
  <2> QED
    BY <1>3, <2>3 DEF Holds, OrderedAt
<1>4. CASE Leaves(k)
  BY <1>4 DEF Leaves, OrderedAt
<1>5. CASE Swaps(k)
  <2>1. Held(k)' = Held(k)
    BY <1>5, HeldSwap
  <2>2. Ascending(buffer'[k]) /\ \A t \in Flushers : Ascending(todo'[t][k])
    BY <1>5, AscendingShort DEF Swaps, OrderedAt
  <2> QED
    BY <1>5, <2>1, <2>2 DEF Swaps, OrderedAt
<1>6. CASE Replays(k)
  <2>1. PICK m \in Nat : out'[k] = Append(out[k], m) /\ Held(k) = Held(k)' \cup {m}
    BY <1>0, <1>6, HeldReplay DEF OrderedAt
  <2>2. ToSet(out'[k]) \cup Held(k)' = ToSet(out[k]) \cup Held(k)
    <3>1. ToSet(out'[k]) = ToSet(out[k]) \cup {m}
      BY <1>0, <2>1, AppendSet
    <3> QED
      BY <2>1, <3>1
  <2>3. Ascending(buffer'[k]) /\ \A t \in Flushers : Ascending(todo'[t][k])
    <3>1. PICK t \in Flushers :
            /\ todo[t][k] # <<>> /\ todo'[t][k] = Tail(todo[t][k])
            /\ \A u \in Flushers : u # t => todo'[u] = todo[u]
      BY <1>6 DEF Replays
    <3>2. Ascending(todo'[t][k])
      BY <1>0, <3>1, AscendingTail DEF OrderedAt
    <3> QED
      BY <1>6, <3>1, <3>2, AscendingShort DEF Replays, OrderedAt
  <2> QED
    BY <1>6, <2>2, <2>3 DEF Replays, OrderedAt
<1> QED
  BY <1>1, <1>2, <1>3, <1>4, <1>5, <1>6 DEF TopicStep

LEMMA StepSendOrderedAt ==
  ASSUME TypeOK, GateKept, NEW k \in SendTopics \ Limited, TopicStep(k),
         OrderedAt(k), SendOrderedAt(k)
  PROVE  SendOrderedAt(k)'
<1>0. /\ k \in Topics /\ k \in Unlimited /\ Carrier(k) = Main
      /\ next[k] \in Nat /\ out[k] \in Seq(Nat) /\ buffer[k] \in Seq(Nat)
      /\ Held(k) \subseteq Nat /\ ToSet(out[k]) \subseteq Nat
  BY HeldTypes, TopicFacts, ThreadFacts DEF Unlimited, Carrier
<1>1. CASE Rests(k) \/ Clears(k) \/ Accepts(k)
  <2>1. SameStore(k)
    BY <1>1 DEF Rests, Clears, Accepts
  <2> QED
    BY <2>1, HeldSame DEF SendOrderedAt, SameStore
<1>2. CASE Holds(k)
  <2>1. AllBelow(ToSet(out[k]), Held(k) \cup {next[k]})
    BY <1>2 DEF Holds, OrderedAt, SendOrderedAt, AllBelow
  <2>2. ToSet(buffer'[k]) \subseteq ToSet(buffer[k]) \cup {next[k]}
    BY <1>0, <1>2, AppendSet, SingletonSet DEF Holds
  <2>3. Held(k)' \subseteq Held(k) \cup {next[k]}
    <3>1. Replayed(k)' = Replayed(k)
      BY <1>2, ReplayedSame DEF Holds
    <3> QED
      BY <2>2, <3>1 DEF Held
  <2> QED
    BY <1>2, <2>1, <2>3 DEF Holds, SendOrderedAt, AllBelow
<1>3. CASE Leaves(k)
  <2>1. buffer[k] = <<>> /\ \A t \in Flushers : todo[t][k] = <<>>
    BY <1>0, <1>3 DEF Leaves, Busy, GateKept
  <2>2. Held(k)' = {}
    BY <1>3, <2>1, EmptySet DEF Leaves, Held, Replayed
  <2>3. AllBelow(ToSet(out[k]), {next[k]})
    BY <1>3 DEF Leaves, OrderedAt, AllBelow
  <2>4. Ascending(out'[k])
    BY <1>0, <1>3, <2>3, AscendingAppend DEF Leaves, SendOrderedAt
  <2> QED
    BY <2>2, <2>4 DEF SendOrderedAt, AllBelow
<1>4. CASE Swaps(k)
  BY <1>4, HeldSwap DEF Swaps, SendOrderedAt
<1>5. CASE Replays(k)
  <2>1. PICK m \in Nat : /\ out'[k] = Append(out[k], m) /\ Held(k) = Held(k)' \cup {m}
                         /\ AllBelow({m}, Held(k)')
    BY <1>0, <1>5, HeldReplay DEF OrderedAt
  <2>2. AllBelow(ToSet(out[k]), {m}) /\ AllBelow(ToSet(out[k]), Held(k)')
    BY <2>1 DEF SendOrderedAt, AllBelow
  <2>3. Ascending(out'[k])
    BY <1>0, <2>1, <2>2, AscendingAppend DEF SendOrderedAt
  <2>4. ToSet(out'[k]) = ToSet(out[k]) \cup {m}
    BY <1>0, <2>1, AppendSet
  <2> QED
    BY <2>1, <2>2, <2>3, <2>4 DEF SendOrderedAt, AllBelow
<1> QED
  BY <1>1, <1>2, <1>3, <1>4, <1>5 DEF TopicStep

LEMMA StepOrder ==
  /\ TypeOK /\ Coordination /\ MessageInv /\ GateKept
  /\ Ordered /\ SendOrdered /\ [Next]_vars
  => Ordered' /\ SendOrdered'
<1> SUFFICES ASSUME TypeOK, Coordination, MessageInv, GateKept, Ordered, SendOrdered,
                    [Next]_vars
             PROVE  Ordered' /\ SendOrdered'
  OBVIOUS
<1>1. Ordered'
  BY StepTopic, StepOrderedAt DEF Ordered
<1>2. ASSUME NEW k \in SendTopics \ Limited PROVE SendOrderedAt(k)'
  <2>1. k \in Unlimited
    BY ThreadFacts DEF Unlimited
  <2> QED
    BY <2>1, StepTopic, StepSendOrderedAt DEF Ordered, SendOrdered
<1> QED
  BY <1>1, <1>2 DEF SendOrdered

\* What SendOrderKept rests on, made inductive: per topic without limit, what is out, what
\* is held back and what a thread carries are in order, for receive and for send topics.
THEOREM OrderHolds == ~ScheduledFault => (Spec => [](Ordered /\ SendOrdered))
<1> SUFFICES ASSUME ~ScheduledFault PROVE Spec => [](Ordered /\ SendOrdered)
  OBVIOUS
<1> QED
  BY InitOrder, StepOrder, MessagesHold, GateHolds, TypeCorrect, CoordinationHolds, PTL
  DEF Spec

\* A send topic without limit never reorders its messages, whatever faults come and
\* wherever each thread is when they do.
THEOREM SendKeepsOrder == ~ScheduledFault => (Spec => []SendOrderKept)
<1> SUFFICES ASSUME ~ScheduledFault PROVE Spec => []SendOrderKept
  OBVIOUS
<1>1. TypeOK /\ SendOrdered => SendOrderKept
  <2> SUFFICES ASSUME TypeOK, SendOrdered, NEW k \in SendTopics \ Limited
               PROVE  Overtakers(k) = {}
    BY DEF SendOrderKept
  <2>1. out[k] \in Seq(Nat) /\ Ascending(out[k])
    BY ThreadFacts DEF TypeOK, SendOrdered, SendOrderedAt
  <2> QED
    BY <2>1, OvertakersDef, AscendingOvertaking
<1> QED
  BY <1>1, OrderHolds, TypeCorrect, PTL

-----------------------------------------------------------------------------
(* How many messages get ahead. *)

\* The messages of topic k that have overtaken another one, or will have once what is
\* held gets out.
Ahead(k) ==
  Overtakers(k) \cup {m \in ToSet(out[k]) \cup Cleared(k) : \E n \in Held(k) : n < m}

\* The fault there is has let none past yet: its window is open, or it is over and
\* the carrier of topic k is still at its gate.
Slack(k) ==
  active /\ (~expired \/ (Busy(k) /\ pc[Carrier(k)] \in {"gate", "notify"}))

AheadBounded ==
  running => \A k \in Unlimited :
    /\ Cardinality(Ahead(k)) <= faults
    /\ Slack(k) => Cardinality(Ahead(k)) < faults

LEMMA AheadFinite ==
  ASSUME TypeOK, MessageInv, NEW k \in Unlimited
  PROVE  /\ IsFiniteSet(Ahead(k)) /\ Cardinality(Ahead(k)) \in Nat
         /\ Ahead(k) \subseteq ToSet(out[k]) \cup Cleared(k)
         /\ next[k] \in Nat
<1>1. k \in Topics /\ next[k] \in Nat /\ out[k] \in Seq(Nat)
  BY HeldTypes DEF Unlimited
<1>2. Overtakers(k) \subseteq ToSet(out[k])
  BY ToSetDef DEF Overtakers, Overtaking
<1>3. Ahead(k) \subseteq ToSet(out[k]) \cup Cleared(k)
  BY <1>2 DEF Ahead
<1>4. ToSet(out[k]) \subseteq 1..next[k]
  BY <1>1, KnownPlaces DEF MessageInv, KnownBound
<1>5. Ahead(k) \subseteq 0..next[k]
  BY <1>1, <1>3, <1>4 DEF Cleared
<1>6. IsFiniteSet(Ahead(k))
  <2>1. IsFiniteSet(0..next[k])
    <3>1. next[k] \in Int /\ 0 \in Int
      BY <1>1
    <3> QED
      BY ONLY <3>1, FS_Interval
  <2>2. Ahead(k) \in SUBSET (0..next[k])
    BY <1>5
  <2> QED
    BY <2>1, <2>2, FS_Subset
<1> QED
  BY <1>1, <1>3, <1>6, FS_CardinalityType

\* No step but the passing of the gate after the window adds to what gets ahead.
LEMMA StepAhead ==
  ASSUME TypeOK, Coordination, MessageInv, running, NEW k \in Unlimited, TopicStep(k),
         OrderedAt(k)
  PROVE  \/ Ahead(k)' \subseteq Ahead(k)
         \/ /\ Ahead(k)' \subseteq Ahead(k) \cup {next[k]}
            /\ Slack(k) /\ ~Slack(k)' /\ faults' = faults
<1>0. /\ k \in Topics /\ next[k] \in Nat /\ out[k] \in Seq(Nat) /\ buffer[k] \in Seq(Nat)
      /\ Held(k) \subseteq Nat /\ ToSet(out[k]) \subseteq Nat
  BY HeldTypes DEF Unlimited
<1>1. /\ Overtakers(k) = Overtaking(out[k]) /\ Overtakers(k)' = Overtaking(out'[k])
      /\ Ahead(k) = Overtaking(out[k])
                    \cup {m \in ToSet(out[k]) \cup Cleared(k) : \E n \in Held(k) : n < m}
      /\ Ahead(k)' = Overtaking(out'[k])
                     \cup {m \in ToSet(out'[k]) \cup Cleared(k)' : \E n \in Held(k)' : n < m}
  BY OvertakersDef, OvertakersDefNext DEF Ahead
<1>2. CASE out'[k] = out[k] /\ Held(k)' = Held(k) /\ Cleared(k)' \subseteq Cleared(k)
  BY <1>1, <1>2
<1>3. CASE Rests(k) \/ Accepts(k) \/ Swaps(k)
  <2>1. Held(k)' = Held(k)
    BY <1>3, HeldSame, HeldSwap DEF Rests, Accepts
  <2>2. out'[k] = out[k] /\ Cleared(k)' \subseteq Cleared(k)
    BY <1>3 DEF Rests, Accepts, Swaps, SameStore
  <2> QED
    BY <1>2, <2>1, <2>2
<1>4. CASE Clears(k)
  <2>1. out'[k] = out[k] /\ Held(k)' = Held(k) /\ Cleared(k)' = {next[k]}
    BY <1>4, HeldSame DEF Clears, SameStore
  <2>2. Ahead(k)' \subseteq Ahead(k) \cup {next[k]}
    BY <1>1, <2>1
  <2>3. CASE active
    <3>1. Slack(k) /\ ~Slack(k)' /\ faults' = faults
      BY <1>4, <2>3 DEF Clears, Slack, FaultWindowOpen, faultVars
    <3> QED
      BY <2>2, <3>1
  <2>4. CASE ~active
    <3>1. buffer = EmptyBuffers /\ \A t \in Flushers : todo[t] = EmptyBuffers
      BY <1>4, <2>4, QuietBuffers DEF Clears, MessageInv
    <3>2. buffer[k] = <<>> /\ \A t \in Flushers : todo[t][k] = <<>>
      BY <1>0, <3>1 DEF EmptyBuffers
    <3>3. Held(k) = {}
      BY <3>2, EmptySet DEF Held, Replayed
    <3> QED
      BY <1>1, <2>1, <3>3
  <2> QED
    BY <2>3, <2>4
<1>5. CASE Holds(k)
  <2>1. AllBelow(ToSet(out[k]), {next[k]}) /\ Cleared(k)' = {} /\ out'[k] = out[k]
    BY <1>5 DEF Holds, OrderedAt, AllBelow, Cleared
  <2>2. ToSet(buffer'[k]) \subseteq ToSet(buffer[k]) \cup {next[k]}
    BY <1>0, <1>5, AppendSet, SingletonSet DEF Holds
  <2>3. Held(k)' \subseteq Held(k) \cup {next[k]}
    <3>1. Replayed(k)' = Replayed(k)
      BY <1>5, ReplayedSame DEF Holds
    <3> QED
      BY <2>2, <3>1 DEF Held
  <2>4. ASSUME NEW m \in ToSet(out[k]), NEW n \in Held(k)', n < m PROVE n \in Held(k)
    <3>1. m < next[k] /\ m \in Nat
      BY <1>0, <2>1 DEF AllBelow
    <3>2. n # next[k]
      BY <1>0, <2>4, <3>1
    <3> QED
      BY <2>3, <3>2
  <2> QED
    BY <1>1, <2>1, <2>4
<1>6. CASE Leaves(k)
  <2>1. /\ Cleared(k) = {next[k]} /\ Cleared(k)' = {} /\ out'[k] = Append(out[k], next[k])
        /\ AllBelow(ToSet(out[k]), {next[k]})
    BY <1>6 DEF Leaves, OrderedAt, AllBelow, Cleared
  <2>2. Held(k)' = Held(k)
    BY <1>6, ReplayedSame DEF Leaves, Held
  <2>3. Overtaking(out'[k]) = Overtaking(out[k])
    <3>1. ASSUME NEW n \in ToSet(out[k]) PROVE ~(next[k] < n)
      <4>1. n < next[k] /\ n \in Nat
        BY <1>0, <2>1 DEF AllBelow
      <4> QED
        BY <1>0, <4>1
    <3>2. Overtaking(Append(out[k], next[k]))
            = Overtaking(out[k]) \cup {n \in ToSet(out[k]) : next[k] < n}
      BY <1>0, OvertakingAppend
    <3> QED
      BY <2>1, <3>1, <3>2
  <2>4. ToSet(out'[k]) = ToSet(out[k]) \cup {next[k]}
    BY <1>0, <2>1, AppendSet
  <2> QED
    BY <1>1, <2>1, <2>2, <2>3, <2>4
<1>7. CASE Replays(k)
  <2>1. PICK h \in Nat : /\ out'[k] = Append(out[k], h) /\ Held(k) = Held(k)' \cup {h}
                         /\ AllBelow({h}, Held(k)')
    BY <1>0, <1>7, HeldReplay DEF OrderedAt
  <2>2. Overtaking(out'[k]) = Overtaking(out[k]) \cup {n \in ToSet(out[k]) : h < n}
    BY <1>0, <2>1, OvertakingAppend
  <2>3. ToSet(out'[k]) = ToSet(out[k]) \cup {h} /\ Cleared(k)' = Cleared(k)
    BY <1>0, <1>7, <2>1, AppendSet DEF Replays
  <2>4. ASSUME NEW n \in Held(k)' PROVE ~(n < h)
    <3>1. h < n /\ n \in Nat
      BY <1>0, <2>1 DEF AllBelow
    <3> QED
      BY <2>1, <3>1
  <2> QED
    BY <1>1, <2>1, <2>2, <2>3, <2>4
<1> QED
  BY <1>3, <1>4, <1>5, <1>6, <1>7 DEF TopicStep

\* Only a new fault gives a topic slack.
LEMMA StepSlack ==
  ASSUME TypeOK, Coordination, MessageInv, [Next]_vars, running', NEW k \in Unlimited
  PROVE  /\ running
         /\ faults' \in {faults, faults + 1}
         /\ Slack(k)' => Slack(k) \/ faults' = faults + 1
<1> DEFINE c == Carrier(k)
           Goal == /\ running
                   /\ faults' \in {faults, faults + 1}
                   /\ Slack(k)' => Slack(k) \/ faults' = faults + 1
<1> USE ThreadFacts
<1>0. c \in Workers /\ c \in Flushers /\ c \in Threads /\ k \in Topics
  BY CarrierFacts
<1>1. ASSUME running, faults' = faults, active' => active, expired => expired',
             hand'[c].topic = k /\ pc'[c] \in {"gate", "notify"} /\ active'
               => hand[c].topic = k /\ (pc[c] \in {"gate", "notify"} \/ ~expired)
      PROVE  Goal
  BY <1>1 DEF Slack, Busy
<1>2. ASSUME NEW w \in Threads, NEW place \in {"check", "idle", "deliver"}, UNCHANGED faultVars,
             pc' = [pc EXCEPT ![w] = place],
             \A v \in Workers : v # w => hand'[v].topic = hand[v].topic
      PROVE  Goal
  <2>1. running /\ faults' = faults /\ active' = active /\ expired' = expired
    BY <1>2 DEF faultVars
  <2>2. CASE w = c
    BY <1>0, <1>1, <1>2, <2>1, <2>2 DEF TypeOK
  <2>3. CASE w # c
    BY <1>0, <1>1, <1>2, <2>1, <2>3 DEF TypeOK
  <2> QED
    BY <2>2, <2>3
<1>3. ASSUME NEW j \in SendTopics, SubCallback(j) PROVE Goal
  BY <1>2, <1>3 DEF SubCallback, Goto, TypeOK
<1>4. ASSUME NEW j \in RecvTopics, Receive(j) PROVE Goal
  <2>1. j \in Threads
    OBVIOUS
  <2> QED
    BY <1>2, <1>4, <2>1 DEF Receive, Goto, TypeOK
<1>5. ASSUME NEW j \in Limited, SendFuncPop(j) PROVE Goal
  <2>1. j \in Threads
    OBVIOUS
  <2> QED
    BY <1>2, <1>5, <2>1 DEF SendFuncPop, Goto, TypeOK
<1>6. ASSUME NEW w \in Workers, ComesToGate(w) PROVE Goal
  <2>1. /\ (pc[w] = "check" /\ ~FaultExpired) \/ pc[w] = "notify"
        /\ pc' = [pc EXCEPT ![w] = "gate"]
        /\ UNCHANGED <<running, active, expired, faults, hand>>
    BY <1>6 DEF ComesToGate, faultVars, pathVars
  <2>2. CASE w = c
    BY <1>0, <1>1, <2>1, <2>2 DEF FaultExpired
  <2>3. CASE w # c
    BY <1>0, <1>1, <2>1, <2>3 DEF TypeOK
  <2> QED
    BY <2>2, <2>3
<1>7. ASSUME NEW w \in Workers, ConsumeByFault(w) \/ Deliver(w) PROVE Goal
  <2>1. /\ pc' = [pc EXCEPT ![w] = "idle"] /\ UNCHANGED faultVars
        /\ hand' = [hand EXCEPT ![w] = NoMessage] /\ w \in Threads
    BY <1>7 DEF ConsumeByFault, Deliver, Goto
  <2> QED
    BY <1>2, <2>1 DEF TypeOK
<1>8. ASSUME NEW w \in Workers, PassFaultGate(w) PROVE Goal
  <2>1. /\ pc' = [pc EXCEPT ![w] = "check"] \/ pc' = [pc EXCEPT ![w] = "deliver"]
        /\ UNCHANGED faultVars /\ w \in Threads
    BY <1>8 DEF PassFaultGate, Goto
  <2> QED
    BY <1>2, <1>8, <2>1, PassKeepsMessage
<1>9. ASSUME NEW t \in Flushers, RecoveryBegins(t) PROVE Goal
  BY <1>9 DEF RecoveryBegins, BeginRecovery, Slack
<1>10. ASSUME NEW t \in Flushers, SwapFaultBuffers(t) PROVE Goal
  <2>1. /\ pc' = [pc EXCEPT ![t] = "replay"]
        /\ UNCHANGED <<running, active, expired, faults, hand>>
    BY <1>10 DEF SwapFaultBuffers, Goto, faultVars, pathVars
  <2>2. pc'[c] = pc[c] \/ pc'[c] = "replay"
    BY <1>0, <2>1 DEF TypeOK
  <2> QED
    BY <1>1, <2>1, <2>2
<1>11. ASSUME NEW t \in Flushers, ReplayOne(t) PROVE Goal
  BY <1>1, <1>11 DEF ReplayOne, faultVars
<1>12. ASSUME NEW t \in Flushers, RecoveryEnds(t) PROVE Goal
  <2>1. ~active
    BY <1>12 DEF RecoveryEnds, Coordination, Flushing
  <2> QED
    BY <1>12, <2>1 DEF RecoveryEnds, Slack, faultVars
<1>13. ASSUME NEW t \in {Control, Timer}, Start(t) PROVE Goal
  BY <1>13 DEF Start, StartNodeFault
<1>14. ASSUME Aside PROVE Goal
  <2>1. /\ running /\ faults' = faults /\ active' = active /\ hand' = hand
        /\ expired => expired'
        /\ pc'[c] = pc[c] \/ pc'[c] \notin CarryPlaces
    BY <1>0, <1>14 DEF Aside, pathVars
  <2> QED
    BY <1>1, <2>1 DEF CarryPlaces
<1> HIDE DEF Goal
<1>15. Goal
  BY <1>3, <1>4, <1>5, <1>6, <1>7, <1>8, <1>9, <1>10, <1>11, <1>12, <1>13, <1>14, StepMoves
<1> QED
  BY <1>15 DEF Goal

LEMMA InitAhead == Init => AheadBounded
<1> SUFFICES ASSUME Init, NEW k \in Unlimited
             PROVE  Cardinality(Ahead(k)) <= faults /\ ~Slack(k)
  BY DEF AheadBounded
<1>1. out[k] = <<>> /\ ~active /\ faults = 0
  BY DEF Init, EmptyBuffers, Unlimited
<1>2. Overtakers(k) = {} /\ ToSet(out[k]) = {}
  <2>1. Overtaking(<<>>) = {}
    BY DEF Overtaking
  <2> QED
    BY <1>1, <2>1, OvertakersDef, EmptySet
<1>3. ~Busy(k)
  BY CarrierFacts DEF Init, Busy, NoMessage
<1>4. Ahead(k) = {}
  BY <1>2, <1>3 DEF Ahead, Cleared
<1> QED
  BY <1>1, <1>4, FS_EmptySet DEF Slack

LEMMA StepAheadBounded ==
  /\ TypeOK /\ Coordination /\ MessageInv /\ Ordered /\ AheadBounded /\ [Next]_vars
  => AheadBounded'
<1> SUFFICES ASSUME TypeOK, Coordination, MessageInv, Ordered, AheadBounded, [Next]_vars,
                    running', NEW k \in Unlimited
             PROVE  /\ Cardinality(Ahead(k)') <= faults'
                    /\ Slack(k)' => Cardinality(Ahead(k)') < faults'
  BY DEF AheadBounded
<1>1. /\ running /\ faults' \in {faults, faults + 1} /\ faults \in Nat
      /\ Slack(k)' => Slack(k) \/ faults' = faults + 1
  BY StepSlack DEF TypeOK
<1>2. /\ Cardinality(Ahead(k)) <= faults
      /\ Slack(k) => Cardinality(Ahead(k)) < faults
  BY <1>1 DEF AheadBounded
<1>3. IsFiniteSet(Ahead(k)) /\ Cardinality(Ahead(k)) \in Nat
  BY AheadFinite
<1>4. \/ Ahead(k)' \subseteq Ahead(k)
      \/ /\ Ahead(k)' \subseteq Ahead(k) \cup {next[k]}
         /\ Slack(k) /\ ~Slack(k)' /\ faults' = faults
  BY <1>1, StepTopic, StepAhead DEF Ordered
<1>5. CASE Ahead(k)' \subseteq Ahead(k)
  <2>1. Ahead(k)' \in SUBSET Ahead(k)
    BY <1>5
  <2>2. Cardinality(Ahead(k)') <= Cardinality(Ahead(k)) /\ Cardinality(Ahead(k)') \in Nat
    BY <1>3, <2>1, FS_Subset, FS_CardinalityType
  <2> QED
    BY <1>1, <1>2, <1>3, <2>2
<1>6. CASE /\ Ahead(k)' \subseteq Ahead(k) \cup {next[k]}
           /\ Slack(k) /\ ~Slack(k)' /\ faults' = faults
  <2> DEFINE S == Ahead(k) \cup {next[k]}
  <2>1. IsFiniteSet(S) /\ Cardinality(S) <= Cardinality(Ahead(k)) + 1
    BY <1>3, OneMore
  <2>2. Ahead(k)' \in SUBSET S
    BY <1>6
  <2> HIDE DEF S
  <2>3. /\ Cardinality(Ahead(k)') <= Cardinality(S) /\ Cardinality(Ahead(k)') \in Nat
        /\ Cardinality(S) \in Nat
    BY <2>1, <2>2, FS_Subset, FS_CardinalityType
  <2> QED
    BY <1>1, <1>2, <1>3, <1>6, <2>1, <2>3
<1> QED
  BY <1>4, <1>5, <1>6

\* What OneOvertakerPerFault rests on, made inductive: the overtakers there are, and the
\* one that a fault which has begun may still bring about, are no more than the faults.
THEOREM AheadHolds == ~ScheduledFault => (Spec => []AheadBounded)
<1> SUFFICES ASSUME ~ScheduledFault PROVE Spec => []AheadBounded
  OBVIOUS
<1> QED
  BY InitAhead, StepAheadBounded, OrderHolds, MessagesHold, TypeCorrect, CoordinationHolds,
     PTL DEF Spec

\* On a topic without limit each fault lets at most one message overtake others.
THEOREM OvertakersBounded == ~ScheduledFault => (Spec => []OneOvertakerPerFault)
<1> SUFFICES ASSUME ~ScheduledFault PROVE Spec => []OneOvertakerPerFault
  OBVIOUS
<1>1. TypeOK /\ MessageInv /\ AheadBounded => OneOvertakerPerFault
  <2> SUFFICES ASSUME TypeOK, MessageInv, AheadBounded, running, NEW k \in Unlimited
               PROVE  Cardinality(Overtakers(k)) <= faults
    BY DEF OneOvertakerPerFault, Unlimited
  <2>1. IsFiniteSet(Ahead(k)) /\ Cardinality(Ahead(k)) \in Nat /\ faults \in Nat
    BY AheadFinite DEF TypeOK
  <2>2. Overtakers(k) \in SUBSET Ahead(k)
    BY DEF Ahead
  <2>3. Cardinality(Overtakers(k)) <= Cardinality(Ahead(k)) /\ Cardinality(Overtakers(k)) \in Nat
    BY <2>1, <2>2, FS_Subset, FS_CardinalityType
  <2> QED
    BY <2>1, <2>3 DEF AheadBounded
<1> QED
  BY <1>1, AheadHolds, MessagesHold, TypeCorrect, PTL

-----------------------------------------------------------------------------
(* One more thing a worker knows: nothing is held of its topic when it comes back
   from a recovery of its own, whatever fault has begun meanwhile. *)

NotifyKept ==
  \A k \in Unlimited : Busy(k) /\ pc[Carrier(k)] = "notify" => buffer[k] = <<>>

LEMMA InitNotify == Init => NotifyKept
<1> SUFFICES ASSUME Init, NEW k \in Unlimited PROVE ~Busy(k)
  BY DEF NotifyKept
<1> QED
  BY CarrierFacts DEF Init, Busy, NoMessage

LEMMA StepNotify ==
  TypeOK /\ Coordination /\ MessageInv /\ NotifyKept /\ [Next]_vars => NotifyKept'
<1> SUFFICES ASSUME TypeOK, Coordination, MessageInv, NotifyKept, [Next]_vars,
                    NEW k \in Unlimited, Busy(k)', pc'[Carrier(k)] = "notify"
             PROVE  buffer'[k] = <<>>
  BY DEF NotifyKept
<1> USE ThreadFacts
<1> DEFINE c == Carrier(k)
<1>0. /\ c \in Workers /\ c \in Flushers /\ c \in Threads /\ k \in Topics /\ k # 0
      /\ HandCustody /\ StoreCustody
      /\ \A w \in Workers : hand[w].topic = k => w = c
  BY CarrierFacts DEF MessageInv
<1>1. ASSUME hand'[c].topic = hand[c].topic, pc'[c] = pc[c], buffer'[k] = buffer[k]
      PROVE  buffer'[k] = <<>>
  BY <1>1 DEF NotifyKept, Busy
<1>2. ASSUME NEW w \in Threads, NEW place \in {"check", "idle", "deliver", "gate", "swap"},
             pc' = [pc EXCEPT ![w] = place],
             \A v \in Workers : v # w => hand'[v].topic = hand[v].topic,
             w # c => buffer'[k] = buffer[k]
      PROVE  buffer'[k] = <<>>
  <2>1. w # c
    BY <1>0, <1>2 DEF TypeOK
  <2> QED
    BY <1>0, <1>1, <1>2, <2>1 DEF TypeOK
<1>3. ASSUME NEW j \in SendTopics, SubCallback(j) PROVE buffer'[k] = <<>>
  BY <1>2, <1>3 DEF SubCallback, Goto, TypeOK
<1>4. ASSUME NEW j \in RecvTopics, Receive(j) PROVE buffer'[k] = <<>>
  <2>1. j \in Threads
    OBVIOUS
  <2> QED
    BY <1>2, <1>4, <2>1 DEF Receive, Goto, TypeOK
<1>5. ASSUME NEW j \in Limited, SendFuncPop(j) PROVE buffer'[k] = <<>>
  <2>1. j \in Threads
    OBVIOUS
  <2> QED
    BY <1>2, <1>5, <2>1 DEF SendFuncPop, Goto, TypeOK
<1>6. ASSUME NEW w \in Workers, ComesToGate(w) PROVE buffer'[k] = <<>>
  <2>1. pc' = [pc EXCEPT ![w] = "gate"] /\ UNCHANGED <<hand, buffer>> /\ w \in Threads
    BY <1>6 DEF ComesToGate, pathVars
  <2> QED
    BY <1>2, <2>1
<1>7. ASSUME NEW w \in Workers, ConsumeByFault(w) PROVE buffer'[k] = <<>>
  <2> DEFINE j == hand[w].topic
  <2>1. /\ pc' = [pc EXCEPT ![w] = "idle"] /\ w \in Threads
        /\ \A v \in Workers : v # w => hand'[v] = hand[v]
        /\ \A i \in Topics : i # j => buffer'[i] = buffer[i]
    BY <1>0, <1>7, ConsumeEffect
  <2>2. w # c => buffer'[k] = buffer[k]
    BY <1>0, <2>1
  <2> QED
    BY <1>2, <2>1, <2>2
<1>8. ASSUME NEW w \in Workers, PassFaultGate(w) PROVE buffer'[k] = <<>>
  <2>1. /\ pc' = [pc EXCEPT ![w] = "check"] \/ pc' = [pc EXCEPT ![w] = "deliver"]
        /\ UNCHANGED buffer /\ w \in Threads
    BY <1>8 DEF PassFaultGate, Goto
  <2> QED
    BY <1>2, <1>8, <2>1, PassKeepsMessage
<1>9. ASSUME NEW w \in Workers, Deliver(w) PROVE buffer'[k] = <<>>
  <2>1. /\ pc' = [pc EXCEPT ![w] = "idle"] /\ w \in Threads /\ UNCHANGED buffer
        /\ \A v \in Workers : v # w => hand'[v] = hand[v]
    BY <1>0, <1>9, DeliverEffect
  <2> QED
    BY <1>2, <2>1
<1>10. ASSUME NEW t \in Flushers, RecoveryBegins(t) PROVE buffer'[k] = <<>>
  <2>1. pc' = [pc EXCEPT ![t] = "swap"] /\ UNCHANGED <<hand, buffer>> /\ t \in Threads
    BY <1>10 DEF RecoveryBegins, BeginRecovery, Goto, pathVars
  <2> QED
    BY <1>2, <2>1
<1>11. ASSUME NEW t \in Flushers, SwapFaultBuffers(t) PROVE buffer'[k] = <<>>
  BY <1>0, <1>11 DEF SwapFaultBuffers, EmptyBuffers
<1>12. ASSUME NEW t \in Flushers, ReplayOne(t) \/ RecoveryEnds(t) PROVE buffer'[k] = <<>>
  <2>1. pc[t] = "replay" /\ UNCHANGED buffer
    BY <1>12 DEF ReplayOne, RecoveryEnds
  <2> QED
    BY <1>0, <2>1 DEF StoreCustody, EmptyBuffers
<1>13. ASSUME NEW t \in {Control, Timer}, Start(t) PROVE buffer'[k] = <<>>
  BY <1>0, <1>13, StartFindsQuiet DEF Start, StartNodeFault, EmptyBuffers
<1>14. ASSUME Aside PROVE buffer'[k] = <<>>
  <2>1. pc'[c] = pc[c] /\ UNCHANGED <<hand, buffer>>
    BY <1>0, <1>14 DEF Aside, CarryPlaces, pathVars
  <2> QED
    BY <1>1, <2>1
<1> QED
  BY <1>3, <1>4, <1>5, <1>6, <1>7, <1>8, <1>9, <1>10, <1>11, <1>12, <1>13, <1>14, StepMoves

\* Only a message to be sent has two gates before it.
OneGate == \A w \in Workers \ {Main} : hand[w].gates = 1

LEMMA StepOneGate == TypeOK /\ HandCustody /\ OneGate /\ [Next]_vars => OneGate'
<1> SUFFICES ASSUME TypeOK, HandCustody, OneGate, [Next]_vars PROVE OneGate'
  OBVIOUS
<1>1. ASSUME NEW k \in SendTopics, SubCallback(k) PROVE OneGate'
  BY <1>1 DEF SubCallback, OneGate, TypeOK
<1>2. ASSUME NEW k \in RecvTopics, Receive(k) PROVE OneGate'
  BY <1>2 DEF Receive, OneGate, TypeOK
<1>3. ASSUME NEW k \in Limited, SendFuncPop(k) PROVE OneGate'
  BY <1>3 DEF SendFuncPop, OneGate, TypeOK
<1>4. ASSUME NEW w \in Workers, ConsumeByFault(w) PROVE OneGate'
  BY <1>4 DEF ConsumeByFault, OneGate, TypeOK, NoMessage
<1>5. ASSUME NEW w \in Workers, Deliver(w) PROVE OneGate'
  BY <1>5 DEF Deliver, OneGate, TypeOK, NoMessage
<1>6. ASSUME NEW w \in Workers, PassFaultGate(w) PROVE OneGate'
  <2>1. /\ hand'[w].gates = 1
        /\ \A v \in Workers : v # w => hand'[v] = hand[v]
    BY <1>6, PassKeepsMessage DEF PassFaultGate, TypeOK
  <2> QED
    BY <2>1 DEF OneGate
<1>7. ASSUME UNCHANGED hand PROVE OneGate'
  BY <1>7 DEF OneGate
<1>8. ASSUME NEW w \in Workers, ComesToGate(w) PROVE OneGate'
  BY <1>7, <1>8 DEF ComesToGate, pathVars
<1>9. ASSUME NEW t \in Flushers, \/ RecoveryBegins(t) \/ SwapFaultBuffers(t)
                                 \/ ReplayOne(t) \/ RecoveryEnds(t)
      PROVE  OneGate'
  BY <1>7, <1>9 DEF RecoveryBegins, SwapFaultBuffers, ReplayOne, RecoveryEnds, pathVars
<1>10. ASSUME Aside \/ \E t \in {Control, Timer} : Start(t) PROVE OneGate'
  BY <1>7, <1>10 DEF Aside, Start, pathVars
<1> QED
  BY <1>1, <1>2, <1>3, <1>4, <1>5, <1>6, <1>8, <1>9, <1>10, StepMoves

-----------------------------------------------------------------------------
(* The state of the link, topic by topic. *)

LEMMA PhaseValues ==
  /\ ~running => LinkPhase = "stopped"
  /\ running /\ recovering => LinkPhase = "recovering"
  /\ running /\ ~recovering /\ ~active => LinkPhase = "up"
  /\ running /\ ~recovering /\ active /\ ~expired => LinkPhase = "down"
  /\ running /\ ~recovering /\ active /\ expired => LinkPhase = "over"
BY DEF LinkPhase

LEMMA PhaseValuesNext ==
  /\ ~running' => LinkPhase' = "stopped"
  /\ running' /\ recovering' => LinkPhase' = "recovering"
  /\ running' /\ ~recovering' /\ ~active' => LinkPhase' = "up"
  /\ running' /\ ~recovering' /\ active' /\ ~expired' => LinkPhase' = "down"
  /\ running' /\ ~recovering' /\ active' /\ expired' => LinkPhase' = "over"
BY DEF LinkPhase

LEMMA PhaseSame ==
  ASSUME UNCHANGED <<running, active, expired, recovering>>
  PROVE  LinkPhase' = LinkPhase
BY DEF LinkPhase

\* The stage of a topic, from its one carrier.
StageAt(k) ==
  LET c == Carrier(k)
  IN  IF ~Busy(k) THEN "none"
      ELSE IF pc[c] = "deliver" THEN "cleared"
      ELSE IF pc[c] = "gate" \/ (c = Main /\ hand[c].gates = 1) THEN "entered"
      ELSE "arrived"

LEMMA StageIs ==
  ASSUME HandCustody, NEW k \in Unlimited
  PROVE  LinkStage[k] = StageAt(k)
<1> DEFINE c == Carrier(k)
<1>1. c \in Workers /\ k \in Topics /\ \A w \in Workers : hand[w].topic = k => w = c
  BY CarrierFacts
<1>2. CASE ~Busy(k)
  <2>1. Carriers(k) = {}
    BY <1>1, <1>2 DEF Carriers, Busy
  <2> QED
    BY <1>1, <1>2, <2>1 DEF LinkStage, StageAt
<1>3. CASE Busy(k)
  <2>1. Carriers(k) = {c}
    BY <1>1, <1>3 DEF Carriers, Busy
  <2>2. (CHOOSE w \in Carriers(k) : TRUE) = c
    BY <2>1
  <2>3. LinkStage[k] = CASE pc[c] = "deliver" -> "cleared"
                         [] pc[c] = "gate" -> "entered"
                         [] pc[c] \notin {"gate", "deliver"} ->
                              IF c = Main /\ hand[c].gates = 1 THEN "entered" ELSE "arrived"
    BY <1>1, <2>1, <2>2 DEF LinkStage
  <2> HIDE DEF c
  <2> QED
    BY <1>3, <2>3 DEF StageAt, c
<1> QED
  BY <1>2, <1>3

LEMMA StageIsNext ==
  ASSUME HandCustody', NEW k \in Unlimited
  PROVE  LinkStage'[k] = StageAt(k)'
<1> DEFINE c == Carrier(k)
<1>1. c \in Workers /\ k \in Topics /\ \A w \in Workers : hand'[w].topic = k => w = c
  <2>1. c \in Workers /\ k \in Topics /\ k # 0
    BY CarrierFacts
  <2>2. c = IF k \in RecvTopics THEN k ELSE Main
    BY DEF Carrier
  <2> QED
    BY <2>1, <2>2, TopicFacts, ThreadFacts DEF HandCustody, Unlimited
<1>2. CASE ~Busy(k)'
  <2>1. Carriers(k)' = {}
    BY <1>1, <1>2 DEF Carriers, Busy
  <2> QED
    BY <1>1, <1>2, <2>1 DEF LinkStage, StageAt
<1>3. CASE Busy(k)'
  <2>1. Carriers(k)' = {c}
    BY <1>1, <1>3 DEF Carriers, Busy
  <2>2. (CHOOSE w \in Carriers(k)' : TRUE) = c
    BY <2>1
  <2>3. LinkStage'[k] = CASE pc'[c] = "deliver" -> "cleared"
                          [] pc'[c] = "gate" -> "entered"
                          [] pc'[c] \notin {"gate", "deliver"} ->
                               IF c = Main /\ hand'[c].gates = 1 THEN "entered" ELSE "arrived"
    BY <1>1, <2>1, <2>2 DEF LinkStage
  <2> HIDE DEF c
  <2> QED
    BY <1>3, <2>3 DEF StageAt, c
<1> QED
  BY <1>2, <1>3

\* The backlog of a topic: the fault buffer if nobody replays the topic, and what
\* the one flusher of the topic still has to replay if there is one.
LEMMA BacklogIs ==
  ASSUME NEW k \in Topics
  PROVE  /\ (\A t \in Flushers : todo[t][k] = <<>>) => LinkBacklog[k] = buffer[k]
         /\ \A t \in Flushers :
              todo[t][k] # <<>> /\ (\A u \in Flushers : u # t => todo[u][k] = <<>>)
                => LinkBacklog[k] = todo[t][k]
<1>1. ASSUME \A t \in Flushers : todo[t][k] = <<>> PROVE LinkBacklog[k] = buffer[k]
  <2>1. Replaying(k) = {}
    BY <1>1 DEF Replaying
  <2> QED
    BY <2>1 DEF LinkBacklog
<1>2. ASSUME NEW t \in Flushers, todo[t][k] # <<>>,
             \A u \in Flushers : u # t => todo[u][k] = <<>>
      PROVE  LinkBacklog[k] = todo[t][k]
  <2>1. Replaying(k) = {t}
    BY <1>2 DEF Replaying
  <2>2. (CHOOSE u \in Replaying(k) : TRUE) = t
    BY <2>1
  <2> QED
    BY <2>1, <2>2 DEF LinkBacklog
<1> QED
  BY <1>1, <1>2

LEMMA BacklogIsNext ==
  ASSUME NEW k \in Topics
  PROVE  /\ (\A t \in Flushers : todo'[t][k] = <<>>) => LinkBacklog'[k] = buffer'[k]
         /\ \A t \in Flushers :
              todo'[t][k] # <<>> /\ (\A u \in Flushers : u # t => todo'[u][k] = <<>>)
                => LinkBacklog'[k] = todo'[t][k]
<1>1. ASSUME \A t \in Flushers : todo'[t][k] = <<>> PROVE LinkBacklog'[k] = buffer'[k]
  <2>1. Replaying(k)' = {}
    BY <1>1 DEF Replaying
  <2> QED
    BY <2>1 DEF LinkBacklog
<1>2. ASSUME NEW t \in Flushers, todo'[t][k] # <<>>,
             \A u \in Flushers : u # t => todo'[u][k] = <<>>
      PROVE  LinkBacklog'[k] = todo'[t][k]
  <2>1. Replaying(k)' = {t}
    BY <1>2 DEF Replaying
  <2>2. (CHOOSE u \in Replaying(k)' : TRUE) = t
    BY <2>1
  <2> QED
    BY <2>1, <2>2 DEF LinkBacklog
<1> QED
  BY <1>1, <1>2

\* Outside a replay of the topic there is but the fault buffer.
LEMMA BacklogQuiet ==
  ASSUME TypeOK, StoreCustody, \A t \in Flushers : ~Flushing(t), NEW k \in Topics
  PROVE  LinkBacklog[k] = buffer[k] /\ \A t \in Flushers : todo[t][k] = <<>>
<1>1. \A t \in Flushers : todo[t][k] = <<>>
  BY DEF Flushing, StoreCustody, EmptyBuffers
<1> QED
  BY <1>1, BacklogIs

LEMMA BacklogSame ==
  ASSUME NEW k \in Topics, buffer'[k] = buffer[k],
         \A t \in Flushers : todo'[t][k] = todo[t][k]
  PROVE  LinkBacklog'[k] = LinkBacklog[k]
<1>1. Replaying(k)' = Replaying(k)
  BY DEF Replaying
<1>2. CASE Replaying(k) = {}
  BY <1>1, <1>2 DEF LinkBacklog
<1>3. CASE Replaying(k) # {}
  <2> DEFINE t == CHOOSE t \in Replaying(k) : TRUE
  <2>1. t \in Replaying(k)
    BY <1>3
  <2>2. t \in Flushers
    BY <2>1 DEF Replaying
  <2>3. LinkBacklog[k] = todo[t][k] /\ LinkBacklog'[k] = todo'[t][k]
    BY <1>1, <1>3 DEF LinkBacklog
  <2> QED
    BY <2>2, <2>3
<1> QED
  BY <1>2, <1>3

LEMMA BacklogSwap ==
  ASSUME TypeOK, Coordination, StoreCustody, NEW t \in Flushers, SwapFaultBuffers(t),
         NEW k \in Topics
  PROVE  LinkBacklog'[k] = LinkBacklog[k]
<1>1. \A u \in Flushers : pc[u] # "replay"
  <2>1. pc[t] = "swap"
    BY DEF SwapFaultBuffers
  <2> QED
    BY <2>1 DEF Coordination, SingleFlusher, Flushing
<1>2. \A u \in Flushers : todo[u][k] = <<>>
  BY <1>1 DEF StoreCustody, EmptyBuffers
<1>3. /\ buffer'[k] = <<>> /\ todo'[t][k] = buffer[k]
      /\ \A u \in Flushers : u # t => todo'[u][k] = <<>>
  BY <1>2 DEF SwapFaultBuffers, EmptyBuffers, TypeOK
<1>4. LinkBacklog[k] = buffer[k]
  BY <1>2, BacklogIs
<1>5. CASE buffer[k] = <<>>
  BY <1>3, <1>4, <1>5, BacklogIsNext
<1>6. CASE buffer[k] # <<>>
  BY <1>3, <1>4, <1>6, BacklogIsNext
<1> QED
  BY <1>5, <1>6

-----------------------------------------------------------------------------
(* What a step of one thread does to the stages. *)

LEMMA StageSame ==
  ASSUME NEW k \in Unlimited, hand' = hand,
         LET c == Carrier(k)
         IN  \/ pc'[c] = pc[c]
             \/ pc[c] \notin {"gate", "deliver"} /\ pc'[c] \notin {"gate", "deliver"}
             \/ hand[c].topic = 0
  PROVE  StageAt(k)' = StageAt(k)
BY CarrierFacts DEF StageAt, Busy

\* Only the topic of the message a worker carries is affected by its step.
LEMMA StageElsewhere ==
  ASSUME NEW w \in Workers,
         \A v \in Workers : v # w => pc'[v] = pc[v] /\ hand'[v] = hand[v],
         NEW k, hand[w].topic \in {0, k}, hand'[w].topic \in {0, k}
  PROVE  \A j \in Unlimited : j # k => StageAt(j)' = StageAt(j)
<1> SUFFICES ASSUME NEW j \in Unlimited, j # k PROVE StageAt(j)' = StageAt(j)
  OBVIOUS
<1> DEFINE c == Carrier(j)
<1>1. c \in Workers /\ j # 0
  BY CarrierFacts
<1>2. CASE c = w
  BY <1>1, <1>2 DEF StageAt, Busy
<1>3. CASE c # w
  BY <1>1, <1>3 DEF StageAt, Busy
<1> QED
  BY <1>2, <1>3

\* From topics to the link: one topic proceeds, or none.
LEMMA StageProceeds ==
  ASSUME HandCustody, HandCustody', Limited = {}, NEW k \in Topics, NEW to,
         StageAt(k)' = to, \A j \in Topics : j # k => StageAt(j)' = StageAt(j)
  PROVE  LinkStage[k] = StageAt(k) /\ LinkStage' = [LinkStage EXCEPT ![k] = to]
<1>1. Unlimited = Topics
  BY DEF Unlimited
<1>2. \A j \in Topics : LinkStage[j] = StageAt(j) /\ LinkStage'[j] = StageAt(j)'
  BY <1>1, StageIs, StageIsNext
<1>3. /\ LinkStage = [j \in Topics |-> LinkStage[j]]
      /\ LinkStage' = [j \in Topics |-> LinkStage'[j]]
  BY DEF LinkStage
<1> QED
  BY <1>2, <1>3

LEMMA StageStays ==
  ASSUME HandCustody, HandCustody', Limited = {},
         \A j \in Topics : StageAt(j)' = StageAt(j)
  PROVE  LinkStage' = LinkStage
<1>1. Unlimited = Topics
  BY DEF Unlimited
<1>2. \A j \in Topics : LinkStage[j] = StageAt(j) /\ LinkStage'[j] = StageAt(j)'
  BY <1>1, StageIs, StageIsNext
<1>3. /\ LinkStage = [j \in Topics |-> LinkStage[j]]
      /\ LinkStage' = [j \in Topics |-> LinkStage'[j]]
  BY DEF LinkStage
<1> QED
  BY <1>2, <1>3

LEMMA BacklogChanges ==
  ASSUME NEW k \in Topics, NEW b, LinkBacklog'[k] = b,
         \A j \in Topics : j # k => LinkBacklog'[j] = LinkBacklog[j]
  PROVE  LinkBacklog' = [LinkBacklog EXCEPT ![k] = b]
<1>1. /\ LinkBacklog = [j \in Topics |-> LinkBacklog[j]]
      /\ LinkBacklog' = [j \in Topics |-> LinkBacklog'[j]]
  BY DEF LinkBacklog
<1> QED
  BY <1>1

LEMMA BacklogStays ==
  ASSUME \A j \in Topics : LinkBacklog'[j] = LinkBacklog[j]
  PROVE  LinkBacklog' = LinkBacklog
<1>1. /\ LinkBacklog = [j \in Topics |-> LinkBacklog[j]]
      /\ LinkBacklog' = [j \in Topics |-> LinkBacklog'[j]]
  BY DEF LinkBacklog
<1> QED
  BY <1>1

LEMMA LinkTopicsAre == Link!LinkTopics = Topics
BY DEF Link!LinkTopics, Topics

\* A topic of its own carrier: what holds of the topic of the message in hand.
LEMMA CarriesOwn ==
  ASSUME TypeOK, HandCustody, NEW w \in Workers, pc[w] \in CarryPlaces, Limited = {},
         NEW k, k = hand[w].topic
  PROVE  /\ k \in Topics /\ k \in Unlimited /\ Carrier(k) = w /\ Busy(k)
         /\ w # Main => k \in RecvTopics
         /\ w = Main => k \in SendTopics
<1>1. k \in Topics /\ k \in Unlimited
  BY CarrierTopic DEF Unlimited
<1>2. Carrier(k) = w
  BY <1>1, CarrierFacts
<1> QED
  BY <1>1, <1>2, CarrierTopic, TopicFacts DEF Busy

-----------------------------------------------------------------------------
(* The steps of a message. *)

LinkInv == TypeOK /\ Coordination /\ MessageInv /\ GateKept /\ NotifyKept /\ OneGate

\* The entry points: SubCallback and Receive.
LEMMA MapsToAccept ==
  ASSUME LinkInv, HandCustody', Limited = {}, NEW k \in Topics,
         NEW w \in Workers, w = Carrier(k), pc[w] = "idle",
         pc' = [pc EXCEPT ![w] = "check"],
         hand'[w].topic = k, w = Main => hand'[w].gates = 2,
         \A v \in Workers : v # w => hand'[v] = hand[v],
         next' = [next EXCEPT ![k] = next[k] + 1],
         UNCHANGED <<faultVars, recovering, buffer, todo, out>>
  PROVE  Link!Accept(k)
<1>1. /\ TypeOK /\ HandCustody /\ k \in Unlimited /\ Unlimited = Topics
      /\ w \in Threads /\ k # 0
  BY CarrierFacts, ThreadFacts DEF LinkInv, MessageInv, Unlimited
<1>2. hand[w].topic = 0
  BY <1>1 DEF HandCustody, CarryPlaces
<1>3. StageAt(k) = "none"
  BY <1>1, <1>2 DEF StageAt, Busy
<1>4. StageAt(k)' = "arrived"
  <2>1. pc'[w] = "check"
    BY <1>1 DEF TypeOK
  <2> QED
    BY <2>1 DEF StageAt, Busy
<1>5. \A j \in Topics : j # k => StageAt(j)' = StageAt(j)
  <2>1. \A v \in Workers : v # w => pc'[v] = pc[v]
    BY <1>1, ThreadFacts DEF TypeOK
  <2> QED
    BY <1>1, <1>2, <2>1, StageElsewhere
<1>6. LinkStage[k] = "none" /\ LinkStage' = [LinkStage EXCEPT ![k] = "arrived"]
  BY <1>1, <1>3, <1>4, <1>5, StageProceeds
<1>7. LinkBacklog' = LinkBacklog
  BY BacklogSame, BacklogStays
<1>8. LinkPhase' = LinkPhase
  BY PhaseSame DEF faultVars
<1> QED
  BY <1>6, <1>7, <1>8 DEF Link!Accept, Link!Proceed

\* Coming to the gate: the first time, the message enters; a message to be sent has
\* entered already when it comes to its second gate.
LEMMA MapsToEnter ==
  ASSUME LinkInv, HandCustody', Limited = {}, NEW w \in Workers, ComesToGate(w),
         NEW k, k = hand[w].topic
  PROVE  Link!Enter(k) \/ UNCHANGED Link!vars
<1>1. TypeOK /\ HandCustody /\ StoreCustody /\ Coordination /\ w \in Threads
  BY ThreadFacts DEF LinkInv, MessageInv
<1>2. /\ (pc[w] = "check" /\ ~FaultExpired) \/ pc[w] = "notify"
      /\ pc' = [pc EXCEPT ![w] = "gate"]
      /\ UNCHANGED <<running, active, expired, recovering, buffer, todo, hand, next, out>>
  BY DEF ComesToGate, faultVars, pathVars
<1>3. pc[w] \in CarryPlaces /\ pc'[w] = "gate"
  BY <1>1, <1>2 DEF CarryPlaces, TypeOK
<1>4. /\ k \in Topics /\ k \in Unlimited /\ Carrier(k) = w /\ Busy(k) /\ k # 0
  BY <1>1, <1>3, CarriesOwn, TopicFacts
<1>5. StageAt(k)' = "entered"
  BY <1>2, <1>3, <1>4 DEF StageAt, Busy
<1>6. StageAt(k) \in {"arrived", "entered"}
  BY <1>2, <1>4 DEF StageAt
<1>7. \A j \in Topics : j # k => StageAt(j)' = StageAt(j)
  <2>1. \A v \in Workers : v # w => pc'[v] = pc[v]
    BY <1>1, <1>2, ThreadFacts DEF TypeOK
  <2> QED
    BY <1>2, <2>1, StageElsewhere DEF Unlimited
<1>8. LinkStage[k] = StageAt(k) /\ LinkStage' = [LinkStage EXCEPT ![k] = "entered"]
  BY <1>1, <1>4, <1>5, <1>7, StageProceeds
<1>9. LinkBacklog' = LinkBacklog
  BY <1>2, BacklogSame, BacklogStays
<1>10. LinkPhase' = LinkPhase
  BY <1>2, PhaseSame
<1>11. LinkPhase # "over" \/ LinkBacklog[k] = <<>>
  <2>1. CASE ~running \/ recovering \/ ~active \/ ~expired
    BY <2>1, PhaseValues
  <2>2. CASE running /\ ~recovering /\ active /\ expired
    <3>1. pc[w] = "notify"
      BY <1>2, <2>2 DEF FaultExpired
    <3>2. buffer[k] = <<>>
      BY <1>4, <3>1 DEF LinkInv, NotifyKept
    <3>3. \A t \in Flushers : ~Flushing(t)
      BY <1>1, <2>2 DEF Coordination
    <3> QED
      BY <1>1, <1>4, <3>2, <3>3, BacklogQuiet
  <2> QED
    BY <2>1, <2>2
<1>12. CASE StageAt(k) = "arrived"
  BY <1>2, <1>8, <1>9, <1>10, <1>11, <1>12 DEF Link!Enter, Link!Proceed
<1>13. CASE StageAt(k) = "entered"
  <2>1. \A j \in Topics : StageAt(j)' = StageAt(j)
    BY <1>5, <1>7, <1>13
  <2>2. LinkStage' = LinkStage
    BY <1>1, <2>1, StageStays
  <2> QED
    BY <1>2, <1>9, <1>10, <2>2 DEF Link!vars
<1> QED
  BY <1>6, <1>12, <1>13

\* The fault takes the message.
LEMMA MapsToHold ==
  ASSUME LinkInv, HandCustody', Limited = {}, NEW w \in Workers, ConsumeByFault(w),
         NEW k, k = hand[w].topic
  PROVE  Link!Hold(k)
<1>1. TypeOK /\ HandCustody /\ StoreCustody /\ Coordination /\ w \in Threads
  BY ThreadFacts DEF LinkInv, MessageInv
<1>2. /\ pc[w] = "gate" /\ pc' = [pc EXCEPT ![w] = "idle"]
      /\ FaultWindowOpen /\ ~recovering
      /\ UNCHANGED <<faultVars, recovering, todo, next, out>>
      /\ hand'[w] = NoMessage /\ \A v \in Workers : v # w => hand'[v] = hand[v]
      /\ \A j \in Topics : j # k => buffer'[j] = buffer[j]
  BY <1>1, ConsumeEffect
<1>3. pc[w] \in CarryPlaces
  BY <1>2 DEF CarryPlaces
<1>4. k \in Topics /\ k \in Unlimited /\ Carrier(k) = w /\ Busy(k) /\ k # 0
  BY <1>1, <1>3, CarriesOwn, TopicFacts
<1>5. hand[w].msg = next[k]
  BY <1>4 DEF LinkInv, MessageInv, CarriedNewest
<1>6. StageAt(k) = "entered" /\ StageAt(k)' = "none"
  BY <1>2, <1>4, NoMessageType DEF StageAt, Busy
<1>7. \A j \in Topics : j # k => StageAt(j)' = StageAt(j)
  <2>1. \A v \in Workers : v # w => pc'[v] = pc[v]
    BY <1>1, <1>2, ThreadFacts DEF TypeOK
  <2> QED
    BY <1>2, <2>1, NoMessageType, StageElsewhere DEF Unlimited
<1>8. LinkStage[k] = "entered" /\ LinkStage' = [LinkStage EXCEPT ![k] = "none"]
  BY <1>1, <1>4, <1>6, <1>7, StageProceeds
<1>9. running /\ LinkPhase = "down" /\ LinkPhase' = LinkPhase
  <2>1. running
    BY <1>1, <1>2 DEF Coordination, StopOrder, FaultWindowOpen
  <2> QED
    BY <1>2, <2>1, PhaseValues, PhaseSame DEF FaultWindowOpen, faultVars
<1>10. \A t \in Flushers : ~Flushing(t)
  BY <1>1, <1>2 DEF Coordination, FaultWindowOpen
<1>11. LinkBacklog[k] = buffer[k] /\ LinkBacklog'[k] = buffer'[k]
  BY <1>1, <1>2, <1>4, <1>10, BacklogQuiet, BacklogIsNext
<1>12. buffer'[k] = Link!Held(Policy[k], LinkBacklog[k], next[k])
  <2>1. /\ Policy[k] \in Policies
        /\ Policy[k] = "drop" => buffer'[k] = buffer[k]
        /\ Policy[k] = "latest" => buffer'[k] = <<next[k]>>
        /\ Policy[k] = "buffer" => buffer'[k] = Append(buffer[k], next[k])
    BY <1>1, <1>5, ConsumeEffect
  <2> QED
    BY <1>11, <2>1 DEF Link!Held, Policies
<1>13. \A j \in Topics : j # k => LinkBacklog'[j] = LinkBacklog[j]
  BY <1>2, BacklogSame
<1>14. LinkBacklog' = [LinkBacklog EXCEPT ![k] = Link!Held(Policy[k], LinkBacklog[k], next[k])]
  BY <1>4, <1>11, <1>12, <1>13, BacklogChanges
<1> QED
  BY <1>2, <1>8, <1>9, <1>14 DEF Link!Hold, Link!Proceed

\* Passing a gate: the last one clears the message, the first one of two leaves it
\* entered.
LEMMA MapsToClear ==
  ASSUME LinkInv, HandCustody', Limited = {}, NEW w \in Workers, PassFaultGate(w),
         NEW k, k = hand[w].topic
  PROVE  Link!Clear(k) \/ UNCHANGED Link!vars
<1>1. TypeOK /\ HandCustody /\ StoreCustody /\ Coordination /\ w \in Threads
  BY ThreadFacts DEF LinkInv, MessageInv
<1>2. /\ pc[w] = "gate" /\ ~FaultWindowOpen /\ ~recovering
      /\ UNCHANGED <<running, active, expired, recovering, buffer, todo, next, out>>
      /\ IF hand[w].gates = 2 THEN pc' = [pc EXCEPT ![w] = "check"]
                              ELSE pc' = [pc EXCEPT ![w] = "deliver"] /\ hand' = hand
      /\ \A v \in Workers : v # w => hand'[v] = hand[v]
  BY <1>1 DEF PassFaultGate, AtGate, Goto, faultVars, TypeOK
<1>3. /\ pc[w] \in CarryPlaces /\ pc'[w] = IF hand[w].gates = 2 THEN "check" ELSE "deliver"
      /\ \A v \in Workers : v # w => pc'[v] = pc[v]
  BY <1>1, <1>2, ThreadFacts DEF CarryPlaces, TypeOK
<1>4. /\ k \in Topics /\ k \in Unlimited /\ Carrier(k) = w /\ Busy(k) /\ k # 0
      /\ w # Main => k \in RecvTopics
      /\ w = Main => k \in SendTopics
  BY <1>1, <1>3, CarriesOwn, TopicFacts
<1>5. hand'[w].topic = k /\ hand'[w].gates = 1
  BY <1>1, <1>4, PassKeepsMessage
<1>6. \A j \in Topics : j # k => StageAt(j)' = StageAt(j)
  BY <1>2, <1>3, <1>4, <1>5, StageElsewhere DEF Unlimited
<1>7. LinkBacklog' = LinkBacklog
  BY <1>2, BacklogSame, BacklogStays
<1>8. LinkPhase' = LinkPhase
  BY <1>2, PhaseSame
<1>9. StageAt(k) = "entered"
  BY <1>2, <1>4 DEF StageAt
<1>10. CASE hand[w].gates = 2 /\ w = Main
  <2>1. StageAt(k)' = "entered"
    BY <1>3, <1>4, <1>5, <1>10 DEF StageAt, Busy
  <2>2. \A j \in Topics : StageAt(j)' = StageAt(j)
    BY <1>6, <1>9, <2>1
  <2>3. LinkStage' = LinkStage
    BY <1>1, <2>2, StageStays
  <2> QED
    BY <1>2, <1>7, <1>8, <2>3 DEF Link!vars
<1>11. CASE hand[w].gates # 2
  <2>1. StageAt(k)' = "cleared"
    BY <1>3, <1>4, <1>5, <1>11 DEF StageAt, Busy
  <2>2. LinkStage[k] = "entered" /\ LinkStage' = [LinkStage EXCEPT ![k] = "cleared"]
    BY <1>1, <1>4, <1>6, <1>9, <2>1, StageProceeds
  <2>3. CASE ~running \/ ~active
    <3>1. LinkPhase \in {"up", "stopped"}
      BY <1>2, <2>3, PhaseValues
    <3> QED
      BY <1>2, <1>7, <1>8, <2>2, <3>1 DEF Link!Clear, Link!Proceed
  <2>4. CASE running /\ active
    <3>1. LinkPhase = "over"
      BY <1>2, <2>4, PhaseValues DEF FaultWindowOpen
    <3>2. Link!InTime(k)
      <4>1. CASE w # Main
        BY <1>4, <4>1 DEF Link!InTime
      <4>2. CASE w = Main
        <5>1. hand[w] \in Message /\ hand[w].gates = 1
          BY <1>1, <1>11 DEF TypeOK, Message
        <5>2. k \in SendTopics \ Limited
          BY <1>4, <4>2
        <5>3. buffer[k] = <<>>
          BY <1>2, <4>2, <5>1, <5>2 DEF LinkInv, GateKept
        <5>4. \A t \in Flushers : ~Flushing(t)
          BY <1>1, <2>4 DEF Coordination
        <5> QED
          BY <1>1, <1>4, <5>3, <5>4, BacklogQuiet DEF Link!InTime
      <4> QED
        BY <4>1, <4>2
    <3> QED
      BY <1>2, <1>7, <1>8, <2>2, <3>1, <3>2 DEF Link!Clear, Link!Proceed
  <2> QED
    BY <2>3, <2>4
<1>12. CASE hand[w].gates = 2 /\ w # Main
  BY <1>12 DEF LinkInv, OneGate
<1> QED
  BY <1>10, <1>11, <1>12

\* What was cleared leaves.
LEMMA MapsToLeave ==
  ASSUME LinkInv, HandCustody', Limited = {}, NEW w \in Workers, Deliver(w),
         NEW k, k = hand[w].topic
  PROVE  Link!Leave(k)
<1>1. TypeOK /\ HandCustody /\ StoreCustody /\ w \in Threads
  BY ThreadFacts DEF LinkInv, MessageInv
<1>2. /\ pc[w] = "deliver" /\ pc' = [pc EXCEPT ![w] = "idle"] /\ k \in Topics
      /\ UNCHANGED <<running, active, expired, recovering, buffer, todo, next>>
      /\ hand'[w] = NoMessage /\ \A v \in Workers : v # w => hand'[v] = hand[v]
  BY <1>1, DeliverEffect DEF faultVars
<1>3. pc[w] \in CarryPlaces
  BY <1>2 DEF CarryPlaces
<1>4. k \in Topics /\ k \in Unlimited /\ Carrier(k) = w /\ Busy(k) /\ k # 0
  BY <1>1, <1>3, CarriesOwn, TopicFacts
<1>5. hand[w].msg = next[k]
  BY <1>4 DEF LinkInv, MessageInv, CarriedNewest
<1>6. StageAt(k) = "cleared" /\ StageAt(k)' = "none"
  BY <1>2, <1>4, NoMessageType DEF StageAt, Busy
<1>7. \A j \in Topics : j # k => StageAt(j)' = StageAt(j)
  <2>1. \A v \in Workers : v # w => pc'[v] = pc[v]
    BY <1>1, <1>2, ThreadFacts DEF TypeOK
  <2> QED
    BY <1>2, <2>1, NoMessageType, StageElsewhere DEF Unlimited
<1>8. LinkStage[k] = "cleared" /\ LinkStage' = [LinkStage EXCEPT ![k] = "none"]
  BY <1>1, <1>4, <1>6, <1>7, StageProceeds
<1>9. LinkBacklog' = LinkBacklog
  BY <1>2, BacklogSame, BacklogStays
<1>10. LinkPhase' = LinkPhase
  BY <1>2, PhaseSame
<1>11. out' = [out EXCEPT ![k] = Append(out[k], next[k])]
  <2>1. k \notin Limited
    BY <1>4 DEF Unlimited
  <2> QED
    BY <1>5, <2>1 DEF Deliver, Dispatch
<1> QED
  BY <1>2, <1>8, <1>9, <1>10, <1>11 DEF Link!Leave, Link!Proceed

\* One message of a replay.
LEMMA MapsToRelease ==
  ASSUME LinkInv, HandCustody', Limited = {}, NEW t \in Flushers, ReplayOne(t)
  PROVE  \E k \in Topics : Link!Release(k)
<1>1. TypeOK /\ HandCustody /\ StoreCustody /\ Coordination
  BY DEF LinkInv, MessageInv
<1>2. PICK k \in Topics :
        /\ todo[t][k] # <<>>
        /\ Dispatch(k, Head(todo[t][k]), k \in Limited)
        /\ todo' = [todo EXCEPT ![t][k] = Tail(todo[t][k])]
  BY DEF ReplayOne
<1>3. /\ pc[t] = "replay" /\ Flushing(t)
      /\ UNCHANGED <<running, active, expired, recovering, buffer, pc, hand, next>>
  BY DEF ReplayOne, Flushing, faultVars
<1>4. out' = [out EXCEPT ![k] = Append(out[k], Head(todo[t][k]))]
  BY <1>2 DEF Dispatch
<1>5. LinkPhase \in {"recovering", "stopped"} /\ LinkPhase' = LinkPhase
  <2>1. running => recovering
    BY <1>1, <1>3 DEF Coordination, SingleFlusher
  <2> QED
    BY <1>3, <2>1, PhaseValues, PhaseSame
<1>6. \A u \in Flushers : u # t => \A j \in Topics : todo[u][j] = <<>>
  <2> SUFFICES ASSUME NEW u \in Flushers, u # t, NEW j \in Topics PROVE todo[u][j] = <<>>
    OBVIOUS
  <2>1. pc[u] # "replay"
    BY <1>1, <1>3 DEF Coordination, SingleFlusher, Flushing
  <2> QED
    BY <1>1, <2>1 DEF StoreCustody, EmptyBuffers
<1>7. /\ todo'[t][k] = Tail(todo[t][k])
      /\ \A j \in Topics : j # k => todo'[t][j] = todo[t][j]
      /\ \A u \in Flushers : u # t => todo'[u] = todo[u]
  <2>1. todo[t] \in [Topics -> Seq(Nat)]
    BY <1>1 DEF TypeOK
  <2> QED
    BY <1>1, <1>2, <2>1 DEF TypeOK
<1>8. buffer[k] = <<>>
  BY <1>1, <1>3 DEF StoreCustody, EmptyBuffers
<1>9. LinkBacklog[k] = todo[t][k] /\ LinkBacklog[k] # <<>>
  BY <1>2, <1>6, BacklogIs
<1>10. LinkBacklog'[k] = Tail(LinkBacklog[k])
  <2>1. \A u \in Flushers : u # t => todo'[u][k] = <<>>
    BY <1>6, <1>7
  <2>2. CASE todo'[t][k] = <<>>
    BY <1>3, <1>7, <1>8, <1>9, <2>1, <2>2, BacklogIsNext
  <2>3. CASE todo'[t][k] # <<>>
    BY <1>7, <1>9, <2>1, <2>3, BacklogIsNext
  <2> QED
    BY <2>2, <2>3
<1>11. \A j \in Topics : j # k => LinkBacklog'[j] = LinkBacklog[j]
  <2> SUFFICES ASSUME NEW j \in Topics, j # k PROVE LinkBacklog'[j] = LinkBacklog[j]
    OBVIOUS
  <2>1. \A u \in Flushers : todo'[u][j] = todo[u][j]
    BY <1>7
  <2> QED
    BY <1>3, <2>1, BacklogSame
<1>12. LinkBacklog' = [LinkBacklog EXCEPT ![k] = Tail(LinkBacklog[k])]
  BY <1>10, <1>11, BacklogChanges
<1>13. LinkStage' = LinkStage
  <2>1. \A j \in Topics : StageAt(j)' = StageAt(j)
    BY <1>3, StageSame DEF Unlimited
  <2> QED
    BY <1>1, <2>1, StageStays
<1>14. Link!Release(k)
  BY <1>3, <1>4, <1>5, <1>9, <1>12, <1>13 DEF Link!Release
<1> QED
  BY <1>14

-----------------------------------------------------------------------------
(* The steps of the link. *)

\* A thread that begins or ends a recovery, or swaps the buffers, carries a message that
\* it has not brought to its gate, or none.
LEMMA FlusherStages ==
  ASSUME LinkInv, HandCustody', Limited = {}, NEW t \in Flushers, hand' = hand,
         NEW place, pc' = [pc EXCEPT ![t] = place],
         t # Monitor => pc[t] \notin {"gate", "deliver"} /\ place \notin {"gate", "deliver"}
  PROVE  LinkStage' = LinkStage
<1>1. \A w \in Workers : \/ pc'[w] = pc[w]
                         \/ pc[w] \notin {"gate", "deliver"} /\ pc'[w] \notin {"gate", "deliver"}
  BY ThreadFacts DEF LinkInv, TypeOK
<1>2. \A j \in Topics : StageAt(j)' = StageAt(j)
  BY <1>1, StageSame, CarrierFacts DEF Unlimited
<1> QED
  BY <1>2, StageStays DEF LinkInv, MessageInv

LEMMA MapsToBeginRecovery ==
  ASSUME LinkInv, HandCustody', Limited = {}, NEW t \in Flushers, RecoveryBegins(t)
  PROVE  Link!BeginRecovery
<1>1. /\ active /\ expired /\ running' = running /\ recovering' = TRUE
      /\ pc' = [pc EXCEPT ![t] = "swap"] /\ (t # Monitor => pc[t] = "check")
      /\ UNCHANGED <<buffer, todo, hand, next, out>>
  BY DEF RecoveryBegins, BeginRecovery, FaultExpired, Goto, pathVars
<1>2. running /\ ~recovering
  BY <1>1 DEF LinkInv, Coordination, StopOrder, SingleFlusher
<1>3. LinkPhase = "over" /\ LinkPhase' = "recovering"
  BY <1>1, <1>2, PhaseValues, PhaseValuesNext
<1>4. LinkStage' = LinkStage
  BY <1>1, FlusherStages
<1>5. LinkBacklog' = LinkBacklog
  BY <1>1, BacklogSame, BacklogStays
<1> QED
  BY <1>1, <1>3, <1>4, <1>5 DEF Link!BeginRecovery, Link!Turn

LEMMA SwapMapsToNothing ==
  ASSUME LinkInv, HandCustody', Limited = {}, NEW t \in Flushers, SwapFaultBuffers(t)
  PROVE  UNCHANGED Link!vars
<1>1. /\ pc[t] = "swap" /\ pc' = [pc EXCEPT ![t] = "replay"]
      /\ UNCHANGED <<running, active, expired, recovering, hand, next, out>>
  BY DEF SwapFaultBuffers, Goto, faultVars, pathVars
<1>2. LinkStage' = LinkStage
  BY <1>1, FlusherStages
<1>3. LinkBacklog' = LinkBacklog
  BY BacklogSwap, BacklogStays DEF LinkInv, MessageInv
<1> QED
  BY <1>1, <1>2, <1>3, PhaseSame DEF Link!vars

\* A recovery ends with nothing left behind; if the module has been stopped in the
\* middle of it, the link has gone already.
LEMMA MapsToEndRecovery ==
  ASSUME LinkInv, HandCustody', Limited = {}, NEW t \in Flushers, RecoveryEnds(t)
  PROVE  Link!EndRecovery \/ UNCHANGED Link!vars
<1>1. TypeOK /\ HandCustody /\ StoreCustody /\ Coordination
  BY DEF LinkInv, MessageInv
<1>2. /\ pc[t] = "replay" /\ Flushing(t) /\ todo[t] = EmptyBuffers /\ recovering' = FALSE
      /\ UNCHANGED <<running, active, expired, buffer, todo, hand, next, out>>
  BY DEF RecoveryEnds, Flushing, faultVars, pathVars
<1>3. PICK place : /\ pc' = [pc EXCEPT ![t] = place]
                   /\ t # Monitor => place \notin {"gate", "deliver"}
  BY DEF RecoveryEnds
<1>4. LinkStage' = LinkStage
  BY <1>2, <1>3, FlusherStages
<1>5. LinkBacklog' = LinkBacklog
  BY <1>2, BacklogSame, BacklogStays
<1>6. CASE ~running
  BY <1>2, <1>4, <1>5, <1>6, PhaseValues, PhaseValuesNext DEF Link!vars
<1>7. CASE running
  <2>1. recovering /\ ~active
    BY <1>1, <1>2, <1>7 DEF Coordination, SingleFlusher
  <2>2. LinkPhase = "recovering" /\ LinkPhase' = "up"
    BY <1>2, <1>7, <2>1, PhaseValues, PhaseValuesNext
  <2>3. \A u \in Flushers : todo[u] = EmptyBuffers
    BY <1>1, <1>2 DEF Coordination, SingleFlusher, Flushing, StoreCustody
  <2>4. \A k \in Topics : LinkBacklog[k] = <<>>
    <3> SUFFICES ASSUME NEW k \in Topics PROVE LinkBacklog[k] = <<>>
      OBVIOUS
    <3>1. buffer[k] = <<>> /\ \A u \in Flushers : todo[u][k] = <<>>
      BY <1>1, <1>2, <2>3 DEF StoreCustody, EmptyBuffers
    <3> QED
      BY <3>1, BacklogIs
  <2> QED
    BY <1>2, <1>4, <1>5, <2>2, <2>4, LinkTopicsAre DEF Link!EndRecovery, Link!Turn
<1> QED
  BY <1>6, <1>7

LEMMA MapsToStartFault ==
  ASSUME LinkInv, HandCustody', Limited = {}, NEW t \in {Control, Timer}, Start(t)
  PROVE  Link!StartFault
<1>1. Coordination /\ TypeOK
  BY DEF LinkInv
<1>2. ~active /\ ~recovering /\ buffer = EmptyBuffers
  BY <1>1, StartFindsQuiet
<1>3. running
  BY <1>1 DEF Start, Coordination, Started
<1>4. /\ running' /\ active' = TRUE /\ expired' = FALSE /\ recovering' = recovering
      /\ buffer' = buffer /\ UNCHANGED <<todo, hand, next, out>>
      /\ pc' = [pc EXCEPT ![t] = "notifyOne"]
  BY <1>2, <1>3 DEF Start, StartNodeFault, Goto, pathVars
<1>5. LinkPhase = "up" /\ LinkPhase' = "down"
  BY <1>2, <1>3, <1>4, PhaseValues, PhaseValuesNext
<1>6. LinkStage' = LinkStage
  <2>1. \A w \in Workers : pc'[w] = pc[w]
    BY <1>1, <1>4, ThreadFacts DEF TypeOK
  <2>2. \A j \in Topics : StageAt(j)' = StageAt(j)
    BY <1>4, <2>1, StageSame, CarrierFacts DEF Unlimited
  <2> QED
    BY <2>2, StageStays DEF LinkInv, MessageInv
<1>7. LinkBacklog' = LinkBacklog
  BY <1>4, BacklogSame, BacklogStays
<1> QED
  BY <1>4, <1>5, <1>6, <1>7 DEF Link!StartFault, Link!Turn

\* Aside from that the window may end, the module may be stopped, or nothing happens
\* to the link.
LEMMA AsideMaps ==
  ASSUME LinkInv, TypeOK', HandCustody', Limited = {}, Aside
  PROVE  Link!WindowEnds \/ Link!Stop \/ UNCHANGED Link!vars
<1>1. TypeOK /\ HandCustody /\ Coordination
  BY DEF LinkInv, MessageInv
<1>2. /\ UNCHANGED <<buffer, todo, hand, next, out>>
      /\ running' => UNCHANGED <<running, active, recovering>>
      /\ expired => expired'
  BY DEF Aside, pathVars
<1>3. \A w \in Workers : pc'[w] = pc[w] \/ hand[w].topic = 0
  BY <1>1, ThreadFacts DEF Aside, HandCustody
<1>4. LinkStage' = LinkStage
  <2>1. \A j \in Topics : StageAt(j)' = StageAt(j)
    BY <1>2, <1>3, StageSame, CarrierFacts DEF Unlimited
  <2> QED
    BY <1>1, <2>1, StageStays
<1>5. LinkBacklog' = LinkBacklog
  BY <1>2, BacklogSame, BacklogStays
<1>6. CASE ~running'
  <2>1. LinkPhase' = "stopped"
    BY <1>6, PhaseValuesNext
  <2> QED
    BY <1>2, <1>4, <1>5, <2>1 DEF Link!Stop, Link!Turn, Link!vars
<1>7. CASE running'
  <2>1. running' = running /\ active' = active /\ recovering' = recovering /\ running
    BY <1>2, <1>7
  <2>2. CASE expired' = expired \/ recovering \/ ~active
    <3>1. LinkPhase' = LinkPhase
      <4>1. CASE expired' = expired
        BY <2>1, <4>1, PhaseSame
      <4>2. CASE recovering
        BY <2>1, <4>2, PhaseValues, PhaseValuesNext
      <4>3. CASE ~recovering /\ ~active
        BY <2>1, <4>3, PhaseValues, PhaseValuesNext
      <4> QED
        BY <2>2, <4>1, <4>2, <4>3
    <3> QED
      BY <1>2, <1>4, <1>5, <3>1 DEF Link!vars
  <2>3. CASE expired' # expired /\ ~recovering /\ active
    <3>1. ~expired /\ expired'
      <4>1. expired \in BOOLEAN /\ expired' \in BOOLEAN
        BY <1>1 DEF TypeOK
      <4> QED
        BY <1>2, <2>3, <4>1
    <3>2. LinkPhase = "down" /\ LinkPhase' = "over"
      BY <2>1, <2>3, <3>1, PhaseValues, PhaseValuesNext
    <3> QED
      BY <1>2, <1>4, <1>5, <3>2 DEF Link!WindowEnds, Link!Turn
  <2> QED
    BY <2>2, <2>3
<1> QED
  BY <1>6, <1>7

-----------------------------------------------------------------------------
(* The refinement. *)

LEMMA InitOneGate == Init => OneGate
BY DEF Init, OneGate, NoMessage

LEMMA LinkInvHolds == ~ScheduledFault => (Spec => []LinkInv)
<1> SUFFICES ASSUME ~ScheduledFault PROVE Spec => []LinkInv
  OBVIOUS
<1>1. TypeOK /\ Coordination /\ MessageInv /\ GateKept /\ NotifyKept /\ OneGate => LinkInv
  BY DEF LinkInv
<1>2. MessageInv => HandCustody
  BY DEF MessageInv
<1> QED
  BY <1>1, <1>2, InitNotify, StepNotify, InitOneGate, StepOneGate, GateHolds, MessagesHold,
     TypeCorrect, CoordinationHolds, PTL DEF Spec

LEMMA InitLink == ASSUME Init, Limited = {} PROVE Link!Init
<1>1. LinkPhase = "up"
  BY PhaseValues DEF Init
<1>2. LinkStage = [k \in Topics |-> "none"]
  <2>1. \A k \in Topics : Carriers(k) = {}
    BY TopicFacts DEF Init, Carriers, NoMessage
  <2> QED
    BY <2>1 DEF LinkStage
<1>3. LinkBacklog = [k \in Topics |-> <<>>]
  <2>1. \A k \in Topics : LinkBacklog[k] = <<>>
    BY BacklogIs DEF Init, EmptyBuffers
  <2> QED
    BY <2>1 DEF LinkBacklog
<1>4. next = [k \in Topics |-> 0] /\ out = [k \in Topics |-> <<>>]
  BY DEF Init, EmptyBuffers
<1> QED
  BY <1>1, <1>2, <1>3, <1>4, LinkTopicsAre DEF Link!Init

LEMMA StepLink ==
  ASSUME LinkInv, TypeOK', Limited = {}, [Next]_vars
  PROVE  [Link!Next]_(Link!vars)
<1> DEFINE Maps(k) == \/ Link!Accept(k) \/ Link!Enter(k) \/ Link!Hold(k) \/ Link!Clear(k)
                      \/ Link!Leave(k) \/ Link!Release(k)
           Goal == [Link!Next]_(Link!vars)
<1>1. TypeOK /\ HandCustody /\ HandCustody'
  BY StepHandCustody DEF LinkInv, MessageInv
<1>2. ASSUME NEW k \in Topics, Maps(k) PROVE Goal
  BY <1>2, LinkTopicsAre DEF Link!Next, Link!MessageStep
<1>3. ASSUME \/ Link!StartFault \/ Link!WindowEnds \/ Link!BeginRecovery
             \/ Link!EndRecovery \/ Link!Stop
      PROVE  Goal
  BY <1>3 DEF Link!Next, Link!LinkStep
<1>4. ASSUME UNCHANGED Link!vars PROVE Goal
  BY <1>4
<1>5. ASSUME NEW w \in Workers, pc[w] \in CarryPlaces,
             \A k : k = hand[w].topic => Maps(k) \/ UNCHANGED Link!vars
      PROVE  Goal
  <2>1. PICK k : k = hand[w].topic
    OBVIOUS
  <2>2. k \in Topics
    BY <1>1, <1>5, <2>1, CarriesOwn
  <2> HIDE DEF Goal, Maps
  <2> QED
    BY <1>2, <1>4, <1>5, <2>1, <2>2
<1> HIDE DEF Goal
<1>6. ASSUME NEW k \in SendTopics, SubCallback(k) PROVE Goal
  <2>1. k \in Topics /\ Carrier(k) = Main /\ Main \in Workers
    BY TopicFacts, ThreadFacts DEF Carrier
  <2>2. /\ pc[Main] = "idle" /\ pc' = [pc EXCEPT ![Main] = "check"]
        /\ hand'[Main].topic = k /\ hand'[Main].gates = 2
        /\ \A v \in Workers : v # Main => hand'[v] = hand[v]
        /\ next' = [next EXCEPT ![k] = next[k] + 1]
        /\ UNCHANGED <<faultVars, recovering, buffer, todo, out>>
    BY <1>1, <1>6, <2>1 DEF SubCallback, Goto, TypeOK
  <2>3. Link!Accept(k)
    BY <1>1, <2>1, <2>2, MapsToAccept
  <2> QED
    BY <1>2, <2>1, <2>3
<1>7. ASSUME NEW k \in RecvTopics, Receive(k) PROVE Goal
  <2>1. k \in Topics /\ Carrier(k) = k /\ k \in Workers /\ k # Main
    BY TopicFacts, ThreadFacts DEF Carrier
  <2>2. /\ pc[k] = "idle" /\ pc' = [pc EXCEPT ![k] = "check"]
        /\ hand'[k].topic = k
        /\ \A v \in Workers : v # k => hand'[v] = hand[v]
        /\ next' = [next EXCEPT ![k] = next[k] + 1]
        /\ UNCHANGED <<faultVars, recovering, buffer, todo, out>>
    BY <1>1, <1>7, <2>1 DEF Receive, Goto, TypeOK
  <2>3. Link!Accept(k)
    BY <1>1, <2>1, <2>2, MapsToAccept
  <2> QED
    BY <1>2, <2>1, <2>3
<1>8. ASSUME NEW w \in Workers, ComesToGate(w) PROVE Goal
  <2>1. pc[w] \in CarryPlaces
    BY <1>8 DEF ComesToGate, CarryPlaces
  <2>2. \A k : k = hand[w].topic => Maps(k) \/ UNCHANGED Link!vars
    BY <1>1, <1>8, MapsToEnter
  <2> QED
    BY <1>5, <2>1, <2>2
<1>9. ASSUME NEW w \in Workers, ConsumeByFault(w) PROVE Goal
  <2>1. pc[w] \in CarryPlaces
    BY <1>9 DEF ConsumeByFault, AtGate, CarryPlaces
  <2>2. \A k : k = hand[w].topic => Maps(k) \/ UNCHANGED Link!vars
    BY <1>1, <1>9, MapsToHold
  <2> QED
    BY <1>5, <2>1, <2>2
<1>10. ASSUME NEW w \in Workers, PassFaultGate(w) PROVE Goal
  <2>1. pc[w] \in CarryPlaces
    BY <1>10 DEF PassFaultGate, AtGate, CarryPlaces
  <2>2. \A k : k = hand[w].topic => Maps(k) \/ UNCHANGED Link!vars
    BY <1>1, <1>10, MapsToClear
  <2> QED
    BY <1>5, <2>1, <2>2
<1>11. ASSUME NEW w \in Workers, Deliver(w) PROVE Goal
  <2>1. pc[w] \in CarryPlaces
    BY <1>11 DEF Deliver, CarryPlaces
  <2>2. \A k : k = hand[w].topic => Maps(k) \/ UNCHANGED Link!vars
    BY <1>1, <1>11, MapsToLeave
  <2> QED
    BY <1>5, <2>1, <2>2
<1>12. ASSUME NEW t \in Flushers, ReplayOne(t) PROVE Goal
  BY <1>1, <1>2, <1>12, MapsToRelease
<1>13. ASSUME NEW t \in Flushers, RecoveryBegins(t) \/ SwapFaultBuffers(t) \/ RecoveryEnds(t)
       PROVE  Goal
  BY <1>1, <1>3, <1>4, <1>13, MapsToBeginRecovery, SwapMapsToNothing, MapsToEndRecovery
<1>14. ASSUME NEW t \in {Control, Timer}, Start(t) PROVE Goal
  BY <1>1, <1>3, <1>14, MapsToStartFault
<1>15. ASSUME Aside PROVE Goal
  BY <1>1, <1>3, <1>4, <1>15, AsideMaps
<1>16. Goal
  BY <1>1, <1>6, <1>7, <1>8, <1>9, <1>10, <1>11, <1>12, <1>13, <1>14, <1>15, StepMoves
<1> QED
  BY <1>16 DEF Goal

\* For any number of topics, the node's two flags, one condition variable and up to
\* three kinds of threads are one link with a backlog per topic: every step of SimComm,
\* under the refinement mapping of SimCommProperties, is a step of FaultLink or none.
THEOREM LinkImplemented ==
  ~ScheduledFault /\ Limited = {} => (Spec => ImplementsLink)
<1> SUFFICES ASSUME ~ScheduledFault, Limited = {} PROVE Spec => ImplementsLink
  OBVIOUS
<1>1. Init => Link!Init
  BY InitLink
<1>2. LinkInv /\ TypeOK' /\ [Next]_vars => [Link!Next]_(Link!vars)
  BY StepLink
<1> QED
  BY <1>1, <1>2, LinkInvHolds, TypeCorrect, PTL DEF Spec, ImplementsLink, Link!Spec
=============================================================================
