------------------------------ MODULE FaultLink ------------------------------
(***************************************************************************)
(* What the communication control promises of a node, with no thread, lock *)
(* or condition variable in sight: a link that is up, down for a fault     *)
(* window, over the window but not yet recovered, recovering, or stopped;  *)
(* and per topic one message under way and the backlog of the fault.       *)
(*                                                                         *)
(* SimComm is shown to implement it when nothing starts a fault by timer   *)
(* and no topic has a bitrate limit. TwoNodes joins two of them.           *)
(***************************************************************************)
EXTENDS Integers, Sequences

CONSTANTS
  SendTopics, RecvTopics,
  Policy  \* fault_policy of each topic: "drop", "buffer" or "latest"

LinkTopics == SendTopics \cup RecvTopics

VARIABLES
  phase,     \* "up", "down", "over", "recovering", "stopped"
  accepted,  \* per topic, messages accepted so far; the last one bears that number
  stage,     \* per topic, of the accepted message that is neither held nor out yet
  backlog,   \* per topic, what the fault holds back
  out        \* per topic, what has left

vars == <<phase, accepted, stage, backlog, out>>

Init ==
  /\ phase = "up"
  /\ accepted = [k \in LinkTopics |-> 0]
  /\ stage = [k \in LinkTopics |-> "none"]
  /\ backlog = [k \in LinkTopics |-> <<>>]
  /\ out = [k \in LinkTopics |-> <<>>]

-----------------------------------------------------------------------------
(* A message of topic k: at most one is between its acceptance and its end. *)

Proceed(k, from, to) ==
  /\ stage[k] = from
  /\ stage' = [stage EXCEPT ![k] = to]

Accept(k) ==
  /\ Proceed(k, "none", "arrived")
  /\ accepted' = [accepted EXCEPT ![k] = @ + 1]
  /\ UNCHANGED <<phase, backlog, out>>

\* A message that finds the window over has to wait for the recovery, unless it has
\* nothing to wait for.
Enter(k) ==
  /\ Proceed(k, "arrived", "entered")
  /\ phase # "over" \/ backlog[k] = <<>>
  /\ UNCHANGED <<phase, accepted, backlog, out>>

\* Mutant: the first message stays, whatever the policy.
HeldFirst(policy, held, m) == IF held = <<>> THEN <<m>> ELSE held

\* What the fault holds back of a topic that held some of it, after message m.
Held(policy, held, m) ==
  CASE policy = "drop"   -> held
    [] policy = "latest" -> <<m>>
    [] policy = "buffer" -> Append(held, m)

\* While the link is down, the policy decides.
Hold(k) ==
  /\ Proceed(k, "entered", "none")
  /\ phase = "down"
  /\ backlog' = [backlog EXCEPT ![k] = Held(Policy[k], @, accepted[k])]
  /\ UNCHANGED <<phase, accepted, out>>

\* Mutant: all topics have one gate.
InTimeOneGate(k) == TRUE

\* Between the end of the window and its discovery, a received message that had
\* entered before may go ahead of the backlog; one to be sent may not.
InTime(k) == k \in RecvTopics \/ backlog[k] = <<>>

Clear(k) ==
  /\ Proceed(k, "entered", "cleared")
  /\ \/ phase \in {"up", "stopped"}
     \/ phase = "over" /\ InTime(k)
  /\ UNCHANGED <<phase, accepted, backlog, out>>

\* What was cleared leaves, though the link may have gone down again.
Leave(k) ==
  /\ Proceed(k, "cleared", "none")
  /\ out' = [out EXCEPT ![k] = Append(@, accepted[k])]
  /\ UNCHANGED <<phase, accepted, backlog>>

\* Mutant: the replay of a topic waits for the message that waits for the replay.
ReleaseWhenIdle(k) ==
  /\ phase \in {"recovering", "stopped"}
  /\ stage[k] = "none"
  /\ backlog[k] # <<>>
  /\ out' = [out EXCEPT ![k] = Append(@, Head(backlog[k]))]
  /\ backlog' = [backlog EXCEPT ![k] = Tail(@)]
  /\ UNCHANGED <<phase, accepted, stage>>

\* A replay goes on when the link is stopped in the middle of it.
Release(k) ==
  /\ phase \in {"recovering", "stopped"}
  /\ backlog[k] # <<>>
  /\ out' = [out EXCEPT ![k] = Append(@, Head(backlog[k]))]
  /\ backlog' = [backlog EXCEPT ![k] = Tail(@)]
  /\ UNCHANGED <<phase, accepted, stage>>

-----------------------------------------------------------------------------
(* The link. *)

Turn(from, to) ==
  /\ phase = from
  /\ phase' = to
  /\ UNCHANGED <<accepted, stage, backlog, out>>

StartFault == Turn("up", "down")
WindowEnds == Turn("down", "over")
BeginRecovery == Turn("over", "recovering")
EndRecovery ==
  /\ \A k \in LinkTopics : backlog[k] = <<>>
  /\ Turn("recovering", "up")
Stop == phase # "stopped" /\ Turn(phase, "stopped")

MessageStep(k) == Enter(k) \/ Hold(k) \/ Clear(k)
LinkStep == StartFault \/ WindowEnds \/ BeginRecovery \/ EndRecovery \/ Stop

Next ==
  \/ \E k \in LinkTopics : Accept(k) \/ MessageStep(k) \/ Leave(k) \/ Release(k)
  \/ LinkStep

Spec == Init /\ [][Next]_vars
=============================================================================
