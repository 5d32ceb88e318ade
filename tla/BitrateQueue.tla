---------------------------- MODULE BitrateQueue ----------------------------
(***************************************************************************)
(* The bitrate control of one send topic (sim_comm.cpp): the bounded queue *)
(* filled by enqueue_send_message and the token bucket of send_func.       *)
(*                                                                         *)
(* A message is its length in bytes.  Time is steady_clock in ticks, Rate  *)
(* the bytes per tick that max_bitrate allows; fractions of a byte are     *)
(* left out.  An action is one section of send_queue_mutexes[topic], or    *)
(* the end of a message's way from the queue to ZMQ.                       *)
(***************************************************************************)
EXTENDS Integers, Sequences, FiniteSetsExt, SequencesExt

CONSTANTS
  Lens,      \* the lengths messages have
  MaxLen,    \* the longest of them
  Rate,      \* max_bitrate / 8, per tick
  Window,    \* max_bitrate / 8 * BITRATE_QUEUE_WINDOW_SEC, in whole bytes
  MaxQueue,  \* MAX_BITRATE_QUEUE_MESSAGES
  MaxTime    \* bound: ticks

AtLeast(a, b) == IF a < b THEN b ELSE a
AtMost(a, b) == IF a < b THEN a ELSE b

ASSUME BitrateAssumption ==
  /\ MaxLen \in Nat
  /\ Lens \subseteq 0..MaxLen
  /\ Rate \in Nat \ {0}
  /\ Window \in Nat
  /\ MaxQueue \in Nat \ {0}
  /\ MaxTime \in Nat

BaseCapacity == AtLeast(1, Window)

VARIABLES
  queue,       \* send_queues: the lengths of the waiting messages, oldest first
  queueBytes,  \* send_queue_bytes
  flag,        \* send_thread_flags
  pc,          \* send_func: "ready" for the next message, "sending" one, "done"
  tokens,      \* available_tokens
  lastRefill,  \* last_refill_time
  now,         \* steady_clock
  inHand,      \* message, in send_func: bytes taken from the queue, not yet sent
  sent,        \* bytes given to ZMQ
  markTime,    \* a moment an observer picked ...
  markSent     \* ... and sent at that moment

vars == <<queue, queueBytes, flag, pc, tokens, lastRefill, now, inHand, sent, markTime,
          markSent>>
bucketVars == <<tokens, lastRefill>>
sendVars == <<inHand, sent>>
markVars == <<markTime, markSent>>

Init ==
  /\ queue = <<>>
  /\ queueBytes = 0
  /\ flag = TRUE
  /\ pc = "ready"
  /\ tokens = BaseCapacity
  /\ lastRefill = 0
  /\ now = 0
  /\ inHand = 0
  /\ sent = 0
  /\ markTime = 0
  /\ markSent = 0

-----------------------------------------------------------------------------
SumLens(s) ==
  LET upTo[n \in 0..Len(s)] == IF n = 0 THEN 0 ELSE upTo[n - 1] + s[n]
  IN  upTo[Len(s)]

Newest(s, n) == SubSeq(s, n + 1, Len(s))

\* Mutant: the message count is compared one too late.
RoomAfterOffByOne(n, len) ==
  LET bytes == queueBytes - SumLens(SubSeq(queue, 1, n))
  IN  Len(queue) - n <= MaxQueue /\ bytes + len <= AtLeast(Window, len)

\* Without its n oldest messages the queue has room for one of length len.
RoomAfter(n, len) ==
  LET bytes == queueBytes - SumLens(SubSeq(queue, 1, n))
  IN  Len(queue) - n < MaxQueue /\ bytes + len <= AtLeast(Window, len)

\* Mutant: the length of the new message is taken off for each one dropped.
EnqueueWrongBytes(len) ==
  /\ \E n \in 0..Len(queue) :
       /\ n = Len(queue) \/ RoomAfter(n, len)
       /\ \A j \in 0..(n - 1) : ~RoomAfter(j, len)
       /\ queue' = Append(Newest(queue, n), len)
       /\ queueBytes' = queueBytes - n * len + len
  /\ UNCHANGED <<flag, pc, bucketVars, now, sendVars, markVars>>

\* enqueue_send_message: drop the oldest until there is room or nothing left.
EnqueueSendMessage(len) ==
  /\ \E n \in 0..Len(queue) :
       /\ n = Len(queue) \/ RoomAfter(n, len)
       /\ \A j \in 0..(n - 1) : ~RoomAfter(j, len)
       /\ queue' = Append(Newest(queue, n), len)
       /\ queueBytes' = queueBytes - SumLens(SubSeq(queue, 1, n)) + len
  /\ UNCHANGED <<flag, pc, bucketVars, now, sendVars, markVars>>

-----------------------------------------------------------------------------
(* send_func. Its two waits need no state: it goes on when the queue has a
   message, looks at its flag and refills the bucket for the message in front. *)

Awake == pc = "ready" /\ flag /\ queue # <<>>
FrontLen == Head(queue)

\* Mutant: the bucket does not grow for a message larger than its capacity.
RefilledNeverLarger == AtMost(BaseCapacity, tokens + (now - lastRefill) * Rate)

\* Mutant: the bucket is never cut to its capacity.
RefilledUncapped == tokens + (now - lastRefill) * Rate

\* Mutant: the time since the thread began counts again at every refill.
RefilledFromStart == AtMost(AtLeast(BaseCapacity, FrontLen), tokens + now * Rate)

\* The bucket holds the base capacity, or the front message if that is larger.
Refilled ==
  AtMost(AtLeast(BaseCapacity, FrontLen), tokens + (now - lastRefill) * Rate)

\* Mutant: the bytes of a message sent are not taken off.
PopKeepingBytes ==
  /\ Awake
  /\ Refilled >= FrontLen
  /\ lastRefill' = now
  /\ tokens' = Refilled - FrontLen
  /\ inHand' = FrontLen
  /\ queue' = Tail(queue)
  /\ pc' = "sending"
  /\ UNCHANGED <<flag, now, queueBytes, sent, markVars>>

Pop ==
  /\ Awake
  /\ Refilled >= FrontLen
  /\ lastRefill' = now
  /\ tokens' = Refilled - FrontLen
  /\ inHand' = FrontLen
  /\ queue' = Tail(queue)
  /\ queueBytes' = queueBytes - FrontLen
  /\ pc' = "sending"
  /\ UNCHANGED <<flag, now, sent, markVars>>

\* Too few tokens: the refill stays, the thread pauses for at most 20 ms.
RefillAndPause ==
  /\ Awake
  /\ Refilled < FrontLen
  /\ lastRefill' = now
  /\ tokens' = Refilled
  /\ UNCHANGED <<queue, queueBytes, flag, pc, now, sendVars, markVars>>

\* The gate of consume_send_message_if_fault_active lets the message pass, after a
\* recovery it may have waited for; send_serialized_message gives it to ZMQ ...
SendSerializedMessage ==
  /\ pc = "sending"
  /\ pc' = "ready"
  /\ sent' = sent + inHand
  /\ inHand' = 0
  /\ UNCHANGED <<queue, queueBytes, flag, bucketVars, now, markVars>>

\* ... or the fault policy takes it. A replay enqueues it again, as a new message here.
ConsumedByFault ==
  /\ pc = "sending"
  /\ pc' = "ready"
  /\ inHand' = 0
  /\ UNCHANGED <<queue, queueBytes, flag, bucketVars, now, sent, markVars>>

Exit ==
  /\ pc = "ready"
  /\ ~flag
  /\ pc' = "done"
  /\ UNCHANGED <<queue, queueBytes, flag, bucketVars, now, sendVars, markVars>>

\* stop_send_bitrate_control
Stop ==
  /\ flag
  /\ flag' = FALSE
  /\ UNCHANGED <<queue, queueBytes, pc, bucketVars, now, sendVars, markVars>>

-----------------------------------------------------------------------------
Tick ==
  /\ now < MaxTime
  /\ now' = now + 1
  /\ UNCHANGED <<queue, queueBytes, flag, pc, bucketVars, sendVars, markVars>>

\* The observer starts measuring.
Mark ==
  /\ markTime' = now
  /\ markSent' = sent
  /\ UNCHANGED <<queue, queueBytes, flag, pc, bucketVars, now, sendVars>>

Next ==
  \/ \E len \in Lens : EnqueueSendMessage(len)
  \/ Pop
  \/ RefillAndPause
  \/ SendSerializedMessage
  \/ ConsumedByFault
  \/ Exit
  \/ Stop
  \/ Tick
  \/ Mark

Spec == Init /\ [][Next]_vars

\* The send thread runs, its gate returns (SimComm: WorkersReturn) and the clock
\* advances; producers, faults and the stop are left to themselves.
SendFunc == Pop \/ RefillAndPause \/ SendSerializedMessage \/ ConsumedByFault \/ Exit
LiveSpec == Spec /\ WF_vars(SendFunc) /\ WF_vars(Tick)

-----------------------------------------------------------------------------
\* Every variable keeps its type: no byte counter, token or time goes below zero
\* (queueBytes is an unsigned size_t in the code), and time does not run back.
TypeOK ==
  /\ queue \in Seq(Lens)
  /\ queueBytes \in Nat
  /\ flag \in BOOLEAN
  /\ pc \in {"ready", "sending", "done"}
  /\ tokens \in Nat
  /\ lastRefill \in 0..now
  /\ now \in 0..MaxTime
  /\ inHand \in Nat
  /\ sent \in Nat
  /\ markTime \in 0..now
  /\ markSent \in 0..sent

\* send_queue_bytes is kept by adding and subtracting in three places; it is always
\* the sum of what the queue holds, so its comparison with the window is right.
BytesExact == queueBytes = SumLens(queue)

\* The backlog is never more than the window's worth of bytes, unless a single
\* message is larger than the window, and never more than MaxQueue messages.
BacklogBounded ==
  /\ Len(queue) <= MaxQueue
  /\ queue # <<>> => queueBytes <= AtLeast(Window, Last(queue))

\* The topic never exceeds its bitrate: since the start it has given ZMQ at most the
\* window's worth of bytes more than the rate allows, whatever the message lengths.
RateKept == sent <= BaseCapacity + Rate * now

\* Nor does it from any moment an observer may pick, but for one bucket and one message:
\* while the thread holds a message through a fault recovery, the bucket fills again, and
\* then both leave at once. The bucket is the window, or the longest message.
Bucket == AtLeast(BaseCapacity, MaxLen)
IntervalRateKept == sent - markSent <= MaxLen + Bucket + Rate * (now - markTime)

\* A backlog moves: in the time the rate needs for the longest message, send_func takes
\* one from the queue or is stopped - also when the bucket's usual size could never pay
\* for the message in front, and when drops keep changing which message that is. The
\* clock of the model ends, hence the premise.
EarlyEnough == {t \in 0..MaxTime : Rate * (MaxTime - t) >= MaxLen}
BacklogMoves == (queue # <<>> /\ now \in EarlyEnough) ~> (pc = "sending" \/ ~flag)
=============================================================================
