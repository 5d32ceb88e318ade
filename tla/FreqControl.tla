---------------------------- MODULE FreqControl ----------------------------
(***************************************************************************)
(* The frequency control of one send topic, send_freq_control in           *)
(* bridge_node.cpp, over ros::Time: a clock that may stand still, advance  *)
(* by any amount and, with simulated time or a corrected wall clock, go    *)
(* back.                                                                   *)
(***************************************************************************)
EXTENDS Integers

CONSTANTS
  MaxFreq,       \* max_freq, in messages per second
  Second,        \* ticks in a second: the period of the control
  MaxTime,       \* bound: largest value of the clock
  MaxForwarded   \* bound: messages that get through

ASSUME FreqAssumption ==
  /\ MaxFreq \in Nat
  /\ Second \in Nat \ {0}
  /\ MaxTime \in Nat
  /\ MaxForwarded \in Nat

VARIABLES
  now,            \* ros::Time::now()
  subTLast,       \* sub_t_last: start of the current period
  sendNum,        \* send_num: messages that got through in it
  forwarded,      \* messages that got through, ever
  markValid,      \* an observer is measuring, and the clock has not gone back since
  markTime,       \* when the observer began ...
  markLast,       \* ... in the period that began then ...
  markForwarded   \* ... and how many messages had got through

vars == <<now, subTLast, sendNum, forwarded, markValid, markTime, markLast, markForwarded>>
markVars == <<markTime, markLast, markForwarded>>

Init ==
  /\ now \in 0..MaxTime
  /\ subTLast = now
  /\ sendNum = 0
  /\ forwarded = 0
  /\ markValid = TRUE
  /\ markTime = now
  /\ markLast = now
  /\ markForwarded = 0

Elapsed == now - subTLast

\* Mutant: the message that asks is not counted.
ExceedsWithoutThis ==
  IF Elapsed = 0 THEN sendNum > 0
  ELSE Elapsed > 0 /\ sendNum * Second > MaxFreq * Elapsed

\* (send_num + 1) / elapsed > max_freq over doubles: dividing by zero gives infinity,
\* which is above any limit, and a negative elapsed time gives a negative rate, which
\* is above none.
Exceeds ==
  \/ Elapsed = 0
  \/ Elapsed > 0 /\ (sendNum + 1) * Second > MaxFreq * Elapsed

PeriodOver == Elapsed > Second

\* Mutant: discarded messages are counted, too.
SubCallbackCountingAll ==
  /\ forwarded < MaxForwarded
  /\ forwarded' = IF Exceeds THEN forwarded ELSE forwarded + 1
  /\ sendNum' = IF PeriodOver THEN 0 ELSE sendNum + 1
  /\ subTLast' = IF PeriodOver THEN now ELSE subTLast
  /\ UNCHANGED <<now, markValid, markVars>>

\* Mutant: the end of a period resets the count but not the start of the period.
SubCallbackKeepingStart ==
  /\ forwarded < MaxForwarded
  /\ forwarded' = IF Exceeds THEN forwarded ELSE forwarded + 1
  /\ sendNum' = IF PeriodOver THEN 0 ELSE IF Exceeds THEN sendNum ELSE sendNum + 1
  /\ UNCHANGED <<now, subTLast, markValid, markVars>>


\* sub_cb asks send_freq_control and goes on only if the message may pass.
SubCallback ==
  /\ forwarded < MaxForwarded
  /\ forwarded' = IF Exceeds THEN forwarded ELSE forwarded + 1
  /\ sendNum' = IF PeriodOver THEN 0 ELSE IF Exceeds THEN sendNum ELSE sendNum + 1
  /\ subTLast' = IF PeriodOver THEN now ELSE subTLast
  /\ UNCHANGED <<now, markValid, markVars>>

Advance ==
  /\ \E t \in (now + 1)..MaxTime : now' = t
  /\ UNCHANGED <<subTLast, sendNum, forwarded, markValid, markVars>>

\* The observer's measure means nothing across a clock that goes back.
GoBack ==
  /\ \E t \in 0..(now - 1) : now' = t
  /\ markValid' = FALSE
  /\ UNCHANGED <<subTLast, sendNum, forwarded, markVars>>

\* The observer starts anew, unless the clock is still behind the current period.
Mark ==
  /\ subTLast <= now
  /\ markValid' = TRUE
  /\ markTime' = now
  /\ markLast' = subTLast
  /\ markForwarded' = forwarded
  /\ UNCHANGED <<now, subTLast, sendNum, forwarded>>

Next == SubCallback \/ Advance \/ GoBack \/ Mark

Spec == Init /\ [][Next]_vars

-----------------------------------------------------------------------------
\* Every variable keeps its type; a count of the period never exceeds the total.
TypeOK ==
  /\ now \in 0..MaxTime
  /\ subTLast \in 0..MaxTime
  /\ forwarded \in 0..MaxForwarded
  /\ sendNum \in 0..forwarded
  /\ markValid \in BOOLEAN
  /\ markTime \in 0..MaxTime
  /\ markLast \in 0..MaxTime
  /\ markForwarded \in 0..forwarded

Through == forwarded - markForwarded

\* Over any stretch of time in which the clock did not go back, a topic lets through
\* what max_freq allows and at most one more second's worth: the period is renewed
\* without regard to how its messages were spread, so bursts of two periods may meet.
IntervalFreqKept ==
  markValid => Through * Second <= MaxFreq * ((now - markTime) + Second)

\* Measured from the start of a period, it lets through what max_freq allows and not
\* one message more, over any number of periods.
PeriodFreqKept ==
  markValid /\ markTime = markLast => Through * Second <= MaxFreq * (now - markTime)
=============================================================================
