-------------------------- MODULE FreqControlProofs --------------------------
(***************************************************************************)
(* send_freq_control keeps max_freq, for every max_freq, every length of   *)
(* the period and every pattern of arrivals.                               *)
(***************************************************************************)
EXTENDS FreqControl, TLAPS

\* What n messages cost and what a stretch of time d pays for, in messages times ticks.
Cost(n) == n * Second
Pays(d) == MaxFreq * d

\* Bookkeeping of one measure. Until the period it began in is over, what got through
\* is bounded by the length of that period, and if the measure began after the period
\* was overdue, nothing got through yet. Afterwards the periods past and the current
\* one are bounded each by its own length.
OldPeriod ==
  /\ Through <= sendNum
  /\ Cost(Through) <= Pays(now - subTLast)
  /\ markTime - markLast > Second => Through = 0
NewPeriod ==
  /\ subTLast >= markTime
  /\ Cost(sendNum) <= Pays(now - subTLast)
  /\ Cost(Through - sendNum) <= Pays((subTLast - markTime) + Second)
  /\ markTime = markLast => Cost(Through - sendNum) <= Pays(subTLast - markTime)
Measure ==
  markValid => /\ markLast <= markTime
               /\ markTime <= now
               /\ subTLast <= now
               /\ IF subTLast = markLast THEN OldPeriod ELSE NewPeriod
FreqInv == TypeOK /\ Measure

-----------------------------------------------------------------------------
\* Arithmetic: costs and payments add up and grow with what they are for.
LEMMA CostAdds ==
  ASSUME NEW a \in Int, NEW b \in Int
  PROVE  Cost(a) \in Int /\ Cost(a) + Cost(b) = Cost(a + b)
BY FreqAssumption DEF FreqAssumption, Cost

LEMMA CostMonotone ==
  ASSUME NEW a \in Int, NEW b \in Int, a <= b
  PROVE  Cost(a) <= Cost(b)
BY FreqAssumption DEF FreqAssumption, Cost

LEMMA PaysAdds ==
  ASSUME NEW a \in Int, NEW b \in Int
  PROVE  Pays(a) \in Int /\ Pays(a) + Pays(b) = Pays(a + b)
BY FreqAssumption DEF FreqAssumption, Pays

LEMMA PaysMonotone ==
  ASSUME NEW a \in Int, NEW b \in Int, a <= b
  PROVE  Pays(a) <= Pays(b)
BY FreqAssumption DEF FreqAssumption, Pays

LEMMA DifferenceMonotone ==
  ASSUME NEW a \in Int, NEW b \in Int, a <= b, NEW c \in Int
  PROVE  a - c \in Int /\ b - c \in Int /\ a - c <= b - c
OBVIOUS

LEMMA Zero == Cost(0) = 0 /\ Pays(0) = 0
BY FreqAssumption DEF FreqAssumption, Cost, Pays

\* A second pays for a message if any length of time does.
LEMMA OneMessage ==
  ASSUME NEW n \in Nat, NEW d \in Int, Cost(n + 1) <= Pays(d)
  PROVE  Cost(1) <= Pays(Second)
<1>1. Cost(1) \in Nat /\ Cost(1) > 0
  BY FreqAssumption DEF FreqAssumption, Cost
<1>2. Cost(1) <= Cost(n + 1)
  BY CostMonotone
<1>3. Cost(n + 1) \in Int /\ Pays(d) \in Int
  BY CostAdds, PaysAdds
<1>4. Pays(d) > 0
  BY <1>1, <1>2, <1>3
<1>5. MaxFreq # 0
  BY <1>4, FreqAssumption DEF FreqAssumption, Pays
<1> QED
  BY <1>5, FreqAssumption DEF FreqAssumption, Cost, Pays

\* A message passes only if the current period so far pays for it, too.
LEMMA Passes ==
  ASSUME TypeOK, ~Exceeds, subTLast <= now
  PROVE  Cost(sendNum + 1) <= Pays(now - subTLast)
<1>1. sendNum \in Int /\ now - subTLast \in Int
  BY FreqAssumption DEF FreqAssumption, TypeOK
<1>2. Elapsed > 0
  BY FreqAssumption DEF FreqAssumption, TypeOK, Exceeds, Elapsed
<1>3. Cost(sendNum + 1) \in Int /\ Pays(now - subTLast) \in Int
  BY <1>1, CostAdds, PaysAdds
<1> QED
  BY <1>2, <1>3 DEF Exceeds, Elapsed, Cost, Pays

-----------------------------------------------------------------------------
LEMMA InitInv == Init => FreqInv
<1> SUFFICES ASSUME Init PROVE FreqInv
  OBVIOUS
<1>1. TypeOK
  BY FreqAssumption DEF FreqAssumption, Init, TypeOK
<1>2. Through = 0 /\ now - subTLast = 0 /\ markTime - markLast = 0
  BY FreqAssumption DEF FreqAssumption, Init, Through
<1>3. OldPeriod
  BY <1>2, Zero DEF OldPeriod, Init
<1> QED
  BY <1>1, <1>3 DEF FreqInv, Measure, Init

LEMMA TypeStep == TypeOK /\ [Next]_vars => TypeOK'
<1> SUFFICES ASSUME TypeOK, [Next]_vars PROVE TypeOK'
  OBVIOUS
<1> USE FreqAssumption DEF FreqAssumption, TypeOK, markVars
<1>1. CASE SubCallback
  BY <1>1 DEF SubCallback
<1>2. CASE Advance
  BY <1>2 DEF Advance
<1>3. CASE GoBack
  <2>1. now' \in 0..(now - 1)
    BY <1>3 DEF GoBack
  <2>2. now' \in 0..MaxTime
    BY <2>1
  <2> QED
    BY <1>3, <2>2 DEF GoBack
<1>4. CASE Mark
  BY <1>4 DEF Mark
<1>5. CASE UNCHANGED vars
  BY <1>5 DEF vars
<1> QED
  BY <1>1, <1>2, <1>3, <1>4, <1>5 DEF Next

\* Time passing only pays for more.
LEMMA AdvanceKeepsMeasure == FreqInv /\ Advance => Measure'
<1> SUFFICES ASSUME FreqInv, Advance, markValid PROVE Measure'
  BY DEF Advance, Measure
<1>0. /\ now \in Int /\ now' \in Int /\ now <= now' /\ subTLast \in Int
      /\ sendNum \in Int /\ Through \in Int
  BY FreqAssumption DEF FreqAssumption, FreqInv, TypeOK, Advance, Through
<1>1. UNCHANGED <<subTLast, sendNum, forwarded, markValid, markTime, markLast,
                  markForwarded, Through>>
  BY DEF Advance, markVars, Through
<1>2. /\ Pays(now - subTLast) <= Pays(now' - subTLast)
      /\ Pays(now - subTLast) \in Int /\ Pays(now' - subTLast) \in Int
  <2>1. now - subTLast \in Int /\ now' - subTLast \in Int /\ now - subTLast <= now' - subTLast
    BY <1>0, DifferenceMonotone
  <2> QED
    BY <2>1, PaysMonotone, PaysAdds
<1>3. /\ markLast <= markTime /\ markTime <= now /\ subTLast <= now
      /\ IF subTLast = markLast THEN OldPeriod ELSE NewPeriod
  BY DEF FreqInv, Measure
<1>4. markTime \in Int /\ markLast \in Int
  BY FreqAssumption DEF FreqAssumption, FreqInv, TypeOK
<1>5. CASE subTLast = markLast
  <2>1. Cost(Through) \in Int
    BY <1>0, CostAdds
  <2>2. OldPeriod
    BY <1>3, <1>5
  <2>3. Cost(Through) <= Pays(now' - subTLast)
    BY <2>1, <2>2, <1>2 DEF OldPeriod
  <2>4. OldPeriod'
    BY <1>1, <2>2, <2>3 DEF OldPeriod, Cost, Pays
  <2> QED
    BY <1>0, <1>1, <1>3, <1>4, <1>5, <2>4 DEF Measure
<1>6. CASE subTLast # markLast
  <2>1. Cost(sendNum) \in Int
    BY <1>0, CostAdds
  <2>2. NewPeriod
    BY <1>3, <1>6
  <2>3. Cost(sendNum) <= Pays(now' - subTLast)
    BY <2>1, <2>2, <1>2 DEF NewPeriod
  <2>4. NewPeriod'
    BY <1>1, <2>2, <2>3 DEF NewPeriod, Cost, Pays
  <2> QED
    BY <1>0, <1>1, <1>3, <1>4, <1>6, <2>4 DEF Measure
<1> QED
  BY <1>5, <1>6

\* A new measure starts in the current period, with nothing through.
LEMMA MarkKeepsMeasure == FreqInv /\ Mark => Measure'
<1> SUFFICES ASSUME FreqInv, Mark PROVE Measure'
  OBVIOUS
<1>1. /\ Through' = 0 /\ sendNum' \in Nat /\ now' = now /\ subTLast' = subTLast
      /\ now - subTLast \in Nat /\ markTime' = now /\ markLast' = subTLast
  BY FreqAssumption DEF FreqAssumption, FreqInv, TypeOK, Mark, Through
<1>2. 0 <= Pays(now - subTLast)
  BY <1>1, Zero, PaysMonotone
<1>3. Cost(0) <= Pays(now - subTLast)
  BY <1>2, Zero
<1>4. OldPeriod'
  BY <1>1, <1>3 DEF OldPeriod, Cost, Pays
<1>5. subTLast <= now
  BY DEF Mark
<1> QED
  BY <1>1, <1>4, <1>5, FreqAssumption DEF FreqAssumption, FreqInv, TypeOK, Measure

\* The messages through when the next period starts are paid for by the time up to it,
\* and by one second more if the measure began within a period.
LEMMA PeriodEnds ==
  ASSUME FreqInv, markValid, PeriodOver, NEW through \in Int,
         \/ through = Through
         \/ ~Exceeds /\ through = Through + 1
  PROVE  /\ Cost(through) <= Pays((now - markTime) + Second)
         /\ markTime = markLast => Cost(through) <= Pays(now - markTime)
<1>0. /\ now \in Int /\ subTLast \in Int /\ sendNum \in Nat /\ Through \in Int
      /\ markTime \in Int /\ markLast \in Int /\ Second \in Nat /\ MaxFreq \in Nat
  BY FreqAssumption DEF FreqAssumption, FreqInv, TypeOK, Through
<1>1. /\ markLast <= markTime /\ markTime <= now /\ subTLast <= now
      /\ IF subTLast = markLast THEN OldPeriod ELSE NewPeriod
  BY DEF FreqInv, Measure
<1>2. ~Exceeds => Cost(sendNum + 1) <= Pays(now - subTLast)
  BY <1>1, Passes DEF FreqInv
<1>3. CASE subTLast = markLast
  <2>0. OldPeriod
    BY <1>1, <1>3
  <2>1. Cost(through) <= Pays(now - subTLast)
    <3>1. CASE through = Through
      BY <2>0, <3>1 DEF OldPeriod
    <3>2. CASE ~Exceeds /\ through = Through + 1
      <4>1. through <= sendNum + 1
        BY <1>0, <2>0, <3>2 DEF OldPeriod
      <4>2. Cost(through) <= Cost(sendNum + 1)
        BY <1>0, <4>1, CostMonotone
      <4>3. Cost(through) \in Int /\ Cost(sendNum + 1) \in Int /\ Pays(now - subTLast) \in Int
        BY <1>0, CostAdds, PaysAdds
      <4> QED
        BY <1>2, <3>2, <4>2, <4>3
    <3> QED
      BY <3>1, <3>2
  <2>2. Cost(through) \in Int /\ Pays(now - subTLast) \in Int
    BY <1>0, CostAdds, PaysAdds
  <2>3. CASE markTime - markLast <= Second
    <3>1. now - subTLast <= (now - markTime) + Second
      BY <1>0, <1>3, <2>3
    <3>2. /\ Pays(now - subTLast) <= Pays((now - markTime) + Second)
          /\ Pays((now - markTime) + Second) \in Int
      BY <1>0, <3>1, PaysMonotone, PaysAdds
    <3>3. Cost(through) <= Pays((now - markTime) + Second)
      BY <2>1, <2>2, <3>2
    <3> QED
      BY <1>3, <2>1, <3>3
  <2>4. CASE markTime - markLast > Second
    <3>1. Through = 0
      BY <2>0, <2>4 DEF OldPeriod
    <3>2. Second <= (now - markTime) + Second /\ 0 <= (now - markTime) + Second
      BY <1>0, <1>1
    <3>3. /\ Pays(Second) <= Pays((now - markTime) + Second)
          /\ Pays(0) <= Pays((now - markTime) + Second)
      BY <1>0, <3>2, PaysMonotone
    <3>4. CASE through = Through
      BY <1>0, <2>4, <3>1, <3>3, <3>4, Zero
    <3>5. CASE ~Exceeds /\ through = Through + 1
      <4>1. Cost(1) <= Pays(Second)
        BY <1>0, <1>2, <3>5, OneMessage
      <4>2. Cost(1) \in Int /\ Pays(Second) \in Int /\ Pays((now - markTime) + Second) \in Int
        BY <1>0, CostAdds, PaysAdds
      <4>3. Cost(through) <= Pays((now - markTime) + Second)
        BY <3>1, <3>3, <3>5, <4>1, <4>2
      <4> QED
        BY <1>0, <2>4, <4>3
    <3> QED
      BY <3>4, <3>5
  <2> QED
    BY <1>0, <2>3, <2>4
<1>4. CASE subTLast # markLast
  <2>0. NewPeriod
    BY <1>1, <1>4
  <2> DEFINE current == through - (Through - sendNum)
  <2>1. current \in Int /\ (current = sendNum \/ (~Exceeds /\ current = sendNum + 1))
    <3>1. CASE through = Through
      <4>1. current = sendNum
        BY <1>0, <3>1
      <4>2. sendNum \in Int
        BY <1>0
      <4> HIDE DEF current
      <4> QED
        BY <4>1, <4>2
    <3>2. CASE ~Exceeds /\ through = Through + 1
      <4>1. current = sendNum + 1
        BY <1>0, <3>2
      <4> QED
        BY <1>0, <3>2, <4>1
    <3> QED
      BY <3>1, <3>2
  <2>2. Cost(current) <= Pays(now - subTLast)
    BY <1>2, <2>0, <2>1 DEF NewPeriod
  <2>3. Cost(Through - sendNum) + Cost(current) = Cost(through)
    <3>1. Through - sendNum \in Int /\ (Through - sendNum) + current = through
      BY <1>0
    <3> HIDE DEF current
    <3> QED
      BY <2>1, <3>1, CostAdds
  <2>4. Pays((subTLast - markTime) + Second) + Pays(now - subTLast)
          = Pays((now - markTime) + Second)
    <3>1. /\ (subTLast - markTime) + Second \in Int /\ now - subTLast \in Int
          /\ ((subTLast - markTime) + Second) + (now - subTLast) = (now - markTime) + Second
      BY <1>0
    <3> QED
      BY <3>1, PaysAdds
  <2>5. Pays(subTLast - markTime) + Pays(now - subTLast) = Pays(now - markTime)
    <3>1. /\ subTLast - markTime \in Int /\ now - subTLast \in Int
          /\ (subTLast - markTime) + (now - subTLast) = now - markTime
      BY <1>0
    <3> QED
      BY <3>1, PaysAdds
  <2>6. /\ Cost(current) \in Int /\ Cost(Through - sendNum) \in Int /\ Cost(through) \in Int
        /\ Pays((subTLast - markTime) + Second) \in Int /\ Pays(now - subTLast) \in Int
        /\ Pays(subTLast - markTime) \in Int
    BY <1>0, <2>1, CostAdds, PaysAdds
  <2> HIDE DEF current
  <2> QED
    BY <2>0, <2>2, <2>3, <2>4, <2>5, <2>6 DEF NewPeriod
<1> QED
  BY <1>3, <1>4

LEMMA CallbackKeepsMeasure == FreqInv /\ SubCallback => Measure'
<1> SUFFICES ASSUME FreqInv, SubCallback, markValid PROVE Measure'
  BY DEF SubCallback, Measure
<1>0. /\ now \in Int /\ subTLast \in Int /\ sendNum \in Nat /\ Through \in Int
      /\ markTime \in Int /\ markLast \in Int /\ Second \in Nat /\ MaxFreq \in Nat
      /\ forwarded \in Nat /\ markForwarded \in Nat
  BY FreqAssumption DEF FreqAssumption, FreqInv, TypeOK, Through
<1>1. /\ markLast <= markTime /\ markTime <= now /\ subTLast <= now
      /\ IF subTLast = markLast THEN OldPeriod ELSE NewPeriod
  BY DEF FreqInv, Measure
<1>2. UNCHANGED <<now, markValid, markTime, markLast, markForwarded>>
  BY DEF SubCallback, markVars
<1>3. Through' \in Int /\ (Through' = Through \/ (~Exceeds /\ Through' = Through + 1))
  <2>1. markForwarded' = markForwarded
    BY <1>2
  <2>2. CASE Exceeds
    <3>1. forwarded' = forwarded
      BY <2>2 DEF SubCallback
    <3>2. Through' = Through
      BY <2>1, <3>1 DEF Through
    <3> QED
      BY <1>0, <3>2
  <2>3. CASE ~Exceeds
    BY <1>0, <2>1, <2>3 DEF SubCallback, Through
  <2> QED
    BY <2>2, <2>3
<1>4. CASE PeriodOver
  <2>1. subTLast' = now /\ sendNum' = 0
    BY <1>4 DEF SubCallback
  <2>2. now # markLast
    BY <1>0, <1>1, <1>4 DEF PeriodOver, Elapsed, NewPeriod
  <2>3. /\ Cost(Through') <= Pays((now - markTime) + Second)
        /\ markTime = markLast => Cost(Through') <= Pays(now - markTime)
    BY <1>3, <1>4, PeriodEnds
  <2>4. NewPeriod'
    <3>1. now' - subTLast' = 0 /\ Through' - sendNum' = Through'
      <4>1. now' - subTLast' = now - now
        BY <1>2, <2>1
      <4>2. Through' \in Int /\ Through' - sendNum' = Through' - 0
        BY <1>3, <2>1
      <4> QED
        BY <1>0, <4>1, <4>2
    <3>2. Cost(0) <= Pays(0)
      BY Zero
    <3> QED
      BY <1>0, <1>1, <1>2, <2>1, <2>3, <3>1, <3>2 DEF NewPeriod, Cost, Pays
  <2> QED
    BY <1>0, <1>1, <1>2, <2>1, <2>2, <2>4 DEF Measure
<1>5. CASE ~PeriodOver /\ Exceeds
  <2>1. UNCHANGED <<subTLast, sendNum, forwarded>>
    BY <1>5 DEF SubCallback
  <2> QED
    BY <1>1, <1>2, <2>1
    DEF Measure, OldPeriod, NewPeriod, Through, Cost, Pays
<1>6. CASE ~PeriodOver /\ ~Exceeds
  <2>1. /\ subTLast' = subTLast /\ sendNum' = sendNum + 1 /\ Through' = Through + 1
        /\ Through' - sendNum' = Through - sendNum
    BY <1>0, <1>2, <1>6 DEF SubCallback, Through
  <2>2. Cost(sendNum + 1) <= Pays(now - subTLast)
    BY <1>1, <1>6, Passes DEF FreqInv
  <2>3. CASE subTLast = markLast
    <3>0. OldPeriod
      BY <1>1, <2>3
    <3>1. Through' <= sendNum'
      BY <1>0, <2>1, <3>0 DEF OldPeriod
    <3>2. Cost(Through') <= Cost(sendNum + 1)
      BY <1>0, <1>3, <2>1, <3>1, CostMonotone
    <3>3. Cost(Through') \in Int /\ Cost(sendNum + 1) \in Int /\ Pays(now - subTLast) \in Int
      <4>1. Through' \in Int
        BY <1>3
      <4>2. sendNum + 1 \in Int /\ now - subTLast \in Int
        BY <1>0
      <4> QED
        BY <4>1, <4>2, CostAdds, PaysAdds
    <3>4. Cost(Through') <= Pays(now - subTLast)
      BY <2>2, <3>2, <3>3
    <3>5. ~(markTime - markLast > Second)
      BY <1>0, <1>1, <1>6, <2>3 DEF PeriodOver, Elapsed
    <3>6. OldPeriod'
      BY <1>2, <2>1, <3>1, <3>4, <3>5 DEF OldPeriod, Cost, Pays
    <3> QED
      BY <1>1, <1>2, <2>1, <2>3, <3>6 DEF Measure
  <2>4. CASE subTLast # markLast
    <3>1. NewPeriod'
      BY <1>1, <1>2, <2>1, <2>2, <2>4 DEF NewPeriod, Cost, Pays
    <3> QED
      BY <1>1, <1>2, <2>1, <2>4, <3>1 DEF Measure
  <2> QED
    BY <2>3, <2>4
<1> QED
  BY <1>4, <1>5, <1>6

LEMMA StepInv == FreqInv /\ [Next]_vars => FreqInv'
<1> SUFFICES ASSUME FreqInv, [Next]_vars PROVE FreqInv'
  OBVIOUS
<1>1. TypeOK'
  BY TypeStep DEF FreqInv
<1>2. CASE SubCallback
  BY <1>1, <1>2, CallbackKeepsMeasure DEF FreqInv
<1>3. CASE Advance
  BY <1>1, <1>3, AdvanceKeepsMeasure DEF FreqInv
<1>4. CASE GoBack
  BY <1>1, <1>4 DEF FreqInv, Measure, GoBack
<1>5. CASE Mark
  BY <1>1, <1>5, MarkKeepsMeasure DEF FreqInv
<1>6. CASE UNCHANGED vars
  BY <1>1, <1>6 DEF FreqInv, Measure, OldPeriod, NewPeriod, Through, Cost, Pays, vars, markVars
<1> QED
  BY <1>2, <1>3, <1>4, <1>5, <1>6 DEF Next

LEMMA FreqInvHolds == Spec => []FreqInv
BY InitInv, StepInv, PTL DEF Spec

-----------------------------------------------------------------------------
LEMMA MeasureBounds == FreqInv => IntervalFreqKept /\ PeriodFreqKept
<1> SUFFICES ASSUME FreqInv, markValid
             PROVE  /\ Cost(Through) <= Pays((now - markTime) + Second)
                    /\ markTime = markLast => Cost(Through) <= Pays(now - markTime)
  BY DEF IntervalFreqKept, PeriodFreqKept, Cost, Pays
<1>0. /\ now \in Int /\ subTLast \in Int /\ sendNum \in Int /\ Through \in Int
      /\ markTime \in Int /\ markLast \in Int /\ Second \in Nat
  BY FreqAssumption DEF FreqAssumption, FreqInv, TypeOK, Through
<1>1. /\ markLast <= markTime /\ markTime <= now /\ subTLast <= now
      /\ IF subTLast = markLast THEN OldPeriod ELSE NewPeriod
  BY DEF FreqInv, Measure
<1>2. CASE subTLast = markLast
  <2>0. OldPeriod
    BY <1>1, <1>2
  <2>1. CASE markTime - markLast > Second
    <3>1. 0 <= (now - markTime) + Second /\ 0 <= now - markTime
      BY <1>0, <1>1
    <3>2. Pays(0) <= Pays((now - markTime) + Second) /\ Pays(0) <= Pays(now - markTime)
      BY <1>0, <3>1, PaysMonotone
    <3> QED
      BY <2>0, <2>1, <3>2, Zero DEF OldPeriod
  <2>2. CASE ~(markTime - markLast > Second)
    <3>1. now - subTLast <= (now - markTime) + Second
      BY <1>0, <1>2, <2>2
    <3>2. /\ Pays(now - subTLast) <= Pays((now - markTime) + Second)
          /\ Pays(now - subTLast) \in Int /\ Pays((now - markTime) + Second) \in Int
          /\ Cost(Through) \in Int
      BY <1>0, <3>1, PaysMonotone, PaysAdds, CostAdds
    <3> QED
      BY <1>2, <2>0, <3>2 DEF OldPeriod
  <2> QED
    BY <2>1, <2>2
<1>3. CASE subTLast # markLast
  <2>0. NewPeriod
    BY <1>1, <1>3
  <2>1. Cost(Through - sendNum) + Cost(sendNum) = Cost(Through)
    <3>1. Through - sendNum \in Int /\ (Through - sendNum) + sendNum = Through
      BY <1>0
    <3> QED
      BY <1>0, <3>1, CostAdds
  <2>2. Pays((subTLast - markTime) + Second) + Pays(now - subTLast)
          = Pays((now - markTime) + Second)
    <3>1. /\ (subTLast - markTime) + Second \in Int /\ now - subTLast \in Int
          /\ ((subTLast - markTime) + Second) + (now - subTLast) = (now - markTime) + Second
      BY <1>0
    <3> QED
      BY <3>1, PaysAdds
  <2>3. Pays(subTLast - markTime) + Pays(now - subTLast) = Pays(now - markTime)
    <3>1. /\ subTLast - markTime \in Int /\ now - subTLast \in Int
          /\ (subTLast - markTime) + (now - subTLast) = now - markTime
      BY <1>0
    <3> QED
      BY <3>1, PaysAdds
  <2>4. /\ Cost(sendNum) \in Int /\ Cost(Through - sendNum) \in Int /\ Cost(Through) \in Int
        /\ Pays((subTLast - markTime) + Second) \in Int /\ Pays(now - subTLast) \in Int
        /\ Pays(subTLast - markTime) \in Int
    BY <1>0, CostAdds, PaysAdds
  <2> QED
    BY <2>0, <2>1, <2>2, <2>3, <2>4 DEF NewPeriod
<1> QED
  BY <1>2, <1>3

\* Every variable keeps its type, and the count of the current period never exceeds
\* the number of messages that got through send_freq_control.
THEOREM FreqTypeCorrect == Spec => []TypeOK
BY FreqInvHolds, PTL DEF FreqInv

\* Whatever the arrivals, a stretch of time sees at most max_freq messages a second
\* and one second's worth more pass send_freq_control.
THEOREM IntervalFreqHolds == Spec => []IntervalFreqKept
BY FreqInvHolds, MeasureBounds, PTL

\* Measured from the start of a period, send_freq_control lets through no more than
\* max_freq allows, however many periods follow.
THEOREM PeriodFreqHolds == Spec => []PeriodFreqKept
BY FreqInvHolds, MeasureBounds, PTL
=============================================================================
