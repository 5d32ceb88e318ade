------------------------- MODULE BitrateQueueProofs -------------------------
(***************************************************************************)
(* The token bucket of send_func keeps its rate and the queue in front of  *)
(* it its bounds, for every rate, window, queue bound and set of lengths.  *)
(***************************************************************************)
EXTENDS BitrateQueue, WellFoundedInduction, TLAPS

\* What the refills have granted is what was sent, what is in hand and what is left:
\* counted from the start, and from the observer's mark once a refill came after it. The
\* mark may find one message in hand.
TokenAccount ==
  /\ queue \in Seq(Lens)
  /\ tokens \in Nat /\ tokens <= Bucket
  /\ lastRefill \in Nat /\ now \in Nat /\ lastRefill <= now
  /\ inHand \in 0..MaxLen /\ (pc # "sending" => inHand = 0)
  /\ sent \in Nat /\ markSent \in Nat /\ markSent <= sent
  /\ markTime \in Nat /\ markTime <= now
  /\ sent + inHand + tokens <= BaseCapacity + Rate * lastRefill
  /\ markTime <= lastRefill
       => (sent - markSent) + inHand + tokens
            <= MaxLen + Bucket + Rate * (lastRefill - markTime)
  /\ lastRefill < markTime => (sent - markSent) + inHand <= MaxLen

LEMMA Capacities ==
  /\ BaseCapacity \in Nat /\ Bucket \in Nat /\ BaseCapacity <= Bucket
  /\ \A len \in Lens : len \in Nat /\ AtLeast(BaseCapacity, len) <= Bucket
BY BitrateAssumption DEF BitrateAssumption, BaseCapacity, Bucket, AtLeast

\* More time never means fewer bytes.
LEMMA RateMonotone ==
  ASSUME NEW a \in Nat, NEW b \in Nat, a <= b
  PROVE  Rate * a \in Nat /\ Rate * a <= Rate * b
BY BitrateAssumption DEF BitrateAssumption

\* The bytes two successive stretches of time allow add up.
LEMMA RateAdds ==
  ASSUME NEW a \in Int, NEW b \in Int, NEW c \in Int
  PROVE  Rate * (b - a) + (c - b) * Rate = Rate * (c - a)
BY BitrateAssumption DEF BitrateAssumption

\* If a and t stay within b and p, and r grants q more than t, then a and r stay
\* within b and the sum of p and q.
LEMMA GrantsAddUp ==
  ASSUME NEW a \in Int, NEW b \in Int, NEW t \in Int, NEW r \in Int,
         NEW p \in Int, NEW q \in Int, NEW s \in Int,
         a + t <= b + p, r <= t + q, p + q = s
  PROVE  a + r <= b + s
OBVIOUS

LEMMA InitAccount == Init => TokenAccount
BY Capacities, BitrateAssumption DEF Init, TokenAccount, BitrateAssumption

\* A refill grants no more than the elapsed time allows and never overfills.
LEMMA RefillGrants ==
  ASSUME TokenAccount, Awake
  PROVE  /\ FrontLen \in Nat
         /\ Refilled \in Nat
         /\ Refilled <= Bucket
         /\ Refilled <= tokens + (now - lastRefill) * Rate
<1>1. FrontLen \in Lens
  BY DEF TokenAccount, Awake, FrontLen
<1>2. FrontLen \in Nat /\ AtLeast(BaseCapacity, FrontLen) <= Bucket
  BY <1>1, Capacities
<1>3. AtLeast(BaseCapacity, FrontLen) \in Nat
  BY <1>2, Capacities DEF AtLeast
<1>4. now - lastRefill \in Nat /\ (now - lastRefill) * Rate \in Nat
  BY BitrateAssumption DEF TokenAccount, BitrateAssumption
<1> QED
  BY <1>2, <1>3, <1>4, Capacities DEF TokenAccount, Refilled, AtMost

\* After a refill at the present moment the accounts balance, whatever part of the
\* bucket is then spent on the message in front.
LEMMA RefillBalances ==
  ASSUME TokenAccount, Awake, NEW spent \in 0..MaxLen, spent <= Refilled,
         queue' \in Seq(Lens), pc' # "sending" => spent = 0,
         lastRefill' = now, tokens' = Refilled - spent, inHand' = spent,
         UNCHANGED <<now, sent, markTime, markSent>>
  PROVE  TokenAccount'
<1>1. /\ Refilled \in Nat /\ Refilled <= Bucket
      /\ Refilled <= tokens + (now - lastRefill) * Rate
  BY RefillGrants
<1>0. inHand = 0 /\ spent \in Nat /\ MaxLen \in Nat
  BY BitrateAssumption DEF TokenAccount, Awake, BitrateAssumption
<1>2. tokens' \in Nat /\ tokens' <= Bucket /\ sent' \in Nat /\ markSent' <= sent'
  BY <1>0, <1>1, Capacities DEF TokenAccount
<1>3. sent' + inHand' + tokens' = sent + Refilled
  BY <1>0, <1>1 DEF TokenAccount
<1>4. sent' + inHand' + tokens' <= BaseCapacity' + Rate * lastRefill'
  <2>0. lastRefill \in Int /\ now \in Int /\ 0 \in Int
    BY DEF TokenAccount
  <2>1. Rate * (lastRefill - 0) + (now - lastRefill) * Rate = Rate * (now - 0)
    BY ONLY <2>0, RateAdds
  <2>2. Rate * lastRefill + (now - lastRefill) * Rate = Rate * now
    BY <2>1 DEF TokenAccount
  <2>3. Rate * lastRefill \in Nat /\ Rate * now \in Nat /\ (now - lastRefill) * Rate \in Nat
    BY BitrateAssumption DEF TokenAccount, BitrateAssumption
  <2>4. sent + Refilled <= BaseCapacity + Rate * now
    BY <1>0, <1>1, <2>2, <2>3, Capacities, SMTT(30) DEF TokenAccount
  <2> QED
    BY <1>3, <2>4 DEF BaseCapacity
<1>5. (sent' - markSent') + inHand' + tokens'
        <= MaxLen + Bucket' + Rate * (lastRefill' - markTime')
  <2>1. (sent' - markSent') + inHand' + tokens' = (sent - markSent) + Refilled
    BY <1>3, <1>0, <1>1, <1>2 DEF TokenAccount
  <2>2. now - markTime \in Nat /\ Rate * (now - markTime) \in Nat
    BY BitrateAssumption DEF TokenAccount, BitrateAssumption
  <2>3. CASE markTime <= lastRefill
    <3>0. lastRefill \in Int /\ now \in Int /\ markTime \in Int
      BY DEF TokenAccount
    <3>1. Rate * (lastRefill - markTime) + (now - lastRefill) * Rate = Rate * (now - markTime)
      BY ONLY <3>0, RateAdds
    <3>2. /\ Rate * (lastRefill - markTime) \in Int
          /\ (now - lastRefill) * Rate \in Int
          /\ Rate * (now - markTime) \in Int
      BY <3>0, BitrateAssumption DEF BitrateAssumption
    <3>3. /\ sent - markSent \in Int /\ MaxLen + Bucket \in Int
          /\ tokens \in Int /\ Refilled \in Int
          /\ (sent - markSent) + tokens <= MaxLen + Bucket + Rate * (lastRefill - markTime)
      BY <1>0, <1>1, <2>3, Capacities DEF TokenAccount
    <3>4. (sent - markSent) + Refilled <= MaxLen + Bucket + Rate * (now - markTime)
      BY ONLY <1>1, <3>1, <3>2, <3>3, GrantsAddUp
    <3> QED
      BY <2>1, <3>4 DEF Bucket, BaseCapacity
  <2>4. CASE lastRefill < markTime
    <3>1. (sent - markSent) + Refilled <= MaxLen + Bucket + Rate * (now - markTime)
      BY <1>0, <1>1, <2>2, <2>4, Capacities DEF TokenAccount
    <3> QED
      BY <2>1, <3>1 DEF Bucket, BaseCapacity
  <2> QED
    BY <2>3, <2>4 DEF TokenAccount
<1>6. inHand' \in 0..MaxLen /\ (pc' # "sending" => inHand' = 0)
  OBVIOUS
<1> QED
  BY <1>2, <1>4, <1>5, <1>6 DEF TokenAccount, Bucket, BaseCapacity

\* A message that leaves send_func moves from one side of the account to the other, or off
\* it.
LEMMA HandOverBalances ==
  ASSUME TokenAccount, sent' = sent \/ sent' = sent + inHand, inHand' = 0,
         UNCHANGED <<queue, tokens, lastRefill, now, markTime, markSent>>
  PROVE  TokenAccount'
<1>1. Rate * lastRefill \in Nat /\ MaxLen \in Nat /\ inHand \in Nat
  BY RateMonotone, BitrateAssumption DEF TokenAccount, BitrateAssumption
<1>2. markTime <= lastRefill => Rate * (lastRefill - markTime) \in Nat
  BY RateMonotone DEF TokenAccount
<1>3. /\ sent \in Nat /\ sent' \in Nat /\ markSent' = markSent /\ markSent <= sent'
      /\ sent' <= sent + inHand
  BY <1>1 DEF TokenAccount
<1>4. sent' + inHand' + tokens' <= BaseCapacity + Rate * lastRefill
  BY <1>1, <1>3, Capacities DEF TokenAccount
<1>5. /\ (sent - markSent) + inHand \in Int /\ (sent' - markSent') + inHand' \in Int
      /\ (sent' - markSent') + inHand' <= (sent - markSent) + inHand
  <2>1. markSent' = markSent /\ inHand' = 0 /\ markSent \in Nat
    BY DEF TokenAccount
  <2>2. CASE sent' = sent
    BY <1>1, <1>3, <2>1, <2>2
  <2>3. CASE sent' = sent + inHand
    BY <1>1, <1>3, <2>1, <2>3
  <2> QED
    BY <2>2, <2>3
<1>6. /\ markTime <= lastRefill
           => (sent' - markSent') + inHand' + tokens'
                <= MaxLen + Bucket + Rate * (lastRefill - markTime)
      /\ lastRefill < markTime => (sent' - markSent') + inHand' <= MaxLen
  <2> DEFINE a == (sent - markSent) + inHand
             b == (sent' - markSent') + inHand'
             g == Rate * (lastRefill - markTime)
  <2>1. /\ markTime <= lastRefill => a + tokens <= MaxLen + Bucket + g
        /\ lastRefill < markTime => a <= MaxLen
        /\ tokens' = tokens /\ tokens \in Nat
    BY DEF TokenAccount
  <2>2. a \in Int /\ b \in Int /\ b <= a /\ MaxLen \in Nat /\ Bucket \in Nat
    BY <1>1, <1>5, Capacities
  <2>3. markTime <= lastRefill => g \in Nat
    BY <1>2
  <2> HIDE DEF a, b, g
  <2>4. markTime <= lastRefill => b + tokens' <= MaxLen + Bucket + g
    BY <2>1, <2>2, <2>3
  <2>5. lastRefill < markTime => b <= MaxLen
    BY <2>1, <2>2
  <2> QED
    BY <2>4, <2>5 DEF a, b, g
<1>7. /\ queue' \in Seq(Lens) /\ tokens' \in Nat /\ tokens' <= Bucket
      /\ lastRefill' \in Nat /\ now' \in Nat /\ lastRefill' <= now'
      /\ inHand' \in 0..MaxLen /\ inHand' = 0 /\ markSent' \in Nat
      /\ markTime' \in Nat /\ markTime' <= now'
  BY <1>1 DEF TokenAccount
<1>8. lastRefill' = lastRefill /\ markTime' = markTime
  OBVIOUS
<1> QED
  BY <1>3, <1>4, <1>5, <1>6, <1>7, <1>8 DEF TokenAccount, Bucket, BaseCapacity

LEMMA StepAccount == TokenAccount /\ [Next]_vars => TokenAccount'
<1> SUFFICES ASSUME TokenAccount, [Next]_vars PROVE TokenAccount'
  OBVIOUS
<1>1. ASSUME NEW len \in Lens, EnqueueSendMessage(len) PROVE TokenAccount'
  <2>1. PICK n \in 0..Len(queue) : queue' = Append(Newest(queue, n), len)
    BY <1>1 DEF EnqueueSendMessage
  <2>2. Newest(queue, n) \in Seq(Lens)
    BY <2>1 DEF Newest, TokenAccount
  <2>3. queue' \in Seq(Lens)
    BY <2>1, <2>2
  <2> QED
    BY <1>1, <2>3 DEF EnqueueSendMessage, bucketVars, sendVars, markVars, TokenAccount,
                      Bucket, BaseCapacity
<1>2. CASE Pop
  <2>1. queue' \in Seq(Lens)
    BY <1>2 DEF Pop, Awake, TokenAccount
  <2>2. Awake /\ Refilled \in Nat /\ FrontLen <= Refilled
    BY <1>2, RefillGrants DEF Pop
  <2>3. FrontLen \in 0..MaxLen
    <3>1. FrontLen \in Lens
      BY <2>2 DEF TokenAccount, Awake, FrontLen
    <3> QED
      BY <3>1, BitrateAssumption DEF BitrateAssumption
  <2>4. /\ lastRefill' = now /\ tokens' = Refilled - FrontLen /\ inHand' = FrontLen
        /\ pc' = "sending" /\ UNCHANGED <<now, sent, markTime, markSent>>
    BY <1>2 DEF Pop, markVars
  <2> QED
    BY <2>1, <2>2, <2>3, <2>4, RefillBalances
<1>3. CASE RefillAndPause
  <2>1. Awake /\ Refilled \in Nat /\ queue' \in Seq(Lens)
    BY <1>3, RefillGrants DEF RefillAndPause, TokenAccount
  <2>2. /\ lastRefill' = now /\ tokens' = Refilled - 0 /\ inHand' = 0 /\ 0 \in 0..MaxLen
        /\ UNCHANGED <<now, sent, markTime, markSent>>
    BY <1>3, <2>1, BitrateAssumption
    DEF RefillAndPause, Awake, sendVars, markVars, TokenAccount, BitrateAssumption
  <2> QED
    BY <2>1, <2>2, RefillBalances
<1>4. CASE SendSerializedMessage \/ ConsumedByFault
  BY <1>4, HandOverBalances DEF SendSerializedMessage, ConsumedByFault, bucketVars, markVars
<1>5. CASE Exit \/ Stop
  BY <1>5
  DEF Exit, Stop, bucketVars, sendVars, markVars, TokenAccount, Bucket, BaseCapacity
<1>6. CASE Tick
  BY <1>6 DEF Tick, bucketVars, sendVars, markVars, TokenAccount, Bucket, BaseCapacity
<1>7. CASE Mark
  <2>1. /\ markTime' = now /\ markSent' = sent /\ MaxLen \in Nat /\ inHand \in 0..MaxLen
        /\ UNCHANGED <<queue, pc, tokens, lastRefill, now, inHand, sent>>
    BY <1>7, BitrateAssumption
    DEF Mark, bucketVars, sendVars, TokenAccount, BitrateAssumption
  <2>2. now <= lastRefill => Rate * (lastRefill - now) \in Nat
    BY RateMonotone DEF TokenAccount
  <2>3. now <= lastRefill
          => (sent - sent) + inHand + tokens <= MaxLen + Bucket + Rate * (lastRefill - now)
    BY <2>1, <2>2, Capacities DEF TokenAccount
  <2> QED
    BY <2>1, <2>3 DEF TokenAccount, Bucket, BaseCapacity
<1>8. CASE UNCHANGED vars
  BY <1>8 DEF vars, TokenAccount, Bucket, BaseCapacity
<1> QED
  BY <1>1, <1>2, <1>3, <1>4, <1>5, <1>6, <1>7, <1>8 DEF Next

\* The account of the bucket balances in every state: the inductive invariant behind
\* the two rates.
THEOREM AccountBalances == Spec => []TokenAccount
BY InitAccount, StepAccount, PTL DEF Spec

\* Since its start a limited topic never sends more than max_bitrate allows plus one
\* window.
THEOREM RateHolds == Spec => []RateKept
<1>1. TokenAccount => RateKept
  <2> SUFFICES ASSUME TokenAccount PROVE RateKept
    OBVIOUS
  <2>1. Rate * lastRefill \in Nat /\ Rate * now \in Nat /\ Rate * lastRefill <= Rate * now
    BY RateMonotone, SMTT(30) DEF TokenAccount
  <2>2. inHand \in Nat
    BY BitrateAssumption DEF TokenAccount, BitrateAssumption
  <2> QED
    BY <2>1, <2>2, Capacities DEF TokenAccount, RateKept
<1> QED
  BY <1>1, AccountBalances, PTL

\* In any interval it gives ZMQ no more than max_bitrate allows plus one bucket and the
\* message that was in hand when the interval began, however long a recovery held it.
THEOREM IntervalRateHolds == Spec => []IntervalRateKept
<1>1. TokenAccount => IntervalRateKept
  <2> SUFFICES ASSUME TokenAccount PROVE IntervalRateKept
    OBVIOUS
  <2>1. now - markTime \in Nat /\ Rate * (now - markTime) \in Nat
    BY BitrateAssumption DEF TokenAccount, BitrateAssumption
  <2>0. inHand \in Nat /\ MaxLen \in Nat
    BY BitrateAssumption DEF TokenAccount, BitrateAssumption
  <2>2. CASE markTime <= lastRefill
    <3>1. Rate * (lastRefill - markTime) <= Rate * (now - markTime)
      BY <2>2, RateMonotone DEF TokenAccount
    <3>2. Rate * (lastRefill - markTime) \in Nat
      BY <2>2, RateMonotone DEF TokenAccount
    <3> QED
      BY <2>0, <2>1, <2>2, <3>1, <3>2, Capacities DEF TokenAccount, IntervalRateKept
  <2>3. CASE lastRefill < markTime
    BY <2>0, <2>1, <2>3, Capacities DEF TokenAccount, IntervalRateKept
  <2> QED
    BY <2>2, <2>3 DEF TokenAccount
<1> QED
  BY <1>1, AccountBalances, PTL

-----------------------------------------------------------------------------
(* Sums of lengths. No induction theorem of the library can be instantiated here,
   so each induction is a least counterexample. *)

\* The principle every induction below rests on: a set of naturals has a least one.
LEMMA LeastNumber ==
  ASSUME NEW T, T \subseteq Nat, T # {}
  PROVE  \E x \in T : \A y \in T : x <= y
<1> DEFINE R == {ss \in Nat \X Nat : ss[1] < ss[2]}
<1>1. IsWellFoundedOn(R, Nat)
  BY NatLessThanWellFounded DEF OpToRel
<1>2. \E x \in T : \A y \in T : <<y, x>> \notin R
  <2> HIDE DEF R
  <2> QED BY <1>1, WFMin
<1>3. PICK x \in T : \A y \in T : <<y, x>> \notin R
  BY <1>2
<1>4. ASSUME NEW y \in T PROVE x <= y
  <2>1. x \in Nat /\ y \in Nat /\ <<y, x>> \notin R
    BY <1>3
  <2>2. ~(y < x)
    BY <2>1
  <2> QED BY <2>1, <2>2
<1> QED BY <1>4

\* f[n] is the sum of the first n lengths of s.
PartialSums(f, s) ==
  /\ f \in [0..Len(s) -> Int]
  /\ f[0] = 0
  /\ \A n \in 1..Len(s) : f[n] = f[n - 1] + s[n]

\* The equation that defines SumLens.
SumEquation(f, m, s) == f = [n \in 0..m |-> IF n = 0 THEN 0 ELSE f[n - 1] + s[n]]

LEMMA SumEquationHasSolution ==
  ASSUME NEW s, NEW m \in Nat
  PROVE  \E f : SumEquation(f, m, s)
<1> DEFINE T == {i \in Nat : ~ \E f : SumEquation(f, i, s)}
<1>1. SUFFICES ASSUME T # {} PROVE FALSE
  OBVIOUS
<1>2. PICK i \in T : \A j \in T : i <= j
  <2>1. T \subseteq Nat
    OBVIOUS
  <2> HIDE DEF T
  <2> QED BY <1>1, <2>1, LeastNumber
<1>3. i \in Nat /\ ~ \E f : SumEquation(f, i, s)
  BY <1>2
<1>4. i # 0
  <2>1. SumEquation([n \in 0..0 |-> 0], 0, s)
    BY DEF SumEquation
  <2> QED BY <1>3, <2>1
<1>5. PICK f : SumEquation(f, i - 1, s)
  BY <1>2, <1>3, <1>4
<1> DEFINE g == [n \in 0..i |-> IF n = i THEN f[i - 1] + s[i] ELSE f[n]]
<1>6. \A n \in 0..i : g[n] = IF n = 0 THEN 0 ELSE g[n - 1] + s[n]
  <2>1. \A n \in 0..(i - 1) : f[n] = IF n = 0 THEN 0 ELSE f[n - 1] + s[n]
    BY <1>3, <1>4, <1>5 DEF SumEquation
  <2> QED BY <1>3, <1>4, <2>1
<1>7. SumEquation(g, i, s)
  BY <1>6 DEF SumEquation
<1> QED BY <1>3, <1>7

LEMMA SumLensIsPartialSum ==
  ASSUME NEW s \in Seq(Int)
  PROVE  \E f : PartialSums(f, s) /\ SumLens(s) = f[Len(s)]
<1> DEFINE f == CHOOSE g : SumEquation(g, Len(s), s)
<1>1. SumEquation(f, Len(s), s)
  <2>0. Len(s) \in Nat
    OBVIOUS
  <2>1. \E g : SumEquation(g, Len(s), s)
    BY ONLY <2>0, SumEquationHasSolution
  <2> QED BY <2>1
<1>2. SumLens(s) = f[Len(s)]
  BY DEF SumLens, SumEquation
<1> HIDE DEF f
<1>3. /\ DOMAIN f = 0..Len(s) /\ f[0] = 0
      /\ \A n \in 1..Len(s) : f[n] = f[n - 1] + s[n]
  <2>1. DOMAIN f = 0..Len(s)
    BY <1>1 DEF SumEquation
  <2>2. \A n \in 0..Len(s) : f[n] = IF n = 0 THEN 0 ELSE f[n - 1] + s[n]
    BY <1>1 DEF SumEquation
  <2> QED BY <2>1, <2>2
<1>4. \A n \in 0..Len(s) : f[n] \in Int
  <2> DEFINE T == {n \in Nat : n \in 0..Len(s) /\ f[n] \notin Int}
  <2>1. SUFFICES ASSUME T # {} PROVE FALSE
    OBVIOUS
  <2>2. PICK i \in T : \A j \in T : i <= j
    <3>1. T \subseteq Nat
      OBVIOUS
    <3> HIDE DEF T
    <3> QED BY <2>1, <3>1, LeastNumber
  <2>3. i \in 1..Len(s)
    BY <1>3
  <2>4. i - 1 \in 0..Len(s) /\ i - 1 \notin T
    BY <2>2, <2>3
  <2>5. f[i - 1] \in Int /\ s[i] \in Int
    BY <2>3, <2>4
  <2> QED BY <1>3, <2>3, <2>5
<1>5. f \in [0..Len(s) -> Int]
  BY <1>1, <1>3, <1>4 DEF SumEquation
<1> QED BY <1>2, <1>3, <1>5 DEF PartialSums

\* There is only one such function, so whatever adds up like one ends in SumLens.
LEMMA SumLensIs ==
  ASSUME NEW s \in Seq(Int), NEW g, PartialSums(g, s)
  PROVE  SumLens(s) = g[Len(s)]
<1>1. PICK f : PartialSums(f, s) /\ SumLens(s) = f[Len(s)]
  BY SumLensIsPartialSum
<1> DEFINE T == {n \in Nat : n \in 0..Len(s) /\ f[n] # g[n]}
<1>2. SUFFICES ASSUME T # {} PROVE FALSE
  BY <1>1
<1>3. PICK i \in T : \A j \in T : i <= j
  <2>1. T \subseteq Nat
    OBVIOUS
  <2> HIDE DEF T
  <2> QED BY <1>2, <2>1, LeastNumber
<1>4. i \in 1..Len(s)
  BY <1>1 DEF PartialSums
<1>5. i - 1 \in 0..Len(s) /\ i - 1 \notin T
  BY <1>3, <1>4
<1> QED BY <1>1, <1>4, <1>5 DEF PartialSums

LEMMA SumOfNone == SumLens(<<>>) = 0
<1>1. PartialSums([n \in 0..0 |-> 0], <<>>)
  BY DEF PartialSums
<1> QED BY <1>1, SumLensIs

LEMMA SumOfAppend ==
  ASSUME NEW s \in Seq(Int), NEW len \in Int
  PROVE  SumLens(Append(s, len)) = SumLens(s) + len
<1>1. PICK f : PartialSums(f, s) /\ SumLens(s) = f[Len(s)]
  BY SumLensIsPartialSum
<1> DEFINE t == Append(s, len)
           g == [n \in 0..Len(t) |-> IF n = Len(t) THEN f[Len(s)] + len ELSE f[n]]
<1>2. t \in Seq(Int) /\ Len(t) = Len(s) + 1 /\ t[Len(t)] = len
      /\ \A n \in 1..Len(s) : t[n] = s[n]
  OBVIOUS
<1> HIDE DEF t
<1>3. PartialSums(g, t)
  <2>1. f \in [0..Len(s) -> Int] /\ f[0] = 0 /\ Len(s) \in Nat
    BY <1>1 DEF PartialSums
  <2>2. g \in [0..Len(t) -> Int] /\ g[0] = 0
    BY <1>2, <2>1, SMTT(30)
  <2>3. ASSUME NEW n \in 1..Len(t) PROVE g[n] = g[n - 1] + t[n]
    <3>1. CASE n = Len(t)
      BY <1>2, <2>1, <3>1
    <3>2. CASE n # Len(t)
      <4>1. n \in 1..Len(s) /\ n - 1 \in 0..Len(s) /\ n \in 0..Len(t) /\ n - 1 \in 0..Len(t)
            /\ n - 1 # Len(t)
        BY <1>2, <2>1, <3>2
      <4>2. f[n] = f[n - 1] + s[n]
        BY <1>1, <4>1 DEF PartialSums
      <4> QED BY <1>2, <3>2, <4>1, <4>2
    <3> QED BY <3>1, <3>2
  <2> QED BY <2>2, <2>3 DEF PartialSums
<1>4. SumLens(t) = g[Len(t)]
  BY <1>2, <1>3, SumLensIs
<1> QED BY <1>1, <1>2, <1>4 DEF t

\* The bytes of the oldest n messages and of the newest ones are those of all.
LEMMA SumSplits ==
  ASSUME NEW s \in Seq(Int), NEW n \in 0..Len(s)
  PROVE  SumLens(s) = SumLens(SubSeq(s, 1, n)) + SumLens(SubSeq(s, n + 1, Len(s)))
<1>1. PICK f : PartialSums(f, s) /\ SumLens(s) = f[Len(s)]
  BY SumLensIsPartialSum
<1> DEFINE t == SubSeq(s, 1, n)
           u == SubSeq(s, n + 1, Len(s))
           g == [i \in 0..Len(t) |-> f[i]]
           h == [i \in 0..Len(u) |-> f[n + i] - f[n]]
<1>2. t \in Seq(Int) /\ Len(t) = n /\ \A i \in 1..n : t[i] = s[i]
  OBVIOUS
<1>3. u \in Seq(Int) /\ Len(u) = Len(s) - n /\ \A i \in 1..(Len(s) - n) : u[i] = s[n + i]
  OBVIOUS
<1> HIDE DEF t, u
<1>9. f \in [0..Len(s) -> Int] /\ f[0] = 0 /\ Len(s) \in Nat /\ n \in Nat /\ n <= Len(s)
  BY <1>1 DEF PartialSums
<1>4. PartialSums(g, t)
  <2>1. g \in [0..Len(t) -> Int] /\ g[0] = 0
    BY <1>2, <1>9
  <2>2. ASSUME NEW i \in 1..Len(t) PROVE g[i] = g[i - 1] + t[i]
    <3>1. i \in 1..Len(s) /\ i \in 0..Len(t) /\ i - 1 \in 0..Len(t) /\ i \in 1..n
      BY <1>2, <1>9
    <3>2. f[i] = f[i - 1] + s[i]
      BY <1>1, <3>1 DEF PartialSums
    <3> QED BY <1>2, <3>1, <3>2
  <2> QED BY <2>1, <2>2 DEF PartialSums
<1>5. PartialSums(h, u)
  <2>1. h \in [0..Len(u) -> Int] /\ h[0] = 0
    <3>1. Len(u) \in Nat /\ \A i \in 0..Len(u) : n + i \in 0..Len(s)
      BY <1>3, <1>9
    <3>2. ASSUME NEW i \in 0..Len(u) PROVE f[n + i] - f[n] \in Int
      <4>1. n + i \in 0..Len(s) /\ n \in 0..Len(s)
        BY <3>1
      <4>2. f[n + i] \in Int /\ f[n] \in Int
        BY <1>9, <4>1
      <4> QED BY <4>2
    <3>3. f[n] \in Int /\ n + 0 = n
      BY <1>9
    <3>4. h \in [0..Len(u) -> Int]
      BY <3>2
    <3>5. h[0] = f[n + 0] - f[n]
      BY <3>1
    <3> QED BY <3>3, <3>4, <3>5
  <2>2. ASSUME NEW i \in 1..Len(u) PROVE h[i] = h[i - 1] + u[i]
    <3>1. n + i \in 1..Len(s) /\ (n + i) - 1 = n + (i - 1) /\ i - 1 \in 0..Len(u)
          /\ i \in 0..Len(u) /\ n + (i - 1) \in 0..Len(s) /\ n + i \in 0..Len(s)
      BY <1>3
    <3>2. f[n + i] = f[n + (i - 1)] + s[n + i]
      BY <1>1, <3>1 DEF PartialSums
    <3>3. f[n] \in Int /\ f[n + i] \in Int /\ f[n + (i - 1)] \in Int
      BY <1>9, <3>1
    <3>4. s[n + i] \in Int /\ u[i] = s[n + i]
      BY <1>3, <3>1
    <3>5. h[i] = f[n + i] - f[n] /\ h[i - 1] = f[n + (i - 1)] - f[n]
      BY <3>1
    <3> HIDE DEF h
    <3> QED BY <3>2, <3>3, <3>4, <3>5
  <2> QED BY <2>1, <2>2 DEF PartialSums
<1>6. SumLens(t) = f[n] /\ SumLens(u) = f[Len(s)] - f[n]
  <2>1. SumLens(t) = g[Len(t)] /\ SumLens(u) = h[Len(u)]
    BY <1>2, <1>3, <1>4, <1>5, SumLensIs
  <2>2. Len(t) \in 0..Len(t) /\ Len(u) \in 0..Len(u) /\ n + Len(u) = Len(s)
    BY <1>2, <1>3, <1>9
  <2> QED BY <1>2, <2>1, <2>2
<1>7. f[n] \in Int /\ f[Len(s)] \in Int
  BY <1>1 DEF PartialSums
<1> QED BY <1>1, <1>6, <1>7 DEF t, u

\* Lengths that are not negative add up to a sum that is not.
LEMMA SumIsNat ==
  ASSUME NEW s \in Seq(Nat)
  PROVE  SumLens(s) \in Nat
<1>0. s \in Seq(Int)
  OBVIOUS
<1>1. PICK f : PartialSums(f, s) /\ SumLens(s) = f[Len(s)]
  BY <1>0, SumLensIsPartialSum
<1> DEFINE T == {n \in Nat : n \in 0..Len(s) /\ f[n] \notin Nat}
<1>2. SUFFICES ASSUME T # {} PROVE FALSE
  BY <1>1
<1>3. PICK i \in T : \A j \in T : i <= j
  <2>1. T \subseteq Nat
    OBVIOUS
  <2> HIDE DEF T
  <2> QED BY <1>2, <2>1, LeastNumber
<1>4. i \in 1..Len(s)
  BY <1>1 DEF PartialSums
<1>5. i - 1 \in 0..Len(s) /\ i - 1 \notin T
  BY <1>3, <1>4
<1>6. f[i - 1] \in Nat /\ s[i] \in Nat
  BY <1>4, <1>5
<1> QED BY <1>1, <1>4, <1>6 DEF PartialSums

\* The bytes left when the message in front goes.
LEMMA SumOfTail ==
  ASSUME NEW s \in Seq(Int), s # <<>>
  PROVE  SumLens(Tail(s)) = SumLens(s) - Head(s)
<1>1. PICK f : PartialSums(f, s) /\ SumLens(s) = f[Len(s)]
  BY SumLensIsPartialSum
<1> DEFINE u == Tail(s)
           h == [i \in 0..Len(u) |-> f[i + 1] - f[1]]
<1>2. /\ u \in Seq(Int) /\ Len(u) = Len(s) - 1 /\ \A i \in 1..(Len(s) - 1) : u[i] = s[i + 1]
      /\ Head(s) = s[1] /\ s[1] \in Int /\ Len(s) \in Nat /\ 1 <= Len(s)
  OBVIOUS
<1> HIDE DEF u
<1>3. \A i \in 0..Len(s) : f[i] \in Int
  BY <1>1 DEF PartialSums
<1>4. f[1] = s[1]
  BY <1>1, <1>2 DEF PartialSums
<1>5. PartialSums(h, u)
  <2>1. \A i \in 0..Len(u) : i + 1 \in 0..Len(s) /\ f[i + 1] \in Int /\ f[1] \in Int
    BY <1>2, <1>3
  <2>2. h \in [0..Len(u) -> Int] /\ h[0] = 0
    <3>1. h \in [0..Len(u) -> Int]
      BY <2>1
    <3>2. 0 \in 0..Len(u) /\ 0 + 1 = 1 /\ f[1] \in Int
      BY <1>2, <2>1
    <3>3. h[0] = f[0 + 1] - f[1]
      BY <3>2
    <3>4. h[0] = f[1] - f[1]
      BY <3>2, <3>3
    <3> HIDE DEF h
    <3> QED BY <3>1, <3>2, <3>4
  <2>3. ASSUME NEW i \in 1..Len(u) PROVE h[i] = h[i - 1] + u[i]
    <3>1. /\ i + 1 \in 1..Len(s) /\ (i + 1) - 1 = i /\ (i - 1) + 1 = i /\ i \in 0..Len(s)
          /\ i - 1 \in 0..Len(u) /\ i \in 0..Len(u) /\ i \in 1..(Len(s) - 1)
      BY <1>2
    <3>2. f[i + 1] = f[i] + s[i + 1] /\ u[i] = s[i + 1]
      BY <1>1, <1>2, <3>1 DEF PartialSums
    <3>3. f[i + 1] \in Int /\ f[i] \in Int /\ f[1] \in Int /\ u[i] \in Int
      BY <1>2, <1>3, <2>1, <3>1
    <3>4. h[i] = f[i + 1] - f[1] /\ h[i - 1] = f[i] - f[1]
      BY <3>1
    <3> HIDE DEF h
    <3> QED BY <3>2, <3>3, <3>4
  <2> QED BY <2>2, <2>3 DEF PartialSums
<1>6. SumLens(u) = h[Len(u)]
  BY <1>2, <1>5, SumLensIs
<1>7. h[Len(u)] = f[Len(s)] - f[1]
  BY <1>2
<1> QED BY <1>1, <1>2, <1>4, <1>6, <1>7 DEF u

-----------------------------------------------------------------------------
(* The queue and its byte count. *)

QueueInv ==
  /\ queue \in Seq(Lens)
  /\ queueBytes = SumLens(queue)

LEMMA SeqsOfLens ==
  /\ \A s \in Seq(Lens) : s \in Seq(Nat) /\ s \in Seq(Int)
  /\ \A s \in Seq(Lens) : SumLens(s) \in Nat
<1>1. \A len \in Lens : len \in Nat
  BY Capacities
<1>2. \A s \in Seq(Lens) : s \in Seq(Nat) /\ s \in Seq(Int)
  BY <1>1
<1> QED BY <1>2, SumIsNat

\* Without its n oldest messages the queue holds what the others add up to.
LEMMA BytesKept ==
  ASSUME QueueInv, NEW n \in 0..Len(queue)
  PROVE  /\ Newest(queue, n) \in Seq(Lens)
         /\ Len(Newest(queue, n)) = Len(queue) - n
         /\ queueBytes - SumLens(SubSeq(queue, 1, n)) = SumLens(Newest(queue, n))
<1>1. /\ Newest(queue, n) \in Seq(Lens) /\ SubSeq(queue, 1, n) \in Seq(Lens)
      /\ Len(Newest(queue, n)) = Len(queue) - n
  BY DEF QueueInv, Newest
<1>2. SumLens(queue) = SumLens(SubSeq(queue, 1, n)) + SumLens(Newest(queue, n))
  BY SeqsOfLens, SumSplits DEF QueueInv, Newest
<1>3. /\ SumLens(SubSeq(queue, 1, n)) \in Nat /\ SumLens(Newest(queue, n)) \in Nat
      /\ SumLens(queue) \in Nat
  BY <1>1, SeqsOfLens DEF QueueInv
<1> QED BY <1>1, <1>2, <1>3 DEF QueueInv

LEMMA InitQueue == Init => QueueInv
BY SumOfNone DEF Init, QueueInv

LEMMA StepQueue == QueueInv /\ [Next]_vars => QueueInv'
<1> SUFFICES ASSUME QueueInv, [Next]_vars PROVE QueueInv'
  OBVIOUS
<1>1. ASSUME NEW len \in Lens, EnqueueSendMessage(len) PROVE QueueInv'
  <2>1. PICK n \in 0..Len(queue) :
          /\ queue' = Append(Newest(queue, n), len)
          /\ queueBytes' = queueBytes - SumLens(SubSeq(queue, 1, n)) + len
    BY <1>1 DEF EnqueueSendMessage
  <2>2. /\ Newest(queue, n) \in Seq(Lens)
        /\ queueBytes - SumLens(SubSeq(queue, 1, n)) = SumLens(Newest(queue, n))
    BY BytesKept
  <2>3. SumLens(Append(Newest(queue, n), len)) = SumLens(Newest(queue, n)) + len
    BY <2>2, SeqsOfLens, Capacities, SumOfAppend
  <2>4. queue' \in Seq(Lens)
    BY <2>1, <2>2
  <2>5. queueBytes' = SumLens(queue')
    BY <2>1, <2>2, <2>3
  <2> QED BY <2>4, <2>5 DEF QueueInv, SumLens
<1>2. CASE Pop
  <2>1. /\ queue # <<>> /\ queue' = Tail(queue) /\ queueBytes' = queueBytes - Head(queue)
    BY <1>2 DEF Pop, Awake, FrontLen
  <2>2. SumLens(Tail(queue)) = SumLens(queue) - Head(queue)
    BY <2>1, SeqsOfLens, SumOfTail DEF QueueInv
  <2>3. queue' \in Seq(Lens)
    BY <2>1 DEF QueueInv
  <2>4. queueBytes' = SumLens(queue')
    BY <2>1, <2>2 DEF QueueInv
  <2> QED BY <2>3, <2>4 DEF QueueInv, SumLens
<1>3. CASE UNCHANGED <<queue, queueBytes>>
  BY <1>3 DEF QueueInv, SumLens
<1>4. CASE RefillAndPause \/ SendSerializedMessage \/ ConsumedByFault \/ Exit \/ Stop \/ Tick
                \/ Mark \/ UNCHANGED vars
  BY <1>3, <1>4 DEF RefillAndPause, SendSerializedMessage, ConsumedByFault, Exit, Stop, Tick, Mark,
                       vars
<1> QED BY <1>1, <1>2, <1>4 DEF Next

LEMMA QueueHolds == Spec => []QueueInv
BY InitQueue, StepQueue, PTL DEF Spec

\* send_queue_bytes is the sum of the lengths of the waiting messages, always.
THEOREM BytesAlwaysExact == Spec => []BytesExact
<1>1. QueueInv => BytesExact
  BY DEF QueueInv, BytesExact
<1> QED BY <1>1, QueueHolds, PTL

\* The variables keep their types; no counter of the code goes below zero.
THEOREM QueueTypeCorrect == Spec => []TypeOK
<1> DEFINE Types == flag \in BOOLEAN /\ pc \in {"ready", "sending", "done"} /\ now \in 0..MaxTime
<1>1. Init => Types
  BY BitrateAssumption DEF Init, BitrateAssumption
<1>2. Types /\ [Next]_vars => Types'
  <2> SUFFICES ASSUME Types, [Next]_vars PROVE Types'
    OBVIOUS
  <2>1. ASSUME NEW len \in Lens, EnqueueSendMessage(len) PROVE Types'
    BY <2>1 DEF EnqueueSendMessage
  <2>2. CASE Pop \/ RefillAndPause \/ Mark
    BY <2>2 DEF Pop, RefillAndPause, Mark
  <2>3. CASE SendSerializedMessage \/ ConsumedByFault \/ Exit \/ Stop
    BY <2>3 DEF SendSerializedMessage, ConsumedByFault, Exit, Stop
  <2>4. CASE Tick
    BY <2>4, BitrateAssumption DEF Tick, BitrateAssumption
  <2>5. CASE UNCHANGED vars
    BY <2>5 DEF vars
  <2> QED BY <2>1, <2>2, <2>3, <2>4, <2>5 DEF Next
<1>3. Types /\ QueueInv /\ TokenAccount => TypeOK
  <2> SUFFICES ASSUME Types, QueueInv, TokenAccount PROVE TypeOK
    OBVIOUS
  <2>1. queueBytes \in Nat
    BY SeqsOfLens DEF QueueInv
  <2> QED BY <2>1 DEF QueueInv, TokenAccount, TypeOK
<1>4. Spec => []Types
  BY <1>1, <1>2, PTL DEF Spec
<1> QED BY <1>3, <1>4, QueueHolds, AccountBalances, PTL

\* The two bounds of the queue hold after every operation on it.
THEOREM BacklogStaysBounded == Spec => []BacklogBounded
<1>1. Init => BacklogBounded
  BY BitrateAssumption DEF Init, BacklogBounded, BitrateAssumption
<1>2. QueueInv /\ BacklogBounded /\ [Next]_vars => BacklogBounded'
  <2> SUFFICES ASSUME QueueInv, BacklogBounded, [Next]_vars PROVE BacklogBounded'
    OBVIOUS
  <2>1. ASSUME NEW len \in Lens, EnqueueSendMessage(len) PROVE BacklogBounded'
    <3>1. PICK n \in 0..Len(queue) :
            /\ n = Len(queue) \/ RoomAfter(n, len)
            /\ queue' = Append(Newest(queue, n), len)
            /\ queueBytes' = queueBytes - SumLens(SubSeq(queue, 1, n)) + len
      BY <2>1 DEF EnqueueSendMessage
    <3>2. /\ Newest(queue, n) \in Seq(Lens) /\ Len(Newest(queue, n)) = Len(queue) - n
          /\ queueBytes - SumLens(SubSeq(queue, 1, n)) = SumLens(Newest(queue, n))
      BY BytesKept
    <3>3. Len(queue') = (Len(queue) - n) + 1 /\ Last(queue') = len
      BY <3>1, <3>2 DEF Last
    <3>4. len \in Nat /\ len <= AtLeast(Window, len)
      BY Capacities, BitrateAssumption DEF BitrateAssumption, AtLeast
    <3>5. CASE n = Len(queue)
      <4>1. Newest(queue, n) = <<>>
        BY <3>2, <3>5 DEF QueueInv
      <4>2. queueBytes' = len
        BY <3>1, <3>2, <3>4, <4>1, SumOfNone
      <4>3. Len(queue') <= MaxQueue
        BY <3>3, <3>5, BitrateAssumption DEF BitrateAssumption, QueueInv
      <4> QED BY <3>3, <3>4, <4>2, <4>3 DEF BacklogBounded, AtLeast
    <3>6. CASE RoomAfter(n, len)
      <4>1. Len(queue) - n < MaxQueue /\ queueBytes' <= AtLeast(Window, len)
        BY <3>1, <3>6 DEF RoomAfter
      <4>2. Len(queue') <= MaxQueue
        BY <3>3, <4>1, BitrateAssumption DEF BitrateAssumption, QueueInv
      <4> QED BY <3>3, <4>1, <4>2 DEF BacklogBounded, AtLeast
    <3> QED BY <3>1, <3>5, <3>6
  <2>2. CASE Pop
    <3>1. /\ queue # <<>> /\ queue' = Tail(queue) /\ queueBytes' = queueBytes - Head(queue)
      BY <2>2 DEF Pop, Awake, FrontLen
    <3>2. Head(queue) \in Nat /\ queueBytes \in Nat /\ Window \in Nat /\ MaxQueue \in Nat
      BY <3>1, SeqsOfLens, Capacities, BitrateAssumption DEF QueueInv, BitrateAssumption
    <3>3. Len(queue') = Len(queue) - 1
      BY <3>1 DEF QueueInv
    <3>4. queue' # <<>> => Last(queue') = Last(queue)
      BY <3>1 DEF QueueInv, Last
    <3>5. queueBytes <= AtLeast(Window, Last(queue))
      BY <3>1 DEF BacklogBounded
    <3>6. Last(queue) \in Nat
      BY <3>1, Capacities DEF QueueInv, Last
    <3>7. queue' # <<>> => queueBytes' <= AtLeast(Window, Last(queue'))
      BY <3>1, <3>2, <3>4, <3>5, <3>6 DEF AtLeast
    <3>8. Len(queue') <= MaxQueue
      BY <3>2, <3>3 DEF BacklogBounded, QueueInv
    <3> QED BY <3>7, <3>8 DEF BacklogBounded, AtLeast
  <2>3. CASE UNCHANGED <<queue, queueBytes>>
    BY <2>3 DEF BacklogBounded, Last, AtLeast
  <2>4. CASE RefillAndPause \/ SendSerializedMessage \/ ConsumedByFault \/ Exit \/ Stop \/ Tick
                \/ Mark \/ UNCHANGED vars
    BY <2>3, <2>4 DEF RefillAndPause, SendSerializedMessage, ConsumedByFault, Exit, Stop, Tick, Mark,
                       vars
  <2> QED BY <2>1, <2>2, <2>4 DEF Next
<1> QED BY <1>1, <1>2, QueueHolds, PTL DEF Spec
=============================================================================
