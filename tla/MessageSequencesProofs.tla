----------------------- MODULE MessageSequencesProofs -----------------------
(***************************************************************************)
(* Lemmas about sequences of message numbers: their elements, their order, *)
(* and what moving messages from one place to another does to both.        *)
(***************************************************************************)
EXTENDS MessageSequences, FiniteSetTheorems, TLAPS

-----------------------------------------------------------------------------
(* Numbers and finite sets. *)

\* Of two messages at most one is the older.
LEMMA NotBothBelow == \A m, n \in Nat : m < n => ~ (n < m)
OBVIOUS

\* One more message in a set is at most one more to count.
LEMMA OneMore ==
  ASSUME NEW S, NEW x, IsFiniteSet(S)
  PROVE  IsFiniteSet(S \cup {x}) /\ Cardinality(S \cup {x}) <= Cardinality(S) + 1
<1>1. Cardinality(S) \in Nat
  BY FS_CardinalityType
<1>2. /\ IsFiniteSet(S \cup {x})
      /\ Cardinality(S \cup {x}) = IF x \in S THEN Cardinality(S) ELSE Cardinality(S) + 1
  BY FS_AddElement, Zenon
<1> QED
  BY <1>1, <1>2

-----------------------------------------------------------------------------
(* Sequences and the sets of their elements. *)

\* ToSet as TLAPS can use it.
LEMMA ToSetDef == \A s : ToSet(s) = {s[i] : i \in DOMAIN s}
BY DEF ToSet

\* A message added at the end is one more element.
LEMMA AppendSet ==
  ASSUME NEW s \in Seq(Nat), NEW m \in Nat
  PROVE  ToSet(Append(s, m)) = ToSet(s) \cup {m}
<1> DEFINE r == Append(s, m)
<1>1. /\ DOMAIN s = 1..Len(s) /\ DOMAIN r = 1..(Len(s) + 1) /\ Len(s) \in Nat
      /\ r[Len(s) + 1] = m /\ \A i \in 1..Len(s) : r[i] = s[i]
  OBVIOUS
<1>2. ASSUME NEW x \in ToSet(r) PROVE x \in ToSet(s) \cup {m}
  <2>1. PICK i \in 1..(Len(s) + 1) : r[i] = x
    BY <1>1, <1>2, ToSetDef
  <2>2. CASE i = Len(s) + 1
    BY <1>1, <2>1, <2>2
  <2>3. CASE i \in 1..Len(s)
    BY <1>1, <2>1, <2>3, ToSetDef
  <2> QED
    BY <1>1, <2>2, <2>3
<1>3. ASSUME NEW x \in ToSet(s) \cup {m} PROVE x \in ToSet(r)
  <2>1. \E i \in DOMAIN r : r[i] = x
    BY <1>1, <1>3, ToSetDef
  <2> QED
    BY <2>1, ToSetDef
<1> QED
  BY <1>2, <1>3

\* A sequence is its head and its tail.
LEMMA HeadTailSet ==
  ASSUME NEW s \in Seq(Nat), s # <<>>
  PROVE  /\ Head(s) \in Nat /\ Tail(s) \in Seq(Nat)
         /\ ToSet(s) = {Head(s)} \cup ToSet(Tail(s))
<1>1. /\ Head(s) \in Nat /\ Tail(s) \in Seq(Nat)
      /\ Head(s) = s[1] /\ Len(s) \in Nat /\ Len(s) >= 1
      /\ DOMAIN s = 1..Len(s) /\ DOMAIN Tail(s) = 1..(Len(s) - 1)
      /\ \A i \in 1..(Len(s) - 1) : Tail(s)[i] = s[i + 1]
  OBVIOUS
<1>2. ASSUME NEW x \in ToSet(s) PROVE x \in {Head(s)} \cup ToSet(Tail(s))
  <2>1. PICK i \in 1..Len(s) : s[i] = x
    BY <1>1, <1>2, ToSetDef
  <2>2. CASE i = 1
    BY <1>1, <2>1, <2>2
  <2>3. CASE i > 1
    <3>1. i - 1 \in DOMAIN Tail(s) /\ Tail(s)[i - 1] = x
      BY <1>1, <2>1, <2>3
    <3> QED
      BY <3>1, ToSetDef
  <2> QED
    BY <2>2, <2>3
<1>3. ASSUME NEW x \in {Head(s)} \cup ToSet(Tail(s)) PROVE x \in ToSet(s)
  <2>1. CASE x = Head(s)
    BY <1>1, <2>1, ToSetDef
  <2>2. CASE x \in ToSet(Tail(s))
    <3>1. PICK i \in 1..(Len(s) - 1) : Tail(s)[i] = x
      BY <1>1, <2>2, ToSetDef
    <3>2. i + 1 \in DOMAIN s /\ s[i + 1] = x
      BY <1>1, <3>1
    <3> QED
      BY <3>2, ToSetDef
  <2> QED
    BY <1>3, <2>1, <2>2
<1> QED
  BY <1>1, <1>2, <1>3

LEMMA EmptySet == ToSet(<<>>) = {}
BY ToSetDef

LEMMA SingletonSet == \A m : ToSet(<<m>>) = {m}
BY ToSetDef

\* Elements of a sequence of messages are numbers.
LEMMA ElementType == \A s \in Seq(Nat) : \A m \in ToSet(s) : m \in Nat
BY ToSetDef

-----------------------------------------------------------------------------
(* Ascending sequences. *)

Ascending(s) == \A i, j \in DOMAIN s : i < j => s[i] < s[j]
AllBelow(S, T) == \A m \in S, n \in T : m < n

LEMMA AscendingAppend ==
  ASSUME NEW s \in Seq(Nat), NEW m \in Nat, Ascending(s), AllBelow(ToSet(s), {m})
  PROVE  Ascending(Append(s, m))
<1> DEFINE r == Append(s, m)
<1>1. /\ DOMAIN s = 1..Len(s) /\ DOMAIN r = 1..(Len(s) + 1) /\ Len(s) \in Nat
      /\ r[Len(s) + 1] = m /\ \A i \in 1..Len(s) : r[i] = s[i]
  OBVIOUS
<1>2. \A i \in 1..Len(s) : s[i] < m
  BY <1>1, ToSetDef DEF AllBelow
<1> HIDE DEF r
<1>3. ASSUME NEW i \in DOMAIN r, NEW j \in DOMAIN r, i < j PROVE r[i] < r[j]
  <2>1. i \in 1..Len(s)
    BY <1>1, <1>3
  <2>2. CASE j = Len(s) + 1
    BY <1>1, <1>2, <2>1, <2>2
  <2>3. CASE j \in 1..Len(s)
    BY <1>1, <1>3, <2>1, <2>3 DEF Ascending
  <2> QED
    BY <1>1, <1>3, <2>2, <2>3
<1> QED
  BY <1>3 DEF Ascending, r

LEMMA AscendingTail ==
  ASSUME NEW s \in Seq(Nat), s # <<>>, Ascending(s)
  PROVE  Ascending(Tail(s)) /\ AllBelow({Head(s)}, ToSet(Tail(s)))
<1> DEFINE r == Tail(s)
<1>1. /\ Head(s) = s[1] /\ Len(s) \in Nat /\ Len(s) >= 1
      /\ DOMAIN s = 1..Len(s) /\ DOMAIN r = 1..(Len(s) - 1)
      /\ \A i \in 1..(Len(s) - 1) : r[i] = s[i + 1]
  OBVIOUS
<1> HIDE DEF r
<1>2. ASSUME NEW i \in 1..(Len(s) - 1) PROVE s[1] < r[i]
  <2>1. 1 \in DOMAIN s /\ i + 1 \in DOMAIN s /\ 1 < i + 1 /\ r[i] = s[i + 1]
    BY <1>1
  <2> QED
    BY <2>1 DEF Ascending
<1>3. Ascending(r)
  <2> SUFFICES ASSUME NEW i \in DOMAIN r, NEW j \in DOMAIN r, i < j PROVE r[i] < r[j]
    BY DEF Ascending
  <2>1. i + 1 \in DOMAIN s /\ j + 1 \in DOMAIN s /\ i + 1 < j + 1
    BY <1>1
  <2>2. s[i + 1] < s[j + 1]
    BY <2>1 DEF Ascending
  <2> QED
    BY <1>1, <2>2
<1>4. AllBelow({Head(s)}, ToSet(r))
  BY <1>1, <1>2, ToSetDef DEF AllBelow
<1> QED
  BY <1>3, <1>4 DEF r

LEMMA AscendingShort == Ascending(<<>>) /\ \A m : Ascending(<<m>>)
BY DEF Ascending

LEMMA AscendingOvertaking ==
  ASSUME NEW s \in Seq(Nat), Ascending(s)
  PROVE  Overtaking(s) = {}
<1>1. ASSUME NEW i \in DOMAIN s, NEW j \in DOMAIN s, i < j, s[j] < s[i] PROVE FALSE
  <2>1. s[i] < s[j] /\ s[i] \in Nat /\ s[j] \in Nat
    BY <1>1 DEF Ascending
  <2> QED
    BY <1>1, <2>1
<1> QED
  BY <1>1 DEF Overtaking

\* A message added at the end is overtaken by the larger ones before it.
LEMMA OvertakingAppend ==
  ASSUME NEW s \in Seq(Nat), NEW m \in Nat
  PROVE  Overtaking(Append(s, m)) = Overtaking(s) \cup {n \in ToSet(s) : m < n}
<1> DEFINE r == Append(s, m)
<1>1. /\ DOMAIN s = 1..Len(s) /\ DOMAIN r = 1..(Len(s) + 1) /\ Len(s) \in Nat
      /\ r[Len(s) + 1] = m /\ \A i \in 1..Len(s) : r[i] = s[i] /\ s[i] \in Nat
  OBVIOUS
<1> HIDE DEF r
<1>2. ASSUME NEW n \in Overtaking(r) PROVE n \in Overtaking(s) \/ (n \in ToSet(s) /\ m < n)
  <2>1. PICK i \in DOMAIN r, j \in DOMAIN r : i < j /\ r[j] < r[i] /\ n = r[i]
    BY <1>2 DEF Overtaking
  <2>2. i \in 1..Len(s) /\ n = s[i]
    BY <1>1, <2>1
  <2>3. CASE j = Len(s) + 1
    BY <1>1, <2>1, <2>2, <2>3, ToSetDef
  <2>4. CASE j \in 1..Len(s)
    BY <1>1, <2>1, <2>2, <2>4 DEF Overtaking
  <2> QED
    BY <1>1, <2>3, <2>4
<1>3. ASSUME NEW n \in Overtaking(s) PROVE n \in Overtaking(r)
  <2>1. PICK i \in DOMAIN s, j \in DOMAIN s : i < j /\ s[j] < s[i] /\ n = s[i]
    BY <1>3 DEF Overtaking
  <2>2. i \in DOMAIN r /\ j \in DOMAIN r /\ r[j] < r[i] /\ n = r[i]
    BY <1>1, <2>1
  <2> QED
    BY <2>1, <2>2 DEF Overtaking
<1>4. ASSUME NEW n \in ToSet(s), m < n PROVE n \in Overtaking(r)
  <2>1. PICK i \in DOMAIN s : n = s[i]
    BY <1>4, ToSetDef
  <2>2. i \in DOMAIN r /\ Len(s) + 1 \in DOMAIN r /\ i < Len(s) + 1
        /\ r[Len(s) + 1] < r[i] /\ n = r[i]
    BY <1>1, <1>4, <2>1
  <2> QED
    BY <2>2 DEF Overtaking
<1> QED
  BY <1>2, <1>3, <1>4 DEF r

-----------------------------------------------------------------------------
(* No message is in two places. Each place is a sequence; a step takes messages
   from some places and adds one at the end of another, where it was in no place. *)

Clean(C, n) == NoRepeat(C) /\ \A s \in DOMAIN C : \A i \in DOMAIN C[s] : C[s][i] <= n

Absent(C, m) == \A s \in DOMAIN C : \A i \in DOMAIN C[s] : C[s][i] # m
Added(C, D, r, m) ==
  D[r] = Append(C[r], m) /\ \A s \in DOMAIN C : s = r \/ D[s] = C[s]

Fresh(C, D, r, m) == \A s \in DOMAIN C : D[s] = IF s = r THEN <<m>> ELSE C[s]

Less(s, r) == r = s \/ r = <<>> \/ (s # <<>> /\ r = Tail(s))
Swapped(C, D, p, r) ==
  D[p] = <<>> /\ D[r] = C[p] /\ \A s \in DOMAIN C : s = p \/ s = r \/ D[s] = C[s]
Moved(C, D, p, r) ==
  /\ C[p] # <<>> /\ D[p] = Tail(C[p])
  /\ \E Q : Less(C[r], Q) /\ D[r] = Append(Q, Head(C[p]))
  /\ \A s \in DOMAIN C : s = p \/ s = r \/ D[s] = C[s]

LEMMA TailFacts ==
  ASSUME NEW s \in Seq(Nat), s # <<>>
  PROVE  /\ Tail(s) \in Seq(Nat) /\ Head(s) = s[1] /\ 1 \in DOMAIN s /\ s[1] \in Nat
         /\ \A i \in DOMAIN Tail(s) : i \in Nat \ {0} /\ i + 1 \in DOMAIN s
                                     /\ Tail(s)[i] = s[i + 1]
<1>1. Len(s) \in Nat \ {0} /\ DOMAIN s = 1..Len(s)
  OBVIOUS
<1>2. Tail(s) \in Seq(Nat) /\ DOMAIN Tail(s) = 1..(Len(s) - 1)
  BY <1>1
<1>3. \A i \in 1..(Len(s) - 1) : Tail(s)[i] = s[i + 1]
  BY <1>1
<1> QED
  BY <1>1, <1>2, <1>3

LEMMA AppendFacts ==
  ASSUME NEW s \in Seq(Nat), NEW m
  PROVE  /\ DOMAIN Append(s, m) = 1..(Len(s) + 1) /\ DOMAIN s = 1..Len(s) /\ Len(s) \in Nat
         /\ Append(s, m)[Len(s) + 1] = m /\ \A i \in 1..Len(s) : Append(s, m)[i] = s[i]
OBVIOUS

\* Places that keep what they hold, lose their first message, or all of them.
LEMMA FewerClean ==
  ASSUME NEW S, NEW n \in Nat, NEW C \in [S -> Seq(Nat)], NEW D \in [S -> Seq(Nat)],
         Clean(C, n),
         \A s \in S : D[s] = C[s] \/ D[s] = <<>> \/ (C[s] # <<>> /\ D[s] = Tail(C[s]))
  PROVE  Clean(D, n)
<1>1. ASSUME NEW s \in S, NEW i \in DOMAIN D[s]
      PROVE  \/ i \in DOMAIN C[s] /\ D[s][i] = C[s][i] /\ D[s] = C[s]
             \/ i + 1 \in DOMAIN C[s] /\ D[s][i] = C[s][i + 1] /\ i \in Nat
                /\ C[s] # <<>> /\ D[s] = Tail(C[s])
  <2>1. C[s] \in Seq(Nat)
    OBVIOUS
  <2>2. CASE D[s] = C[s]
    BY <1>1, <2>2
  <2>3. CASE D[s] = <<>>
    BY <1>1, <2>3
  <2>4. CASE C[s] # <<>> /\ D[s] = Tail(C[s])
    BY <1>1, <2>1, <2>4, TailFacts
  <2> QED
    BY <2>2, <2>3, <2>4
<1>2. DOMAIN C = S /\ DOMAIN D = S
  OBVIOUS
<1>3. ASSUME NEW s \in S, NEW r \in S, NEW i \in DOMAIN D[s], NEW j \in DOMAIN D[r],
             D[s][i] = D[r][j]
      PROVE  s = r /\ i = j
  <2>1. PICK a \in DOMAIN C[s] :
          D[s][i] = C[s][a] /\ ((D[s] = C[s] /\ a = i)
                                \/ (D[s] = Tail(C[s]) /\ a = i + 1 /\ i \in Nat /\ C[s] # <<>>))
    BY <1>1
  <2>2. PICK b \in DOMAIN C[r] :
          D[r][j] = C[r][b] /\ ((D[r] = C[r] /\ b = j)
                                \/ (D[r] = Tail(C[r]) /\ b = j + 1 /\ j \in Nat /\ C[r] # <<>>))
    BY <1>1
  <2>6. C[s][a] = C[r][b]
    BY <1>3, <2>1, <2>2
  <2>3. s = r /\ a = b
    BY <1>2, <2>6 DEF Clean, NoRepeat
  <2>4. C[s] \in Seq(Nat)
    OBVIOUS
  <2>5. C[s] # <<>> => Tail(C[s]) # C[s]
    <3>1. C[s] # <<>> => Len(Tail(C[s])) = Len(C[s]) - 1 /\ Len(C[s]) \in Nat
      BY <2>4
    <3> QED
      BY <3>1
  <2>7. CASE D[s] = C[s]
    BY <2>1, <2>2, <2>3, <2>5, <2>7
  <2>8. CASE D[s] # C[s]
    <3>1. a = i + 1 /\ b = j + 1 /\ i \in Nat /\ j \in Nat
      BY <2>1, <2>2, <2>3, <2>8
    <3>2. i + 1 = j + 1
      BY <2>3, <3>1
    <3>3. ASSUME NEW x \in Nat, NEW y \in Nat, x + 1 = y + 1 PROVE x = y
      BY <3>3
    <3>4. i = j
      BY <3>1, <3>2, <3>3
    <3> QED
      BY <2>3, <3>4
  <2> QED
    BY <2>7, <2>8
<1>4. ASSUME NEW s \in S, NEW i \in DOMAIN D[s] PROVE D[s][i] <= n
  BY <1>1, <1>2 DEF Clean
<1> QED
  BY <1>2, <1>3, <1>4 DEF Clean, NoRepeat

\* A place gets a message that was nowhere.
LEMMA AddClean ==
  ASSUME NEW S, NEW n \in Nat, NEW C \in [S -> Seq(Nat)], NEW D \in [S -> Seq(Nat)],
         NEW r \in S, NEW m \in Nat, m <= n,
         Clean(C, n), Absent(C, m), Added(C, D, r, m)
  PROVE  Clean(D, n)
<1> DEFINE l == Len(C[r]) + 1
<1>1. /\ DOMAIN C = S /\ DOMAIN D = S /\ C[r] \in Seq(Nat) /\ l \in Nat \ {0}
      /\ D[r] = Append(C[r], m) /\ \A s \in S : s = r \/ D[s] = C[s]
  BY DEF Added
<1>2. /\ DOMAIN D[r] = 1..l /\ DOMAIN C[r] = 1..(l - 1)
      /\ D[r][l] = m /\ \A i \in 1..(l - 1) : D[r][i] = C[r][i]
  BY <1>1, AppendFacts
<1> HIDE DEF l
<1>3. ASSUME NEW s \in S, NEW i \in DOMAIN D[s]
      PROVE  \/ s = r /\ i = l /\ D[s][i] = m
             \/ i \in DOMAIN C[s] /\ D[s][i] = C[s][i]
  <2>1. CASE s = r
    <3>1. l \in Nat \ {0} /\ i \in 1..l
      BY <1>1, <1>2, <1>3, <2>1
    <3>2. i = l \/ i \in 1..(l - 1)
      BY <3>1
    <3> QED
      BY <1>2, <2>1, <3>2
  <2>2. CASE s # r
    BY <1>1, <2>2
  <2> QED
    BY <2>1, <2>2
<1>4. ASSUME NEW s \in S, NEW t \in S, NEW i \in DOMAIN D[s], NEW j \in DOMAIN D[t],
             D[s][i] = D[t][j]
      PROVE  s = t /\ i = j
  <2>3. \A a \in S : \A b \in DOMAIN C[a] : C[a][b] # m
    BY <1>1 DEF Absent
  <2>1. \/ s = r /\ i = l /\ D[s][i] = m
        \/ i \in DOMAIN C[s] /\ D[s][i] = C[s][i]
    BY <1>3
  <2>2. \/ t = r /\ j = l /\ D[t][j] = m
        \/ j \in DOMAIN C[t] /\ D[t][j] = C[t][j]
    BY <1>3
  <2> QED
    BY <1>1, <1>4, <2>1, <2>2, <2>3, SMTT(30) DEF Clean, NoRepeat
<1>5. ASSUME NEW s \in S, NEW i \in DOMAIN D[s] PROVE D[s][i] <= n
  <2>1. CASE D[s][i] = m
    BY <2>1
  <2>2. CASE i \in DOMAIN C[s] /\ D[s][i] = C[s][i]
    BY <1>1, <2>2 DEF Clean
  <2> QED
    BY <1>3, <2>1, <2>2
<1> QED
  BY <1>1, <1>4, <1>5 DEF Clean, NoRepeat

\* A topic accepts its next message.
LEMMA FreshClean ==
  ASSUME NEW S, NEW n \in Nat, NEW C \in [S -> Seq(Nat)], NEW D \in [S -> Seq(Nat)],
         NEW r \in S, Clean(C, n), Fresh(C, D, r, n + 1)
  PROVE  Clean(D, n + 1)
<1>0. \A s \in S : D[s] = IF s = r THEN <<n + 1>> ELSE C[s]
  BY DEF Fresh
<1> DEFINE E == [C EXCEPT ![r] = <<>>]
<1>1. E \in [S -> Seq(Nat)] /\ \A s \in S : E[s] = IF s = r THEN <<>> ELSE C[s]
  OBVIOUS
<1> HIDE DEF E
<1>2. Clean(E, n)
  <2>1. \A s \in S : E[s] = C[s] \/ E[s] = <<>> \/ (C[s] # <<>> /\ E[s] = Tail(C[s]))
    BY <1>1
  <2> QED
    BY <1>1, <2>1, FewerClean
<1>3. Clean(E, n + 1) /\ Absent(E, n + 1)
  <2>1. ASSUME NEW s \in S, NEW i \in DOMAIN E[s] PROVE E[s][i] \in Nat /\ E[s][i] <= n
    BY <1>1, <1>2, <2>1 DEF Clean
  <2> QED
    BY <1>1, <1>2, <2>1 DEF Clean, Absent
<1>4. Append(<<>>, n + 1) = <<n + 1>>
  OBVIOUS
<1>5. Added(E, D, r, n + 1)
  BY <1>0, <1>1, <1>4 DEF Added
<1>6. n + 1 \in Nat /\ n + 1 <= n + 1
  OBVIOUS
<1> QED
  BY <1>1, <1>3, <1>5, <1>6, AddClean

\* The first message of a place goes to the end of another, which may lose its own first.
LEMMA MoveClean ==
  ASSUME NEW S, NEW n \in Nat, NEW C \in [S -> Seq(Nat)], NEW D \in [S -> Seq(Nat)],
         NEW p \in S, NEW r \in S, p # r, Clean(C, n), Moved(C, D, p, r)
  PROVE  Clean(D, n)
<1>7. C[p] # <<>> /\ D[p] = Tail(C[p]) /\ \A s \in S \ {p, r} : D[s] = C[s]
  BY DEF Moved
<1>8. PICK Q : /\ Q = C[r] \/ Q = <<>> \/ (C[r] # <<>> /\ Q = Tail(C[r]))
               /\ D[r] = Append(Q, Head(C[p]))
  BY DEF Moved, Less
<1> DEFINE E == [C EXCEPT ![p] = Tail(C[p]), ![r] = Q]
           m == Head(C[p])
<1>1. C[p] \in Seq(Nat) /\ C[r] \in Seq(Nat) /\ Tail(C[p]) \in Seq(Nat) /\ Q \in Seq(Nat)
  <2>1. C[p] \in Seq(Nat) /\ C[r] \in Seq(Nat) /\ <<>> \in Seq(Nat)
    OBVIOUS
  <2>2. Tail(C[p]) \in Seq(Nat) /\ (C[r] # <<>> => Tail(C[r]) \in Seq(Nat))
    BY <1>7, <2>1, TailFacts
  <2> HIDE DEF m
  <2> QED
    BY <1>8, <2>1, <2>2
<1>2. /\ E \in [S -> Seq(Nat)] /\ E[p] = Tail(C[p]) /\ E[r] = Q
      /\ \A s \in S \ {p, r} : E[s] = C[s]
  BY <1>1
<1> HIDE DEF E
<1>3. Clean(E, n)
  <2>1. \A s \in S : E[s] = C[s] \/ E[s] = <<>> \/ (C[s] # <<>> /\ E[s] = Tail(C[s]))
    BY <1>2, <1>7, <1>8
  <2> QED
    BY <1>2, <2>1, FewerClean
<1>4. m = C[p][1] /\ 1 \in DOMAIN C[p] /\ m \in Nat /\ m <= n
  <2>1. m = C[p][1] /\ 1 \in DOMAIN C[p] /\ C[p][1] \in Nat
    BY <1>1, <1>7, TailFacts
  <2>2. DOMAIN C = S
    OBVIOUS
  <2>3. C[p][1] <= n
    BY <2>1, <2>2 DEF Clean
  <2> QED
    BY <2>1, <2>3
<1>5. ASSUME NEW s \in S, NEW i \in DOMAIN E[s] PROVE E[s][i] # m
  <2>4. ASSUME NEW t \in S, NEW j \in DOMAIN C[t], C[t][j] = C[p][1] PROVE t = p /\ j = 1
    <3>1. DOMAIN C = S
      OBVIOUS
    <3> QED
      BY <1>4, <2>4, <3>1 DEF Clean, NoRepeat
  <2>1. CASE s = p
    <3>1. i \in DOMAIN Tail(C[p])
      BY <1>2, <1>5, <2>1
    <3>2. i \in Nat \ {0} /\ i + 1 \in DOMAIN C[p] /\ Tail(C[p])[i] = C[p][i + 1]
      BY <1>1, <1>7, <3>1, TailFacts
    <3>5. E[s][i] = C[p][i + 1]
      BY <1>2, <2>1, <3>2
    <3>6. ASSUME NEW x \in Nat \ {0} PROVE x + 1 # 1
      OBVIOUS
    <3>3. E[s][i] = C[p][i + 1] /\ i + 1 # 1
      BY <3>2, <3>5, <3>6
    <3>4. C[p][i + 1] # C[p][1]
      BY <2>4, <3>2, <3>3
    <3> QED
      BY <1>4, <3>3, <3>4
  <2>2. CASE s = r
    <3>1. \E j \in DOMAIN C[r] : E[r][i] = C[r][j]
      <4>1. CASE Q = C[r]
        BY <1>2, <1>5, <2>2, <4>1
      <4>2. CASE Q = <<>>
        BY <1>2, <1>5, <2>2, <4>2
      <4>3. CASE C[r] # <<>> /\ Q = Tail(C[r])
        BY <1>1, <1>2, <1>5, <2>2, <4>3
      <4> QED
        BY <1>8, <4>1, <4>2, <4>3
    <3> QED
      BY <1>4, <2>2, <2>4, <3>1
  <2>3. CASE s \notin {p, r}
    BY <1>2, <1>4, <1>5, <2>3, <2>4
  <2> QED
    BY <2>1, <2>2, <2>3
<1>6. Added(E, D, r, m) /\ Absent(E, m)
  BY <1>2, <1>5, <1>7, <1>8 DEF Added, Absent
<1> HIDE DEF m
<1> QED
  <2>1. E \in [S -> Seq(Nat)] /\ m \in Nat /\ m <= n
    BY <1>2, <1>4
  <2> QED
    BY <1>3, <1>6, <2>1, AddClean

\* Everything in one place goes to another, whose messages are gone.
LEMMA SwapClean ==
  ASSUME NEW S, NEW n \in Nat, NEW C \in [S -> Seq(Nat)], NEW D \in [S -> Seq(Nat)],
         NEW p \in S, NEW r \in S, p # r, Clean(C, n), Swapped(C, D, p, r)
  PROVE  Clean(D, n)
<1>1. DOMAIN C = S /\ DOMAIN D = S
  OBVIOUS
<1>5. D[p] = <<>> /\ D[r] = C[p] /\ \A s \in S \ {p, r} : D[s] = C[s]
  BY DEF Swapped
<1>2. ASSUME NEW s \in S, NEW i \in DOMAIN D[s]
      PROVE  \E a \in S : /\ (s = r /\ a = p) \/ (s \notin {p, r} /\ a = s)
                          /\ i \in DOMAIN C[a] /\ D[s][i] = C[a][i]
  BY <1>2, <1>5, SMTT(30)
<1>3. ASSUME NEW s \in S, NEW t \in S, NEW i \in DOMAIN D[s], NEW j \in DOMAIN D[t],
             D[s][i] = D[t][j]
      PROVE  s = t /\ i = j
  <2>1. PICK a \in S : /\ (s = r /\ a = p) \/ (s \notin {p, r} /\ a = s)
                       /\ i \in DOMAIN C[a] /\ D[s][i] = C[a][i]
    BY <1>2
  <2>2. PICK b \in S : /\ (t = r /\ b = p) \/ (t \notin {p, r} /\ b = t)
                       /\ j \in DOMAIN C[b] /\ D[t][j] = C[b][j]
    BY <1>2
  <2>3. C[a][i] = C[b][j]
    BY <1>3, <2>1, <2>2
  <2>4. a = b /\ i = j
    BY <1>1, <2>1, <2>2, <2>3 DEF Clean, NoRepeat
  <2> QED
    BY <2>1, <2>2, <2>4
<1>4. ASSUME NEW s \in S, NEW i \in DOMAIN D[s] PROVE D[s][i] <= n
  BY <1>1, <1>2 DEF Clean
<1> QED
  BY <1>1, <1>3, <1>4 DEF Clean, NoRepeat
=============================================================================
