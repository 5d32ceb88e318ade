-------------------------- MODULE MessageSequences --------------------------
(***************************************************************************)
(* What the models of several components say of messages: each place that  *)
(* can hold messages holds a sequence of their numbers.                    *)
(***************************************************************************)
EXTENDS Integers, SequencesExt

\* The elements of s that come before a smaller one.
Overtaking(s) ==
  {s[i] : i \in {i \in DOMAIN s : \E j \in DOMAIN s : i < j /\ s[j] < s[i]}}

\* No message is in two places, or twice in one.
NoRepeat(contents) ==
  \A s, r \in DOMAIN contents : \A i \in DOMAIN contents[s], j \in DOMAIN contents[r] :
    contents[s][i] = contents[r][j] => s = r /\ i = j
=============================================================================
