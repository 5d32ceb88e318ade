----------------------------- MODULE MCTwoNodes -----------------------------
(* Values of the constants of TwoNodes for TLC: a topic that is buffered at both ends
   and one that has the other two policies. *)
EXTENDS TwoNodes

BufferThenDrop == [k \in Topics |-> IF k = 1 THEN "buffer" ELSE "drop"]
BufferThenLatest == [k \in Topics |-> IF k = 1 THEN "buffer" ELSE "latest"]
ThreeAndOne == [k \in Topics |-> IF k = 1 THEN 3 ELSE 1]
=============================================================================
