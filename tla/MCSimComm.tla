----------------------------- MODULE MCSimComm -----------------------------
(* Values of the constants of SimComm for TLC. *)
EXTENDS SimCommProperties

NoTopic == {}
FirstTopic == {1}
AllBuffer == [k \in Topics |-> "buffer"]
AllLatest == [k \in Topics |-> "latest"]
BufferThenLatest == [k \in Topics |-> IF k = 1 THEN "buffer" ELSE "latest"]
LatestThenBuffer == [k \in Topics |-> IF k = 1 THEN "latest" ELSE "buffer"]
OneEach == [k \in Topics |-> 1]
TwoEach == [k \in Topics |-> 2]
ThreeEach == [k \in Topics |-> 3]
TwoThenThree == [k \in Topics |-> IF k = 1 THEN 2 ELSE 3]
=============================================================================
