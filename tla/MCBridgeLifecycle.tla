------------------------- MODULE MCBridgeLifecycle -------------------------
(* Values of the constants of BridgeLifecycle for TLC: every pair of send topics that
   are in order, with and without a receive topic, and for every check of main() a
   configuration that fails it. *)
EXTENDS BridgeLifecycle

Rate(type, number, value, suffix) ==
  [type |-> type, number |-> number, value |-> value, suffix |-> suffix]
NoRate == Rate("absent", "missing", 0, "none")

Plain(p) == [wellFormed |-> TRUE, bitrate |-> NoRate, srcPort |-> p, policy |-> "absent",
             type |-> "std_msgs/String"]
Rated(p, rate) == [Plain(p) EXCEPT !.bitrate = rate]
Slow(p) == [Rated(p, Rate("string", "finite", 100, "k")) EXCEPT !.policy = "buffer"]
Received == [wellFormed |-> TRUE, policy |-> "latest", type |-> "sensor_msgs/Imu"]
Base == [ip |-> TRUE, send |-> <<>>, recv |-> <<>>, timer |-> TRUE, control |-> TRUE]

GoodConfigs ==
  {[Base EXCEPT !.send = s, !.recv = r] :
     s \in {<<>>, <<Plain(1)>>, <<Plain(1), Slow(2)>>, <<Slow(1), Plain(2)>>, <<Slow(1), Slow(2)>>},
     r \in {<<>>, <<Received>>}}
  \cup {[Base EXCEPT !.send = <<Slow(1), Plain(2)>>, !.timer = FALSE, !.control = FALSE]}

GoodRates == {Rate("int", "finite", 0, "none"), Rate("double", "nan", 0, "none"),
              Rate("double", "finite", 8, "none"), Rate("string", "finite", 1, "m")}
BadRates == {Rate("int", "finite", -1, "none"), Rate("string", "finite", -1, "k"),
             Rate("string", "garbled", 1, "k"), Rate("string", "missing", 0, "m"),
             Rate("other", "missing", 0, "none")}

RateConfigs == {[Base EXCEPT !.send = <<Rated(1, r)>>] : r \in GoodRates \cup BadRates}

BadConfigs ==
  {[Base EXCEPT !.ip = FALSE]}
  \cup {[Base EXCEPT !.send = s, !.recv = <<Received>>] :
          s \in {<<Plain(1), Slow(2), Slow(3)>>,
                 <<Plain(1), Slow(1)>>,
                 <<[Plain(1) EXCEPT !.wellFormed = FALSE]>>,
                 <<Plain(1), [Slow(2) EXCEPT !.type = "sensor_msgs/Image"]>>,
                 <<Slow(1), [Plain(2) EXCEPT !.policy = "keep"]>>,
                 <<Slow(1), [Plain(2) EXCEPT !.policy = "not a string"]>>}}
  \cup {[Base EXCEPT !.send = <<Plain(1)>>, !.recv = <<Received, r>>] :
          r \in {[Received EXCEPT !.wellFormed = FALSE],
                 [Received EXCEPT !.type = "sensor_msgs/Image"],
                 [Received EXCEPT !.policy = "keep"],
                 [Received EXCEPT !.policy = "not a string"]}}

SomeConfigs == GoodConfigs \cup RateConfigs \cup BadConfigs
OneReceiver == {[Base EXCEPT !.recv = <<Received>>]}
=============================================================================
