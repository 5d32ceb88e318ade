----------------------------- MODULE TopicConfig -----------------------------
(***************************************************************************)
(* How a field of a topic in the configuration is read: the optional       *)
(* bitrate and fault policy of sim_comm.cpp, and the message types that    *)
(* ros_sub_pub.hpp has compiled in.  A function that would call exit(1) is *)
(* an operator that says whether it returns, beside one for its result.    *)
(***************************************************************************)
EXTENDS Integers

\* A field as XmlRpc holds it. number is what std::stod makes of the digits, whatever
\* blanks are around them, or what an int or a double is; value and suffix say the rest
\* when they are a number.
BitrateFields == [type   : {"absent", "int", "double", "string", "other"},
                  number : {"finite", "nan", "missing", "garbled"},
                  value  : Int,
                  suffix : {"none", "k", "m"}]
BitrateField == {f \in BitrateFields : /\ f.type = "int" => f.number = "finite"
                                       /\ f.type = "double" => f.number \in {"finite", "nan"}}

\* parse_bitrate_text: no digits, or something behind them, is refused.
BitrateTextParses(f) == f.number \in {"finite", "nan"}
ParseBitrateText(f) ==
  f.value * (CASE f.suffix = "none" -> 1 [] f.suffix = "k" -> 1000 [] f.suffix = "m" -> 1000000)

BitrateReads(f) ==
  CASE f.type = "absent"            -> TRUE
    [] f.type \in {"int", "double"} -> TRUE
    [] f.type = "string"            -> BitrateTextParses(f)
    [] f.type = "other"             -> FALSE

\* In bps; 0 is the default. A NaN compares as neither negative nor positive.
GetOptionalBitrateParam(f) ==
  IF f.type = "absent" \/ f.number = "nan" THEN 0
  ELSE IF f.type = "string" THEN ParseBitrateText(f) ELSE f.value

\* The text of fault_policy, or what XmlRpc has in its place.
PolicyReads(field) == field # "not a string"
GetOptionalStringParam(field, default) == IF field = "absent" THEN default ELSE field
PolicyParses(text) == text \in {"drop", "buffer", "latest"}

\* MSG_TYPE1 to MSG_TYPE3, and the three functions that go through them one by one.
MsgTypes == {"sensor_msgs/Imu", "geometry_msgs/Twist", "std_msgs/String"}
Subscribes(type) == type \in MsgTypes
Publishes(type) == type \in MsgTypes
Deserializes(type) == type \in MsgTypes
=============================================================================
