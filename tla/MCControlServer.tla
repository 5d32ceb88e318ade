-------------------------- MODULE MCControlServer --------------------------
(* Values of the constants of ControlServer for TLC: a good request, one for each
   check it may fail, and one that fails all of them. *)
EXTENDS ControlServer

Good == [readable |-> TRUE, command |-> "start_node_fault", target |-> "me",
         token |-> "right", duration |-> "positive"]
SomeRequests ==
  {Good,
   [Good EXCEPT !.readable = FALSE],
   [Good EXCEPT !.command = "other"],
   [Good EXCEPT !.target = "other", !.token = "wrong"],
   [Good EXCEPT !.target = "empty", !.token = "absent", !.duration = "absent"],
   [Good EXCEPT !.duration = "notANumber"],
   [Good EXCEPT !.duration = "notPositive"]}
=============================================================================
