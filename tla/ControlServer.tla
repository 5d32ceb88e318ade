---------------------------- MODULE ControlServer ----------------------------
(***************************************************************************)
(* The remote trigger of a fault: control_server.cpp, its start and stop   *)
(* by main() of bridge_node.cpp, and the clients of trigger_fault.py.      *)
(*                                                                         *)
(* Each client asks once over a REQ socket of its own; an operator who     *)
(* retries is another client.  Of the fault module this has what the       *)
(* control thread sees: does it run, is it busy.  SimComm has the rest.    *)
(***************************************************************************)
EXTENDS FiniteSets

CONSTANTS
  Clients,    \* clients, each of them one run of trigger_fault.py
  Requests,   \* the requests they send
  TokenSet,   \* control_token is not empty
  Scheduled,  \* a fault also starts by timer (node_fault_duration)
  None        \* no answer, no request, no client

\* What the checks tell apart in a request: the fields of the text, or garbage that
\* makes the unpacking throw.
Fields == [readable : BOOLEAN,
           command  : {"start_node_fault", "other"},
           target   : {"empty", "me", "other"},
           token    : {"absent", "right", "wrong"},
           duration : {"absent", "notANumber", "notPositive", "positive"}]

Refusals == {"invalid_request", "invalid_command", "target_mismatch", "unauthorized",
             "invalid_duration_sec", "node_fault_busy"}
Answers == Refusals \cup {"node_fault_started"}

ASSUME ControlAssumption ==
  /\ Requests \subseteq Fields
  /\ TokenSet \in BOOLEAN
  /\ Scheduled \in BOOLEAN
  /\ None \notin Clients
  /\ None \notin Requests
  /\ None \notin Answers \cup {"bound", "failed"}

VARIABLES
  enabled,       \* control_enabled
  mainPc,        \* main(): where it is with the control server
  threadPc,      \* control_thread_main
  runningFlag,   \* control_thread_running
  startup,       \* the promise startup_result: None, "bound" or "failed"
  current,       \* the client whose request the control thread has in hand
  reply,         \* response_text
  faultRunning,  \* node_fault_thread_running
  busy,          \* node_fault_active or node_fault_recovering
  started,       \* clients whose request has started a fault
  client,        \* trigger_fault.py: "idle", "waiting", "answered", "gaveUp"
  request,       \* what a client asked
  answer,        \* what it was told
  wire,          \* clients whose request is under way
  inbox,         \* clients whose request has reached the REP socket
  returning      \* client and response pairs under way

vars == <<enabled, mainPc, threadPc, runningFlag, startup, current, reply, faultRunning, busy,
          started, client, request, answer, wire, inbox, returning>>
mainVars == <<enabled, mainPc, runningFlag>>
handVars == <<current, reply>>
faultVars == <<faultRunning, busy, started>>
clientVars == <<client, request, answer>>
netVars == <<wire, inbox, returning>>

Init ==
  /\ enabled \in BOOLEAN
  /\ mainPc = "starting"
  /\ threadPc = "none"
  /\ runningFlag = FALSE
  /\ startup = None
  /\ current = None
  /\ reply = None
  /\ faultRunning = TRUE
  /\ busy = FALSE
  /\ started = {}
  /\ client = [c \in Clients |-> "idle"]
  /\ request = [c \in Clients |-> None]
  /\ answer = [c \in Clients |-> None]
  /\ wire = {}
  /\ inbox = {}
  /\ returning = {}

-----------------------------------------------------------------------------
(* start_control_server, called by main() with the fault module running. *)

\* Either way for a server that is enabled: control_bind_port may be out of range.
StartControlServer ==
  /\ mainPc = "starting"
  /\ \/ /\ enabled
        /\ mainPc' = "waitStartup"
        /\ runningFlag' = TRUE
        /\ threadPc' = "binding"
     \/ /\ mainPc' = IF enabled THEN "exit4" ELSE "spinning"
        /\ UNCHANGED <<runningFlag, threadPc>>
  /\ UNCHANGED <<enabled, startup, handVars, faultVars, clientVars, netVars>>

\* Mutant: the result of the start is not looked at.
StartupIgnored ==
  /\ mainPc = "waitStartup"
  /\ startup # None
  /\ mainPc' = "spinning"
  /\ UNCHANGED <<enabled, runningFlag, threadPc, startup, handVars, faultVars, clientVars, netVars>>

\* startup_future.get() returns.
StartupKnown ==
  /\ mainPc = "waitStartup"
  /\ startup # None
  /\ mainPc' = IF startup = "bound" THEN "spinning" ELSE "joinFailed"
  /\ runningFlag' = (startup = "bound")
  /\ UNCHANGED <<enabled, threadPc, startup, handVars, faultVars, clientVars, netVars>>

\* Mutant: the thread that failed is not waited for.
LeaveFailed ==
  /\ mainPc = "joinFailed"
  /\ mainPc' = "exit4"
  /\ UNCHANGED <<enabled, threadPc, runningFlag, startup, handVars, faultVars, clientVars, netVars>>

JoinFailed ==
  /\ mainPc = "joinFailed"
  /\ threadPc = "done"
  /\ mainPc' = "exit4"
  /\ UNCHANGED <<enabled, threadPc, runningFlag, startup, handVars, faultVars, clientVars, netVars>>

-----------------------------------------------------------------------------
(* stop_control_server, then stop_node_fault_control. *)

\* Mutant: the control thread is told to stop, but not waited for.
StopControlServerNoJoin ==
  /\ mainPc = "spinning"
  /\ mainPc' = "controlStopped"
  /\ runningFlag' = FALSE
  /\ UNCHANGED <<enabled, threadPc, startup, handVars, faultVars, clientVars, netVars>>

StopControlServer ==
  /\ mainPc = "spinning"
  /\ mainPc' = IF runningFlag THEN "joinControl" ELSE "controlStopped"
  /\ runningFlag' = FALSE
  /\ UNCHANGED <<enabled, threadPc, startup, handVars, faultVars, clientVars, netVars>>

JoinControl ==
  /\ mainPc = "joinControl"
  /\ threadPc = "done"
  /\ mainPc' = "controlStopped"
  /\ UNCHANGED <<enabled, threadPc, runningFlag, startup, handVars, faultVars, clientVars, netVars>>

StopNodeFaultControl ==
  /\ mainPc = "controlStopped"
  /\ mainPc' = "stopped"
  /\ faultRunning' = FALSE
  /\ busy' = FALSE
  /\ UNCHANGED <<enabled, threadPc, runningFlag, startup, handVars, started, clientVars, netVars>>

-----------------------------------------------------------------------------
(* control_thread_main. *)

\* The socket takes requests.
Listening == threadPc \in {"polling", "receiving", "received", "check", "start", "reply"}

\* Mutant: an error in bind is reported to the log alone.
BindSilently ==
  /\ threadPc = "binding"
  /\ \/ startup' = "bound" /\ threadPc' = "polling"
     \/ UNCHANGED startup /\ threadPc' = "leaving"
  /\ UNCHANGED <<mainVars, handVars, faultVars, clientVars, netVars>>

\* The port may be taken.
Bind ==
  /\ threadPc = "binding"
  /\ \/ startup' = "bound" /\ threadPc' = "polling"
     \/ startup' = "failed" /\ threadPc' = "leaving"
  /\ UNCHANGED <<mainVars, handVars, faultVars, clientVars, netVars>>

\* The head of the loop. A closed socket forgets what it has received.
Poll ==
  /\ threadPc = "polling"
  /\ IF runningFlag
     THEN threadPc' = "receiving" /\ UNCHANGED inbox
     ELSE threadPc' = "leaving" /\ inbox' = {}
  /\ UNCHANGED <<mainVars, startup, handVars, faultVars, clientVars, wire, returning>>

\* A non-blocking receive: some request, or a pause of 10 ms.
ReceiveRequest ==
  /\ threadPc = "receiving"
  /\ IF inbox = {}
     THEN threadPc' = "polling" /\ UNCHANGED <<current, inbox>>
     ELSE \E c \in inbox : /\ current' = c
                           /\ inbox' = inbox \ {c}
                           /\ threadPc' = "received"
  /\ UNCHANGED <<mainVars, startup, reply, faultVars, clientVars, wire, returning>>

\* A number with something behind it is none, and NaN is not positive.
ParsePositiveDuration(r) == r.duration = "positive"

\* The checks of handle_control_request before the busy check, in their order.
Refusal(r) ==
  IF ~r.readable THEN "invalid_request"
  ELSE IF r.command # "start_node_fault" THEN "invalid_command"
  ELSE IF r.target = "other" THEN "target_mismatch"
  ELSE IF TokenSet /\ r.token # "right" THEN "unauthorized"
  ELSE IF ~ParsePositiveDuration(r) THEN "invalid_duration_sec"
  ELSE None

CheckRequest ==
  /\ threadPc = "received"
  /\ reply' = Refusal(request[current])
  /\ threadPc' = IF reply' = None THEN "check" ELSE "reply"
  /\ UNCHANGED <<mainVars, startup, current, faultVars, clientVars, netVars>>

\* Mutant: a busy node drops the request and polls on, leaving its client alone.
CheckBusyNoReply ==
  /\ threadPc = "check"
  /\ threadPc' = IF busy THEN "polling" ELSE "start"
  /\ UNCHANGED <<mainVars, startup, handVars, faultVars, clientVars, netVars>>

\* Mutant: the answer is left empty.
CheckBusyEmpty ==
  /\ threadPc = "check"
  /\ threadPc' = IF busy THEN "reply" ELSE "start"
  /\ UNCHANGED <<mainVars, startup, handVars, faultVars, clientVars, netVars>>

\* is_node_fault_busy
CheckBusy ==
  /\ threadPc = "check"
  /\ threadPc' = IF busy THEN "reply" ELSE "start"
  /\ reply' = IF busy THEN "node_fault_busy" ELSE reply
  /\ UNCHANGED <<mainVars, startup, current, faultVars, clientVars, netVars>>

\* start_node_fault does nothing once its module is stopped, and does not say so.
StartNodeFault ==
  /\ threadPc = "start"
  /\ busy' = (busy \/ faultRunning)
  /\ started' = IF faultRunning THEN started \cup {current} ELSE started
  /\ reply' = "node_fault_started"
  /\ threadPc' = "reply"
  /\ UNCHANGED <<mainVars, startup, current, faultRunning, clientVars, netVars>>

SendReply ==
  /\ threadPc = "reply"
  /\ returning' = returning \cup {<<current, reply>>}
  /\ threadPc' = "polling"
  /\ current' = None
  /\ reply' = None
  /\ UNCHANGED <<mainVars, startup, faultVars, clientVars, wire, inbox>>

\* receive or send throws: the thread ends, its flag stays.
ServerFails ==
  /\ threadPc \in {"receiving", "reply"}
  /\ threadPc' = "leaving"
  /\ current' = None
  /\ reply' = None
  /\ inbox' = {}
  /\ UNCHANGED <<mainVars, startup, faultVars, clientVars, wire, returning>>

ThreadEnds ==
  /\ threadPc = "leaving"
  /\ threadPc' = "done"
  /\ UNCHANGED <<mainVars, startup, handVars, faultVars, clientVars, netVars>>

-----------------------------------------------------------------------------
(* trigger_fault.py: one request, one answer or a timeout. *)

ClientSend(c) ==
  /\ client[c] = "idle"
  /\ client' = [client EXCEPT ![c] = "waiting"]
  /\ \E r \in Requests : request' = [request EXCEPT ![c] = r]
  /\ wire' = wire \cup {c}
  /\ UNCHANGED <<mainVars, threadPc, startup, handVars, faultVars, answer, inbox, returning>>

ClientReceive(c) ==
  /\ client[c] = "waiting"
  /\ \E a \in Answers :
       /\ <<c, a>> \in returning
       /\ answer' = [answer EXCEPT ![c] = a]
       /\ returning' = returning \ {<<c, a>>}
  /\ client' = [client EXCEPT ![c] = "answered"]
  /\ UNCHANGED <<mainVars, threadPc, startup, handVars, faultVars, request, wire, inbox>>

\* The timeout: with LINGER 0 a request that is not out yet is dropped, one that
\* has arrived is not.
ClientGiveUp(c) ==
  /\ client[c] = "waiting"
  /\ client' = [client EXCEPT ![c] = "gaveUp"]
  /\ wire' = wire \ {c}
  /\ returning' = {p \in returning : p[1] # c}
  /\ UNCHANGED <<mainVars, threadPc, startup, handVars, faultVars, request, answer, inbox>>

\* The network: REQ keeps a request until the server is there.
Deliver(c) ==
  /\ c \in wire
  /\ Listening
  /\ wire' = wire \ {c}
  /\ inbox' = inbox \cup {c}
  /\ UNCHANGED <<mainVars, threadPc, startup, handVars, faultVars, clientVars, returning>>

-----------------------------------------------------------------------------
(* The fault module: a fault and its recovery end; the timer starts one. *)

FaultOver ==
  /\ busy
  /\ busy' = FALSE
  /\ UNCHANGED <<mainVars, threadPc, startup, handVars, faultRunning, started, clientVars, netVars>>

TimerFires ==
  /\ Scheduled
  /\ faultRunning
  /\ busy' = TRUE
  /\ UNCHANGED <<mainVars, threadPc, startup, handVars, faultRunning, started, clientVars, netVars>>

\* The process is gone, whatever its clients still do.
Terminated == mainPc \in {"stopped", "exit4"} /\ UNCHANGED vars

ServerStep ==
  \/ Bind \/ Poll \/ ReceiveRequest \/ CheckRequest \/ CheckBusy \/ StartNodeFault \/ SendReply
  \/ ThreadEnds
MainStep ==
  \/ StartControlServer \/ StartupKnown \/ JoinFailed \/ JoinControl \/ StopNodeFaultControl
ClientStep(c) == ClientSend(c) \/ ClientReceive(c) \/ ClientGiveUp(c) \/ Deliver(c)

Next ==
  \/ MainStep
  \/ StopControlServer
  \/ ServerStep
  \/ ServerFails
  \/ \E c \in Clients : ClientStep(c)
  \/ FaultOver
  \/ TimerFires
  \/ Terminated

Spec == Init /\ [][Next]_vars

\* The two threads of the node run. Nobody has to ask, to stop the node or to be
\* patient, and no message has to arrive.
Fairness == WF_vars(MainStep) /\ WF_vars(ServerStep)
LiveSpec == Spec /\ Fairness

-----------------------------------------------------------------------------
\* Every variable keeps its type, and the control thread has a client wherever it
\* handles a request and an answer wherever it sends one.
TypeOK ==
  /\ enabled \in BOOLEAN
  /\ mainPc \in {"starting", "waitStartup", "joinFailed", "exit4", "spinning",
                 "joinControl", "controlStopped", "stopped"}
  /\ threadPc \in {"none", "binding", "polling", "receiving", "received", "check",
                   "start", "reply", "leaving", "done"}
  /\ runningFlag \in BOOLEAN
  /\ startup \in {None, "bound", "failed"}
  /\ current \in Clients \cup {None}
  /\ threadPc \in {"received", "check", "start", "reply"} => current \in Clients
  /\ reply \in Answers \cup {None}
  /\ threadPc = "reply" => reply \in Answers
  /\ faultRunning \in BOOLEAN
  /\ busy \in BOOLEAN
  /\ started \subseteq Clients
  /\ client \in [Clients -> {"idle", "waiting", "answered", "gaveUp"}]
  /\ request \in [Clients -> Requests \cup {None}]
  /\ answer \in [Clients -> Answers \cup {None}]
  /\ wire \subseteq Clients
  /\ inbox \subseteq Clients
  /\ returning \subseteq Clients \X Answers

\* What a client is told is true: it is told that its fault has started exactly if it
\* has, although start_node_fault returns nothing and does nothing on a module that
\* stops. No request is handled twice or answered with the answer of another one.
AnswersTrue ==
  \A c \in Clients :
    client[c] = "answered" => (answer[c] = "node_fault_started" <=> c \in started)

\* stop_node_fault_control never runs beside the control thread, and a start that has
\* failed leaves no thread behind: main() goes on only when the thread is gone.
NoThreadLeft ==
  mainPc \in {"controlStopped", "stopped", "exit4"} => threadPc \in {"none", "done"}

\* main() goes on to ros::spin() with a control server that is configured only once its
\* port is bound, and then the thread obeys the flag.
SpinMeansBound ==
  mainPc = "spinning" /\ enabled => startup = "bound" /\ runningFlag

\* Neither the start nor the stop of the control server hangs, whether bind fails, the
\* thread dies of an exception or requests keep coming.
StartAndStopComplete ==
  /\ mainPc = "waitStartup" ~> mainPc \in {"spinning", "joinControl", "exit4", "stopped"}
  /\ mainPc = "joinControl" ~> mainPc = "stopped"

\* A request the socket has received is answered, unless the server is being stopped
\* or has died: REP must answer one request to be able to receive the next.
RequestsAnswered ==
  \A c \in Clients :
    c \in inbox ~> \/ \E a \in Answers : <<c, a>> \in returning
                   \/ client[c] # "waiting"
                   \/ ~runningFlag
                   \/ threadPc \in {"leaving", "done"}
=============================================================================
