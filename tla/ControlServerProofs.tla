------------------------- MODULE ControlServerProofs -------------------------
(***************************************************************************)
(* The control server tells its clients the truth and leaves no thread     *)
(* behind, for every set of clients and requests, with and without timer.  *)
(***************************************************************************)
EXTENDS ControlServer, TLAPS

Handling == {"received", "check", "start", "reply"}

\* main(), its control thread, the flag and the promise, relative to each other.
Phases ==
  /\ faultRunning <=> mainPc # "stopped"
  /\ mainPc = "starting" => threadPc = "none" /\ startup = None
  /\ threadPc = "binding" => startup = None
  /\ mainPc = "spinning" /\ ~runningFlag => threadPc = "none"
  /\ NoThreadLeft
  /\ SpinMeansBound

\* A client's request is in one place at most, and has started a fault only if it has
\* got as far as its answer.
Mail ==
  /\ wire \cap inbox = {}
  /\ current \notin wire \cup inbox
  /\ \A c \in wire \cup inbox : c \notin started /\ client[c] \in {"waiting", "gaveUp"}
  /\ current # None => client[current] \in {"waiting", "gaveUp"}
  /\ \A c \in Clients, a \in Answers :
       <<c, a>> \in returning =>
         /\ c \notin wire \cup inbox
         /\ c # current
         /\ client[c] \in {"waiting", "gaveUp"}
         /\ a = "node_fault_started" <=> c \in started
         /\ \A b \in Answers : <<c, b>> \in returning => a = b
  /\ threadPc \in {"received", "check", "start"} => current \notin started
  /\ threadPc = "reply" => (reply = "node_fault_started" <=> current \in started)
  /\ threadPc \notin Handling => current = None
  /\ \A c \in Clients : client[c] = "idle" => c \notin started
  /\ AnswersTrue

ControlInv == TypeOK /\ Phases /\ Mail

-----------------------------------------------------------------------------
LEMMA RefusalType == \A r : Refusal(r) \in Refusals \cup {None}
BY DEF Refusal, Refusals

LEMMA RefusalsRefuse == "node_fault_started" \notin Refusals /\ Refusals \subseteq Answers
BY DEF Refusals, Answers

LEMMA InitInv == Init => ControlInv
BY ControlAssumption
DEF ControlAssumption, Init, ControlInv, TypeOK, Phases, NoThreadLeft, SpinMeansBound, Mail,
    AnswersTrue, Handling

LEMMA TypeStep == ControlInv /\ [Next]_vars => TypeOK'
<1> SUFFICES ASSUME ControlInv, [Next]_vars PROVE TypeOK'
  OBVIOUS
<1> USE ControlAssumption DEF ControlAssumption, ControlInv, TypeOK, Answers, Refusals, mainVars, handVars, faultVars,
           clientVars, netVars
<1>1. CASE StartControlServer
  <2>1. /\ mainPc' \in {"waitStartup", "exit4", "spinning"}
        /\ runningFlag' \in BOOLEAN
        /\ threadPc' \in {"binding", threadPc}
    BY <1>1 DEF StartControlServer
  <2> QED
    BY <1>1, <2>1 DEF StartControlServer
<1>2. CASE StartupKnown
  BY <1>2 DEF StartupKnown
<1>3. CASE JoinFailed
  BY <1>3 DEF JoinFailed
<1>4. CASE StopControlServer
  <2>1. mainPc' \in {"joinControl", "controlStopped"} /\ runningFlag' \in BOOLEAN
    BY <1>4 DEF StopControlServer
  <2> QED
    BY <1>4, <2>1 DEF StopControlServer
<1>5. CASE JoinControl
  BY <1>5 DEF JoinControl
<1>6. CASE StopNodeFaultControl
  <2>1. /\ mainPc' = "stopped"
        /\ faultRunning' \in BOOLEAN
        /\ busy' \in BOOLEAN
    BY <1>6 DEF StopNodeFaultControl
  <2> QED
    BY <1>6, <2>1 DEF StopNodeFaultControl
<1>7. CASE Bind
  BY <1>7 DEF Bind
<1>8. CASE Poll
  BY <1>8 DEF Poll
<1>9. CASE ReceiveRequest
  BY <1>9 DEF ReceiveRequest
<1>10. CASE CheckRequest
  <2>1. reply' \in Refusals \cup {None}
    BY <1>10, RefusalType DEF CheckRequest
  <2>2. threadPc' \in {"check", "reply"} /\ (threadPc' = "reply" => reply' # None)
    BY <1>10 DEF CheckRequest
  <2> QED
    BY <1>10, <2>1, <2>2 DEF CheckRequest
<1>11. CASE CheckBusy
  BY <1>11 DEF CheckBusy
<1>12. CASE StartNodeFault
  BY <1>12 DEF StartNodeFault
<1>13. CASE SendReply
  BY <1>13 DEF SendReply
<1>14. CASE ThreadEnds
  BY <1>14 DEF ThreadEnds
<1>15. CASE ServerFails
  BY <1>15 DEF ServerFails
<1>16. CASE FaultOver
  <2>1. busy' \in BOOLEAN
    BY <1>16 DEF FaultOver
  <2> QED
    BY <1>16, <2>1 DEF FaultOver
<1>17. CASE TimerFires
  BY <1>17 DEF TimerFires
<1>18. ASSUME NEW k \in Clients, ClientSend(k) PROVE TypeOK'
  BY <1>18 DEF ClientSend
<1>19. ASSUME NEW k \in Clients, ClientReceive(k) PROVE TypeOK'
  BY <1>19 DEF ClientReceive
<1>20. ASSUME NEW k \in Clients, ClientGiveUp(k) PROVE TypeOK'
  BY <1>20 DEF ClientGiveUp
<1>21. ASSUME NEW k \in Clients, Deliver(k) PROVE TypeOK'
  BY <1>21 DEF Deliver
<1>22. CASE UNCHANGED vars
  BY <1>22 DEF vars
<1> QED
  BY <1>1, <1>2, <1>3, <1>4, <1>5, <1>6, <1>7, <1>8, <1>9, <1>10, <1>11, <1>12,
     <1>13, <1>14, <1>15, <1>16, <1>17, <1>18, <1>19, <1>20, <1>21, <1>22
  DEF Next, MainStep, ServerStep, ClientStep, Terminated

LEMMA PhasesStep == ControlInv /\ [Next]_vars => Phases'
<1> SUFFICES ASSUME ControlInv, [Next]_vars PROVE Phases'
  OBVIOUS
<1> USE ControlAssumption DEF ControlAssumption, ControlInv, TypeOK, Phases, NoThreadLeft, SpinMeansBound,
           mainVars, handVars, faultVars,
           clientVars, netVars
<1>1. CASE StartControlServer
  BY <1>1 DEF StartControlServer
<1>2. CASE StartupKnown
  BY <1>2 DEF StartupKnown
<1>3. CASE JoinFailed
  BY <1>3 DEF JoinFailed
<1>4. CASE StopControlServer
  BY <1>4 DEF StopControlServer
<1>5. CASE JoinControl
  BY <1>5 DEF JoinControl
<1>6. CASE StopNodeFaultControl
  BY <1>6 DEF StopNodeFaultControl
<1>7. CASE Bind
  <2>1. startup = None /\ mainPc # "starting" /\ ~(mainPc = "spinning" /\ enabled)
    BY <1>7 DEF Bind
  <2> QED
    BY <1>7, <2>1 DEF Bind
<1>8. CASE Poll
  BY <1>8 DEF Poll
<1>9. CASE ReceiveRequest
  BY <1>9 DEF ReceiveRequest
<1>10. CASE CheckRequest
  BY <1>10 DEF CheckRequest
<1>11. CASE CheckBusy
  BY <1>11 DEF CheckBusy
<1>12. CASE StartNodeFault
  BY <1>12 DEF StartNodeFault
<1>13. CASE SendReply
  BY <1>13 DEF SendReply
<1>14. CASE ThreadEnds
  BY <1>14 DEF ThreadEnds
<1>15. CASE ServerFails
  BY <1>15 DEF ServerFails
<1>16. CASE FaultOver
  BY <1>16 DEF FaultOver
<1>17. CASE TimerFires
  BY <1>17 DEF TimerFires
<1>18. ASSUME NEW k \in Clients, ClientSend(k) PROVE Phases'
  BY <1>18 DEF ClientSend
<1>19. ASSUME NEW k \in Clients, ClientReceive(k) PROVE Phases'
  BY <1>19 DEF ClientReceive
<1>20. ASSUME NEW k \in Clients, ClientGiveUp(k) PROVE Phases'
  BY <1>20 DEF ClientGiveUp
<1>21. ASSUME NEW k \in Clients, Deliver(k) PROVE Phases'
  BY <1>21 DEF Deliver
<1>22. CASE UNCHANGED vars
  BY <1>22 DEF vars
<1> QED
  BY <1>1, <1>2, <1>3, <1>4, <1>5, <1>6, <1>7, <1>8, <1>9, <1>10, <1>11, <1>12,
     <1>13, <1>14, <1>15, <1>16, <1>17, <1>18, <1>19, <1>20, <1>21, <1>22
  DEF Next, MainStep, ServerStep, ClientStep, Terminated

LEMMA MailStep == ControlInv /\ [Next]_vars => Mail'
<1> SUFFICES ASSUME ControlInv, [Next]_vars PROVE Mail'
  OBVIOUS
<1> USE ControlAssumption DEF ControlAssumption, ControlInv, TypeOK, Mail, AnswersTrue, Handling,
           mainVars, handVars, faultVars,
           clientVars, netVars
<1>1. CASE StartControlServer
  <2>1. threadPc \notin Handling /\ threadPc' \notin Handling
    BY <1>1 DEF StartControlServer, Phases
  <2> QED
    BY <1>1, <2>1 DEF StartControlServer
<1>2. CASE StartupKnown
  BY <1>2 DEF StartupKnown
<1>3. CASE JoinFailed
  BY <1>3 DEF JoinFailed
<1>4. CASE StopControlServer
  BY <1>4 DEF StopControlServer
<1>5. CASE JoinControl
  BY <1>5 DEF JoinControl
<1>6. CASE StopNodeFaultControl
  BY <1>6 DEF StopNodeFaultControl
<1>7. CASE Bind
  BY <1>7 DEF Bind
<1>8. CASE Poll
  BY <1>8 DEF Poll
<1>9. CASE ReceiveRequest
  BY <1>9 DEF ReceiveRequest
<1>10. CASE CheckRequest
  <2>1. reply' # "node_fault_started"
    BY <1>10, RefusalType, RefusalsRefuse DEF CheckRequest, Answers
  <2>2. threadPc' \in {"check", "reply"} /\ current \notin started
    BY <1>10 DEF CheckRequest
  <2> QED
    BY <1>10, <2>1, <2>2 DEF CheckRequest
<1>11. CASE CheckBusy
  BY <1>11 DEF CheckBusy
<1>12. CASE StartNodeFault
  <2>1. faultRunning /\ current \in Clients
    BY <1>12 DEF StartNodeFault, Phases, NoThreadLeft
  <2>2. /\ started' = started \cup {current} /\ reply' = "node_fault_started"
        /\ threadPc' = "reply"
        /\ UNCHANGED <<current, client, answer, wire, inbox, returning>>
    BY <1>12, <2>1 DEF StartNodeFault
  <2>3. client[current] \in {"waiting", "gaveUp"}
    BY <2>1
  <2>4. AnswersTrue'
    BY <2>2, <2>3
  <2> QED
    BY <2>1, <2>2, <2>3, <2>4
<1>13. CASE SendReply
  BY <1>13 DEF SendReply
<1>14. CASE ThreadEnds
  BY <1>14 DEF ThreadEnds
<1>15. CASE ServerFails
  BY <1>15 DEF ServerFails
<1>16. CASE FaultOver
  BY <1>16 DEF FaultOver
<1>17. CASE TimerFires
  BY <1>17 DEF TimerFires
<1>18. ASSUME NEW k \in Clients, ClientSend(k) PROVE Mail'
  BY <1>18 DEF ClientSend
<1>19. ASSUME NEW k \in Clients, ClientReceive(k) PROVE Mail'
  <2>1. PICK a \in Answers : /\ <<k, a>> \in returning
                             /\ answer' = [answer EXCEPT ![k] = a]
                             /\ returning' = returning \ {<<k, a>>}
    BY <1>19 DEF ClientReceive
  <2>2. /\ k \notin wire \cup inbox /\ k # current
        /\ a = "node_fault_started" <=> k \in started
    BY <2>1
  <2>3. /\ client' = [client EXCEPT ![k] = "answered"]
        /\ UNCHANGED <<threadPc, current, reply, started, wire, inbox>>
    BY <1>19 DEF ClientReceive
  <2>4. AnswersTrue'
    BY <2>1, <2>2, <2>3
  <2>5. \A c \in Clients, b \in Answers : <<c, b>> \in returning' => c # k
    BY <2>1
  <2> QED
    BY <2>1, <2>2, <2>3, <2>4, <2>5
<1>20. ASSUME NEW k \in Clients, ClientGiveUp(k) PROVE Mail'
  BY <1>20 DEF ClientGiveUp
<1>21. ASSUME NEW k \in Clients, Deliver(k) PROVE Mail'
  BY <1>21 DEF Deliver
<1>22. CASE UNCHANGED vars
  BY <1>22 DEF vars
<1> QED
  BY <1>1, <1>2, <1>3, <1>4, <1>5, <1>6, <1>7, <1>8, <1>9, <1>10, <1>11, <1>12,
     <1>13, <1>14, <1>15, <1>16, <1>17, <1>18, <1>19, <1>20, <1>21, <1>22
  DEF Next, MainStep, ServerStep, ClientStep, Terminated

LEMMA ControlInvHolds == Spec => []ControlInv
<1>1. ControlInv /\ [Next]_vars => ControlInv'
  BY TypeStep, PhasesStep, MailStep DEF ControlInv
<1> QED
  BY InitInv, <1>1, PTL DEF Spec

-----------------------------------------------------------------------------
\* Every variable keeps its type, and the control thread has a client wherever it
\* handles a request and an answer wherever it sends one.
THEOREM ControlTypeCorrect == Spec => []TypeOK
BY ControlInvHolds, PTL DEF ControlInv

\* handle_control_request tells a client that its fault has started exactly if it has,
\* whoever else asks, gives up, starts faults or stops the node meanwhile.
THEOREM AnswersAreTrue == Spec => []AnswersTrue
BY ControlInvHolds, PTL DEF ControlInv, Mail

\* Neither stop_control_server nor a start_control_server that fails leaves its thread
\* running.
THEOREM NoThreadIsLeft == Spec => []NoThreadLeft
BY ControlInvHolds, PTL DEF ControlInv, Phases

\* main() spins with a configured control server only if its port is bound.
THEOREM SpinIsBound == Spec => []SpinMeansBound
BY ControlInvHolds, PTL DEF ControlInv, Phases
=============================================================================
