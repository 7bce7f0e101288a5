----------------------------- MODULE NodeProof -----------------------------
(***************************************************************************)
(* Proofs about Node, for any number of restart requests.                   *)
(*                                                                         *)
(* Each task reads the broker's state just before it calls the broker, so   *)
(* the calls exclude one another, and the broker's state is that of the     *)
(* call under way (TakeTurns).  Whoever is within a call has                 *)
(* not finished its request (CallersWait), and no request is under way       *)
(* before the web server is up or after it was closed (WebGate).  So a       *)
(* broker that is down has a request that will put it up again (Owed), and   *)
(* a request beside which there is no other finds the broker as its own      *)
(* calls have left it (OwnDoing).                                           *)
(***************************************************************************)
EXTENDS Node, TLAPS

AllIdle == \A r \in Requests : pc[r] = "idle"
Closed == {"broker_off", "broker_stop", "xmpp_off", "done"}

TakeTurns ==
  /\ \A t \in Tasks : OnCall(t) => broker = call[t]
  /\ main # "done" /\ broker \in {"starting", "stopping"} =>
       (broker = "stopping" /\ "stop" \in failed) \/ \E t \in Tasks : OnCall(t)

CallersWait ==
  /\ \A r \in Requests :
       /\ pc[r] \notin {"stopping", "starting"} => call[r] = "none"
       /\ pc[r] = "stopping" => call[r] \in {"stopping", "done", "raised"}
       /\ pc[r] = "starting" => call[r] \in {"starting", "done", "raised"}
  /\ main \notin {"broker", "broker_stop"} => call[Main] = "none"
  /\ main = "broker" => call[Main] \in {"starting", "done", "raised"}
  /\ main = "broker_stop" => call[Main] \in {"stopping", "done", "raised"}

WebGate ==
  /\ main \in {"broker", "helper"} => web = "none"
  /\ web \in {"none", "starting"} => AllIdle
  /\ main \in Running \cup {"helper_off"} => ~late /\ web \notin {"closing", "off"}
  /\ main = "web_off" /\ ~late => web \in {"none", "closing"}
  /\ main \in Closed /\ ~late => web \in {"none", "off"} /\ AllIdle

FirstStart ==
  /\ main = "helper" => broker = "started"
  /\ main = "broker" /\ call[Main] = "done" => broker = "started"

Owed ==
  /\ main = "serving" /\ broker \in Halted /\ ~BrokerFailed =>
       \E r \in Requests : pc[r] \in {"stopping", "wait_stopped"}
  /\ xmpp = "down" /\ main # "done" /\ "xmpp" \notin failed => \E r \in Requests : pc[r] = "xmpp"

OwnDoing ==
  ~late /\ ~BrokerFailed => \A r \in alone :
    /\ \A q \in Requests \ {r} : pc[q] = "idle"
    /\ pc[r] \notin {"settle_start", "settle_stop", "wait_stopped", "wait_started"}
    /\ pc[r] = "stopping" /\ call[r] = "done" => broker = "stopped"
    /\ pc[r] = "starting" /\ call[r] = "done" => broker = "started"
    /\ answer[r] = "failed" => pc[r] # "idle"

StaysDown ==
  ~late =>
    /\ main = "broker_stop" /\ call[Main] = "done" => broker = "stopped"
    /\ main \in {"xmpp_off", "done"} => broker \in Halted \/ "stop" \in failed

\* The broker's state, and the call of a request that stops it, tell of a failure.
FailuresShow ==
  /\ broker = "not_started" => "start" \in failed
  /\ broker = "not_stopped" => "stop" \in failed
  /\ \A r \in Requests : pc[r] = "stopping" /\ call[r] = "raised" => "stop" \in failed
  /\ main = "broker_stop" /\ call[Main] = "raised" => "stop" \in failed

CallInv == BrokerCalledRightly /\ TakeTurns /\ CallersWait /\ FailuresShow
GateInv == WebGate /\ FirstStart

-----------------------------------------------------------------------------
(* Proofs                                                                   *)

CallTypes ==
  /\ broker \in Halted \cup {"starting", "started", "stopping"}
  /\ call \in [Tasks -> {"none", "starting", "stopping", "done", "raised"}]
  /\ misused \in BOOLEAN /\ failed \subseteq {"start", "stop", "xmpp"}

LEMMA CallsAreTyped ==
  ASSUME CallTypes, NEW t \in Tasks,
         CallStart(t) \/ CallShutdown(t) \/ Returned(t) \/ UNCHANGED brokerVars
  PROVE  CallTypes'
BY DEF CallTypes, CallStart, CallShutdown, Returned, brokerVars

\* A step leaves the variables in their types.
LEMMA TypeStep ==
  ASSUME TypeOK, [Next]_vars
  PROVE  TypeOK'
<1> USE MainAssumption, AsksAssumption DEF TypeOK, Running, Ending, Halted, vars, mainVars, brokerVars, requestVars, Tasks
<1>1. ASSUME NEW r \in Requests, main # "done", AskMqtt(r) PROVE TypeOK'
  <2>1. CallStart(r) \/ CallShutdown(r) \/ Returned(r) \/ UNCHANGED brokerVars
    BY <1>1 DEF AskMqtt, AwaitStopped
  <2>2. CallTypes'
    BY <2>1, CallsAreTyped DEF CallTypes
  <2>3. pc' \in [Requests -> {"idle", "stopping", "settle_start", "settle_stop", "wait_stopped",
                              "starting", "wait_started", "xmpp"}]
    BY <1>1 DEF AskMqtt, AwaitStopped, Goto
  <2>4. answer' \in [Requests -> {"none", "complete", "failed", "error"}]
    BY <1>1 DEF AskMqtt, AwaitStopped, Goto
  <2>5. asks' \in 0 .. MaxAsks /\ alone' \subseteq Requests
    BY <1>1 DEF AskMqtt, Enter
  <2>6. UNCHANGED <<main, web, late, xmpp>>
    BY <1>1 DEF AskMqtt
  <2> QED BY <2>2, <2>3, <2>4, <2>5, <2>6 DEF CallTypes
<1>2. ASSUME NEW r \in Requests, main # "done", AskXmpp(r) PROVE TypeOK'
  BY <1>2 DEF AskXmpp, Enter, Goto
<1>3. ASSUME NEW r \in Requests, main # "done", Settled(r) PROVE TypeOK'
  <2>1. CallStart(r) \/ CallShutdown(r) \/ Returned(r) \/ UNCHANGED brokerVars
    BY <1>3 DEF Settled, AwaitStopped
  <2>2. CallTypes'
    BY <2>1, CallsAreTyped DEF CallTypes
  <2>3. pc' \in [Requests -> {"idle", "stopping", "settle_start", "settle_stop", "wait_stopped",
                              "starting", "wait_started", "xmpp"}]
    BY <1>3 DEF Settled, AwaitStopped, Goto
  <2>4. answer' \in [Requests -> {"none", "complete", "failed", "error"}]
    BY <1>3 DEF Settled, AwaitStopped, Goto
  <2>5. asks' \in 0 .. MaxAsks /\ alone' \subseteq Requests
    BY <1>3 DEF Settled, Enter
  <2>6. UNCHANGED <<main, web, late, xmpp>>
    BY <1>3 DEF Settled
  <2> QED BY <2>2, <2>3, <2>4, <2>5, <2>6 DEF CallTypes
<1>4. ASSUME NEW r \in Requests, main # "done", Stopped(r) PROVE TypeOK'
  <2>1. CallStart(r) \/ CallShutdown(r) \/ Returned(r) \/ UNCHANGED brokerVars
    BY <1>4 DEF Stopped, AwaitStopped
  <2>2. CallTypes'
    BY <2>1, CallsAreTyped DEF CallTypes
  <2>3. pc' \in [Requests -> {"idle", "stopping", "settle_start", "settle_stop", "wait_stopped",
                              "starting", "wait_started", "xmpp"}]
    BY <1>4 DEF Stopped, Goto, Reply
  <2>4. answer' \in [Requests -> {"none", "complete", "failed", "error"}]
    BY <1>4 DEF Stopped, Goto, Reply
  <2>5. asks' \in 0 .. MaxAsks /\ alone' \subseteq Requests
    BY <1>4 DEF Stopped, Enter
  <2>6. UNCHANGED <<main, web, late, xmpp>>
    BY <1>4 DEF Stopped
  <2> QED BY <2>2, <2>3, <2>4, <2>5, <2>6 DEF CallTypes
<1>5. ASSUME NEW r \in Requests, main # "done", WaitStoppedOver(r) PROVE TypeOK'
  <2>1. CallStart(r) \/ CallShutdown(r) \/ Returned(r) \/ UNCHANGED brokerVars
    BY <1>5 DEF WaitStoppedOver, AwaitStopped
  <2>2. CallTypes'
    BY <2>1, CallsAreTyped DEF CallTypes
  <2>3. pc' \in [Requests -> {"idle", "stopping", "settle_start", "settle_stop", "wait_stopped",
                              "starting", "wait_started", "xmpp"}]
    BY <1>5 DEF WaitStoppedOver, Goto, Reply
  <2>4. answer' \in [Requests -> {"none", "complete", "failed", "error"}]
    BY <1>5 DEF WaitStoppedOver, Goto, Reply
  <2>5. asks' \in 0 .. MaxAsks /\ alone' \subseteq Requests
    BY <1>5 DEF WaitStoppedOver, Enter
  <2>6. UNCHANGED <<main, web, late, xmpp>>
    BY <1>5 DEF WaitStoppedOver
  <2> QED BY <2>2, <2>3, <2>4, <2>5, <2>6 DEF CallTypes
<1>6. ASSUME NEW r \in Requests, main # "done", Started(r) PROVE TypeOK'
  <2>1. CallStart(r) \/ CallShutdown(r) \/ Returned(r) \/ UNCHANGED brokerVars
    BY <1>6 DEF Started, AwaitStopped
  <2>2. CallTypes'
    BY <2>1, CallsAreTyped DEF CallTypes
  <2>3. pc' \in [Requests -> {"idle", "stopping", "settle_start", "settle_stop", "wait_stopped",
                              "starting", "wait_started", "xmpp"}]
    BY <1>6 DEF Started, Goto, Reply
  <2>4. answer' \in [Requests -> {"none", "complete", "failed", "error"}]
    BY <1>6 DEF Started, Goto, Reply
  <2>5. asks' \in 0 .. MaxAsks /\ alone' \subseteq Requests
    BY <1>6 DEF Started, Enter
  <2>6. UNCHANGED <<main, web, late, xmpp>>
    BY <1>6 DEF Started
  <2> QED BY <2>2, <2>3, <2>4, <2>5, <2>6 DEF CallTypes
<1>7. ASSUME NEW r \in Requests, main # "done", WaitStartedOver(r) PROVE TypeOK'
  BY <1>7 DEF WaitStartedOver, Reply
<1>8. ASSUME NEW r \in Requests, main # "done", XmppAgain(r) PROVE TypeOK'
  <2>1. xmpp' \in {"starting", "up", "down"} /\ failed' \subseteq {"start", "stop", "xmpp"}
    BY <1>8 DEF XmppAgain, XmppStarts
  <2>2. \E s \in {"complete", "error"} : Reply(r, s)
    BY <1>8 DEF XmppAgain
  <2>3. pc' \in [Requests -> {"idle", "stopping", "settle_start", "settle_stop", "wait_stopped",
                              "starting", "wait_started", "xmpp"}]
    BY <2>2 DEF Reply
  <2>4. answer' \in [Requests -> {"none", "complete", "failed", "error"}]
    BY <2>2 DEF Reply
  <2>5. UNCHANGED <<asks, alone, mainVars, broker, call, misused>>
    BY <1>8 DEF XmppAgain
  <2> QED BY <2>1, <2>3, <2>4, <2>5
<1>9. ASSUME NEW t \in Tasks, Through(t) PROVE TypeOK'
  <2>1. broker' \in Halted \cup {"started", "stopping"} /\ failed' \subseteq {"start", "stop", "xmpp"}
    BY <1>9 DEF Through
  <2>2. \E s \in {"done", "raised"} : call' = [call EXCEPT ![t] = s]
    BY <1>9 DEF Through
  <2>3. call' \in [Tasks -> {"none", "starting", "stopping", "done", "raised"}]
    BY <2>2
  <2> QED BY <1>9, <2>1, <2>3 DEF Through
<1>10. ASSUME MainStarted PROVE TypeOK'
  BY <1>10 DEF MainStarted, Returned
<1>11. ASSUME HelperConnected PROVE TypeOK'
  BY <1>11 DEF HelperConnected
<1>12. ASSUME HelperOff PROVE TypeOK'
  BY <1>12 DEF HelperOff
<1>13. ASSUME WebOff PROVE TypeOK'
  BY <1>13 DEF WebOff
<1>14. ASSUME BrokerOff PROVE TypeOK'
  BY <1>14 DEF BrokerOff, CallShutdown
<1>15. ASSUME BrokerIsOff PROVE TypeOK'
  BY <1>15 DEF BrokerIsOff, Returned
<1>16. ASSUME XmppOff PROVE TypeOK'
  BY <1>16 DEF XmppOff, Exit
<1>16a. ASSUME BrokerNotOff PROVE TypeOK'
  BY <1>16a DEF BrokerNotOff, Exit
<1>17. ASSUME Interrupt PROVE TypeOK'
  BY <1>17 DEF Interrupt
<1>18. ASSUME XmppStarted PROVE TypeOK'
  BY <1>18 DEF XmppStarted, XmppStarts
<1>19. ASSUME WebStarted PROVE TypeOK'
  BY <1>19 DEF WebStarted
<1>20. ASSUME UNCHANGED vars PROVE TypeOK'
  BY <1>20
<1> QED BY <1>1, <1>2, <1>3, <1>4, <1>5, <1>6, <1>7, <1>8, <1>9, <1>10, <1>11, <1>12, <1>13, <1>14, <1>15, <1>16, <1>16a, <1>17,
  <1>18, <1>19, <1>20 DEF Next, Serve, Lifecycle

\* The broker is called in a state that allows it, and the calls take turns.
LEMMA CallStep ==
  ASSUME TypeOK, TypeOK', CallInv, [Next]_vars
  PROVE  CallInv'
<1> USE MainAssumption, AsksAssumption DEF TypeOK, Running, Ending, Halted, BrokerFailed, CallInv, BrokerCalledRightly, TakeTurns, CallersWait, FailuresShow, OnCall, vars, mainVars, brokerVars, requestVars, Tasks
<1>1. ASSUME NEW r \in Requests, main # "done", AskMqtt(r) PROVE CallInv'
  BY <1>1 DEF AskMqtt, Enter, CallStart, CallShutdown, AwaitStopped, Goto
<1>2. ASSUME NEW r \in Requests, main # "done", AskXmpp(r) PROVE CallInv'
  BY <1>2 DEF AskXmpp, Enter, Goto
<1>3. ASSUME NEW r \in Requests, main # "done", Settled(r) PROVE CallInv'
  BY <1>3 DEF Settled, CallStart, CallShutdown, AwaitStopped, Goto
<1>4. ASSUME NEW r \in Requests, main # "done", Stopped(r) PROVE CallInv'
  BY <1>4 DEF Stopped, CallStart, Returned, Goto, Reply
<1>5. ASSUME NEW r \in Requests, main # "done", WaitStoppedOver(r) PROVE CallInv'
  BY <1>5 DEF WaitStoppedOver, CallStart, Goto, Reply
<1>6. ASSUME NEW r \in Requests, main # "done", Started(r) PROVE CallInv'
  BY <1>6 DEF Started, Returned, Goto, Reply
<1>7. ASSUME NEW r \in Requests, main # "done", WaitStartedOver(r) PROVE CallInv'
  BY <1>7 DEF WaitStartedOver, Reply
<1>8. ASSUME NEW r \in Requests, main # "done", XmppAgain(r) PROVE CallInv'
  BY <1>8 DEF XmppAgain, XmppStarts, Reply
<1>9. ASSUME NEW t \in Tasks, Through(t) PROVE CallInv'
  BY <1>9 DEF Through
<1>10. ASSUME MainStarted PROVE CallInv'
  BY <1>10 DEF MainStarted, Returned
<1>11. ASSUME HelperConnected PROVE CallInv'
  BY <1>11 DEF HelperConnected
<1>12. ASSUME HelperOff PROVE CallInv'
  BY <1>12 DEF HelperOff
<1>13. ASSUME WebOff PROVE CallInv'
  BY <1>13 DEF WebOff
<1>14. ASSUME BrokerOff PROVE CallInv'
  BY <1>14 DEF BrokerOff, CallShutdown
<1>15. ASSUME BrokerIsOff PROVE CallInv'
  BY <1>15 DEF BrokerIsOff, Returned
<1>16. ASSUME XmppOff PROVE CallInv'
  BY <1>16 DEF XmppOff, Exit
<1>16a. ASSUME BrokerNotOff PROVE CallInv'
  BY <1>16a DEF BrokerNotOff, Exit
<1>17. ASSUME Interrupt PROVE CallInv'
  BY <1>17 DEF Interrupt
<1>18. ASSUME XmppStarted PROVE CallInv'
  BY <1>18 DEF XmppStarted, XmppStarts
<1>19. ASSUME WebStarted PROVE CallInv'
  BY <1>19 DEF WebStarted
<1>20. ASSUME UNCHANGED vars PROVE CallInv'
  BY <1>20
<1> QED BY <1>1, <1>2, <1>3, <1>4, <1>5, <1>6, <1>7, <1>8, <1>9, <1>10, <1>11, <1>12, <1>13, <1>14, <1>15, <1>16, <1>16a, <1>17,
  <1>18, <1>19, <1>20 DEF Next, Serve, Lifecycle

\* Requests are served between the start of the web server and its end.
LEMMA GateStep ==
  ASSUME TypeOK, TypeOK', CallInv, GateInv, [Next]_vars
  PROVE  GateInv'
<1> USE MainAssumption, AsksAssumption DEF TypeOK, Running, Ending, Halted, BrokerFailed, CallInv, BrokerCalledRightly, TakeTurns, CallersWait, FailuresShow, OnCall, GateInv, WebGate, FirstStart, AllIdle, Closed, vars, mainVars, brokerVars, requestVars, Tasks
<1>1. ASSUME NEW r \in Requests, main # "done", AskMqtt(r) PROVE GateInv'
  BY <1>1 DEF AskMqtt, Enter, CallStart, CallShutdown, AwaitStopped, Goto
<1>2. ASSUME NEW r \in Requests, main # "done", AskXmpp(r) PROVE GateInv'
  BY <1>2 DEF AskXmpp, Enter, Goto
<1>3. ASSUME NEW r \in Requests, main # "done", Settled(r) PROVE GateInv'
  BY <1>3 DEF Settled, CallStart, CallShutdown, AwaitStopped, Goto
<1>4. ASSUME NEW r \in Requests, main # "done", Stopped(r) PROVE GateInv'
  BY <1>4 DEF Stopped, CallStart, Returned, Goto, Reply
<1>5. ASSUME NEW r \in Requests, main # "done", WaitStoppedOver(r) PROVE GateInv'
  BY <1>5 DEF WaitStoppedOver, CallStart, Goto, Reply
<1>6. ASSUME NEW r \in Requests, main # "done", Started(r) PROVE GateInv'
  BY <1>6 DEF Started, Returned, Goto, Reply
<1>7. ASSUME NEW r \in Requests, main # "done", WaitStartedOver(r) PROVE GateInv'
  BY <1>7 DEF WaitStartedOver, Reply
<1>8. ASSUME NEW r \in Requests, main # "done", XmppAgain(r) PROVE GateInv'
  BY <1>8 DEF XmppAgain, XmppStarts, Reply
<1>9. ASSUME NEW t \in Tasks, Through(t) PROVE GateInv'
  BY <1>9 DEF Through
<1>10. ASSUME MainStarted PROVE GateInv'
  BY <1>10 DEF MainStarted, Returned
<1>11. ASSUME HelperConnected PROVE GateInv'
  BY <1>11 DEF HelperConnected
<1>12. ASSUME HelperOff PROVE GateInv'
  BY <1>12 DEF HelperOff
<1>13. ASSUME WebOff PROVE GateInv'
  BY <1>13 DEF WebOff
<1>14. ASSUME BrokerOff PROVE GateInv'
  BY <1>14 DEF BrokerOff, CallShutdown
<1>15. ASSUME BrokerIsOff PROVE GateInv'
  BY <1>15 DEF BrokerIsOff, Returned
<1>16. ASSUME XmppOff PROVE GateInv'
  BY <1>16 DEF XmppOff, Exit
<1>16a. ASSUME BrokerNotOff PROVE GateInv'
  BY <1>16a DEF BrokerNotOff, Exit
<1>17. ASSUME Interrupt PROVE GateInv'
  BY <1>17 DEF Interrupt
<1>18. ASSUME XmppStarted PROVE GateInv'
  BY <1>18 DEF XmppStarted, XmppStarts
<1>19. ASSUME WebStarted PROVE GateInv'
  BY <1>19 DEF WebStarted
<1>20. ASSUME UNCHANGED vars PROVE GateInv'
  BY <1>20
<1> QED BY <1>1, <1>2, <1>3, <1>4, <1>5, <1>6, <1>7, <1>8, <1>9, <1>10, <1>11, <1>12, <1>13, <1>14, <1>15, <1>16, <1>16a, <1>17,
  <1>18, <1>19, <1>20 DEF Next, Serve, Lifecycle

\* A server that is down is owed by a request.
LEMMA OwedStep ==
  ASSUME TypeOK, TypeOK', CallInv, CallInv', GateInv, Owed, [Next]_vars
  PROVE  Owed'
<1> USE MainAssumption, AsksAssumption DEF TypeOK, Running, Ending, Halted, BrokerFailed, CallInv, BrokerCalledRightly, TakeTurns, CallersWait, FailuresShow, OnCall, GateInv, WebGate, FirstStart, AllIdle, Closed, Owed, vars, mainVars, brokerVars, requestVars, Tasks
<1>1. ASSUME NEW r \in Requests, main # "done", AskMqtt(r) PROVE Owed'
  BY <1>1 DEF AskMqtt, Enter, CallStart, CallShutdown, AwaitStopped, Goto
<1>2. ASSUME NEW r \in Requests, main # "done", AskXmpp(r) PROVE Owed'
  BY <1>2 DEF AskXmpp, Enter, Goto
<1>3. ASSUME NEW r \in Requests, main # "done", Settled(r) PROVE Owed'
  BY <1>3 DEF Settled, CallStart, CallShutdown, AwaitStopped, Goto
<1>4. ASSUME NEW r \in Requests, main # "done", Stopped(r) PROVE Owed'
  BY <1>4 DEF Stopped, CallStart, Returned, Goto, Reply
<1>5. ASSUME NEW r \in Requests, main # "done", WaitStoppedOver(r) PROVE Owed'
  BY <1>5 DEF WaitStoppedOver, CallStart, Goto, Reply
<1>6. ASSUME NEW r \in Requests, main # "done", Started(r) PROVE Owed'
  BY <1>6 DEF Started, Returned, Goto, Reply
<1>7. ASSUME NEW r \in Requests, main # "done", WaitStartedOver(r) PROVE Owed'
  BY <1>7 DEF WaitStartedOver, Reply
<1>8. ASSUME NEW r \in Requests, main # "done", XmppAgain(r) PROVE Owed'
  BY <1>8 DEF XmppAgain, XmppStarts, Reply
<1>9. ASSUME NEW t \in Tasks, Through(t) PROVE Owed'
  BY <1>9 DEF Through
<1>10. ASSUME MainStarted PROVE Owed'
  BY <1>10 DEF MainStarted, Returned
<1>11. ASSUME HelperConnected PROVE Owed'
  BY <1>11 DEF HelperConnected
<1>12. ASSUME HelperOff PROVE Owed'
  BY <1>12 DEF HelperOff
<1>13. ASSUME WebOff PROVE Owed'
  BY <1>13 DEF WebOff
<1>14. ASSUME BrokerOff PROVE Owed'
  BY <1>14 DEF BrokerOff, CallShutdown
<1>15. ASSUME BrokerIsOff PROVE Owed'
  BY <1>15 DEF BrokerIsOff, Returned
<1>16. ASSUME XmppOff PROVE Owed'
  BY <1>16 DEF XmppOff, Exit
<1>16a. ASSUME BrokerNotOff PROVE Owed'
  BY <1>16a DEF BrokerNotOff, Exit
<1>17. ASSUME Interrupt PROVE Owed'
  BY <1>17 DEF Interrupt
<1>18. ASSUME XmppStarted PROVE Owed'
  BY <1>18 DEF XmppStarted, XmppStarts
<1>19. ASSUME WebStarted PROVE Owed'
  BY <1>19 DEF WebStarted
<1>20. ASSUME UNCHANGED vars PROVE Owed'
  BY <1>20
<1> QED BY <1>1, <1>2, <1>3, <1>4, <1>5, <1>6, <1>7, <1>8, <1>9, <1>10, <1>11, <1>12, <1>13, <1>14, <1>15, <1>16, <1>16a, <1>17,
  <1>18, <1>19, <1>20 DEF Next, Serve, Lifecycle

\* A request that is alone finds what it did itself.
LEMMA OwnStep ==
  ASSUME TypeOK, TypeOK', CallInv, CallInv', GateInv, OwnDoing, [Next]_vars
  PROVE  OwnDoing'
<1> USE MainAssumption, AsksAssumption DEF TypeOK, Running, Ending, Halted, BrokerFailed, CallInv, BrokerCalledRightly, TakeTurns, CallersWait, FailuresShow, OnCall, GateInv, WebGate, FirstStart, AllIdle, Closed, OwnDoing, vars, mainVars, brokerVars, requestVars, Tasks
<1>1. ASSUME NEW r \in Requests, main # "done", AskMqtt(r) PROVE OwnDoing'
  BY <1>1 DEF AskMqtt, Enter, CallStart, CallShutdown, AwaitStopped, Goto
<1>2. ASSUME NEW r \in Requests, main # "done", AskXmpp(r) PROVE OwnDoing'
  BY <1>2 DEF AskXmpp, Enter, Goto
<1>3. ASSUME NEW r \in Requests, main # "done", Settled(r) PROVE OwnDoing'
  BY <1>3 DEF Settled, CallStart, CallShutdown, AwaitStopped, Goto
<1>4. ASSUME NEW r \in Requests, main # "done", Stopped(r) PROVE OwnDoing'
  BY <1>4 DEF Stopped, CallStart, Returned, Goto, Reply
<1>5. ASSUME NEW r \in Requests, main # "done", WaitStoppedOver(r) PROVE OwnDoing'
  BY <1>5 DEF WaitStoppedOver, CallStart, Goto, Reply
<1>6. ASSUME NEW r \in Requests, main # "done", Started(r) PROVE OwnDoing'
  BY <1>6 DEF Started, Returned, Goto, Reply
<1>7. ASSUME NEW r \in Requests, main # "done", WaitStartedOver(r) PROVE OwnDoing'
  BY <1>7 DEF WaitStartedOver, Reply
<1>8. ASSUME NEW r \in Requests, main # "done", XmppAgain(r) PROVE OwnDoing'
  BY <1>8 DEF XmppAgain, XmppStarts, Reply
<1>9. ASSUME NEW t \in Tasks, Through(t) PROVE OwnDoing'
  BY <1>9 DEF Through
<1>10. ASSUME MainStarted PROVE OwnDoing'
  BY <1>10 DEF MainStarted, Returned
<1>11. ASSUME HelperConnected PROVE OwnDoing'
  BY <1>11 DEF HelperConnected
<1>12. ASSUME HelperOff PROVE OwnDoing'
  BY <1>12 DEF HelperOff
<1>13. ASSUME WebOff PROVE OwnDoing'
  BY <1>13 DEF WebOff
<1>14. ASSUME BrokerOff PROVE OwnDoing'
  BY <1>14 DEF BrokerOff, CallShutdown
<1>15. ASSUME BrokerIsOff PROVE OwnDoing'
  BY <1>15 DEF BrokerIsOff, Returned
<1>16. ASSUME XmppOff PROVE OwnDoing'
  BY <1>16 DEF XmppOff, Exit
<1>16a. ASSUME BrokerNotOff PROVE OwnDoing'
  BY <1>16a DEF BrokerNotOff, Exit
<1>17. ASSUME Interrupt PROVE OwnDoing'
  BY <1>17 DEF Interrupt
<1>18. ASSUME XmppStarted PROVE OwnDoing'
  BY <1>18 DEF XmppStarted, XmppStarts
<1>19. ASSUME WebStarted PROVE OwnDoing'
  BY <1>19 DEF WebStarted
<1>20. ASSUME UNCHANGED vars PROVE OwnDoing'
  BY <1>20
<1> QED BY <1>1, <1>2, <1>3, <1>4, <1>5, <1>6, <1>7, <1>8, <1>9, <1>10, <1>11, <1>12, <1>13, <1>14, <1>15, <1>16, <1>16a, <1>17,
  <1>18, <1>19, <1>20 DEF Next, Serve, Lifecycle

\* Nothing starts the broker that shutdown() has stopped.
LEMMA DownStep ==
  ASSUME TypeOK, TypeOK', CallInv, CallInv', GateInv, StaysDown, [Next]_vars
  PROVE  StaysDown'
<1> USE MainAssumption, AsksAssumption DEF TypeOK, Running, Ending, Halted, BrokerFailed, CallInv, BrokerCalledRightly, TakeTurns, CallersWait, FailuresShow, OnCall, GateInv, WebGate, FirstStart, AllIdle, Closed, StaysDown, vars, mainVars, brokerVars, requestVars, Tasks
<1>1. ASSUME NEW r \in Requests, main # "done", AskMqtt(r) PROVE StaysDown'
  BY <1>1 DEF AskMqtt, Enter, CallStart, CallShutdown, AwaitStopped, Goto
<1>2. ASSUME NEW r \in Requests, main # "done", AskXmpp(r) PROVE StaysDown'
  BY <1>2 DEF AskXmpp, Enter, Goto
<1>3. ASSUME NEW r \in Requests, main # "done", Settled(r) PROVE StaysDown'
  BY <1>3 DEF Settled, CallStart, CallShutdown, AwaitStopped, Goto
<1>4. ASSUME NEW r \in Requests, main # "done", Stopped(r) PROVE StaysDown'
  BY <1>4 DEF Stopped, CallStart, Returned, Goto, Reply
<1>5. ASSUME NEW r \in Requests, main # "done", WaitStoppedOver(r) PROVE StaysDown'
  BY <1>5 DEF WaitStoppedOver, CallStart, Goto, Reply
<1>6. ASSUME NEW r \in Requests, main # "done", Started(r) PROVE StaysDown'
  BY <1>6 DEF Started, Returned, Goto, Reply
<1>7. ASSUME NEW r \in Requests, main # "done", WaitStartedOver(r) PROVE StaysDown'
  BY <1>7 DEF WaitStartedOver, Reply
<1>8. ASSUME NEW r \in Requests, main # "done", XmppAgain(r) PROVE StaysDown'
  BY <1>8 DEF XmppAgain, XmppStarts, Reply
<1>9. ASSUME NEW t \in Tasks, Through(t) PROVE StaysDown'
  BY <1>9 DEF Through
<1>10. ASSUME MainStarted PROVE StaysDown'
  BY <1>10 DEF MainStarted, Returned
<1>11. ASSUME HelperConnected PROVE StaysDown'
  BY <1>11 DEF HelperConnected
<1>12. ASSUME HelperOff PROVE StaysDown'
  BY <1>12 DEF HelperOff
<1>13. ASSUME WebOff PROVE StaysDown'
  BY <1>13 DEF WebOff
<1>14. ASSUME BrokerOff PROVE StaysDown'
  BY <1>14 DEF BrokerOff, CallShutdown
<1>15. ASSUME BrokerIsOff PROVE StaysDown'
  BY <1>15 DEF BrokerIsOff, Returned
<1>16. ASSUME XmppOff PROVE StaysDown'
  BY <1>16 DEF XmppOff, Exit
<1>16a. ASSUME BrokerNotOff PROVE StaysDown'
  BY <1>16a DEF BrokerNotOff, Exit
<1>17. ASSUME Interrupt PROVE StaysDown'
  BY <1>17 DEF Interrupt
<1>18. ASSUME XmppStarted PROVE StaysDown'
  BY <1>18 DEF XmppStarted, XmppStarts
<1>19. ASSUME WebStarted PROVE StaysDown'
  BY <1>19 DEF WebStarted
<1>20. ASSUME UNCHANGED vars PROVE StaysDown'
  BY <1>20
<1> QED BY <1>1, <1>2, <1>3, <1>4, <1>5, <1>6, <1>7, <1>8, <1>9, <1>10, <1>11, <1>12, <1>13, <1>14, <1>15, <1>16, <1>16a, <1>17,
  <1>18, <1>19, <1>20 DEF Next, Serve, Lifecycle

\* The invariant holds at the start and in every step.
Inv == CallInv /\ GateInv /\ Owed /\ OwnDoing /\ StaysDown

LEMMA InvInit ==
  Init => TypeOK /\ Inv
<1> SUFFICES ASSUME Init PROVE TypeOK /\ Inv
  OBVIOUS
<1> USE MainAssumption, AsksAssumption DEF Init, Tasks
<1>1. TypeOK
  <2>1. call \in [Tasks -> {"none", "starting", "stopping", "done", "raised"}]
    OBVIOUS
  <2>2. asks \in 0 .. MaxAsks /\ alone \subseteq Requests
    OBVIOUS
  <2> QED BY <2>1, <2>2 DEF TypeOK, Running, Ending, Halted
<1>2. CallInv
  BY DEF CallInv, BrokerCalledRightly, TakeTurns, CallersWait, FailuresShow, OnCall
<1>3. GateInv
  BY DEF GateInv, WebGate, FirstStart, AllIdle, Closed, Running
<1>4. Owed /\ OwnDoing /\ StaysDown
  BY DEF Owed, OwnDoing, StaysDown
<1> QED BY <1>1, <1>2, <1>3, <1>4 DEF Inv

\* Every variable of a Bumper process's life keeps its type: the life cycle's
\* stage, the broker's state, the calls of the broker and the requests.
THEOREM NodeTypes ==
  Spec => []TypeOK
<1>1. Init => TypeOK
  BY InvInit
<1>2. TypeOK /\ [Next]_vars => TypeOK'
  BY TypeStep
<1> QED BY <1>1, <1>2, PTL DEF Spec

\* The invariant of every execution.
LEMMA InvAlways ==
  Spec => [](TypeOK /\ Inv)
<1>1. Init => TypeOK /\ Inv
  BY InvInit
<1>2. TypeOK /\ Inv /\ [Next]_vars => (TypeOK /\ Inv)'
  <2> SUFFICES ASSUME TypeOK, Inv, [Next]_vars PROVE (TypeOK /\ Inv)'
    OBVIOUS
  <2>1. TypeOK'
    BY TypeStep
  <2>2. CallInv /\ GateInv /\ Owed /\ OwnDoing /\ StaysDown
    BY DEF Inv
  <2>3. CallInv'
    BY <2>1, <2>2, CallStep
  <2>4. GateInv'
    BY <2>1, <2>2, GateStep
  <2>5. Owed' /\ OwnDoing' /\ StaysDown'
    BY <2>1, <2>2, <2>3, OwedStep, OwnStep, DownStep
  <2> QED BY <2>1, <2>3, <2>4, <2>5 DEF Inv
<1> QED BY <1>1, <1>2, PTL DEF Spec

\* However restart requests and shutdown() overlap, start() of the broker is
\* called when it is stopped only and shutdown() when it is started only, and
\* no call is made before another task's call is through.
THEOREM CallsTakeTurns ==
  Spec => []BrokerCalledRightly
<1>1. TypeOK /\ Inv => BrokerCalledRightly
  BY DEF Inv, CallInv
<1> QED BY <1>1, InvAlways, PTL

\* While the process serves and no restart is under way, the servers run,
\* whatever restarts overlapped, unless a call of the broker has failed, or the
\* XMPP server's last start has.
THEOREM ServersAreBack ==
  Spec => []RestartRestores
<1>1. TypeOK /\ Inv => RestartRestores
  <2> SUFFICES ASSUME TypeOK, Inv, main = "serving", \A r \in Requests : pc[r] = "idle"
               PROVE  /\ BrokerFailed \/ broker = "started"
                      /\ xmpp \in {"starting", "up"} \/ "xmpp" \in failed
    BY DEF RestartRestores, Status
  <2>1. Owed /\ CallInv
    BY DEF Inv
  <2>2. \A t \in Tasks : ~OnCall(t)
    BY <2>1 DEF CallInv, CallersWait, OnCall, Tasks
  <2>3. BrokerFailed \/ broker \notin {"starting", "stopping"}
    BY <2>1, <2>2 DEF CallInv, TakeTurns, BrokerFailed
  <2>4. BrokerFailed \/ broker \notin Halted
    BY <2>1 DEF Owed
  <2>5. xmpp # "down" \/ "xmpp" \in failed
    BY <2>1 DEF Owed
  <2> QED BY <2>3, <2>4, <2>5 DEF TypeOK
<1> QED BY <1>1, InvAlways, PTL

\* A restart request that no other one ran beside does not run out of
\* patience, in a process in which no call of the broker has failed before.
THEOREM LoneRestarts ==
  Spec => []LoneRestartCompletes
<1>1. TypeOK /\ Inv => LoneRestartCompletes
  BY DEF Inv, OwnDoing, LoneRestartCompletes
<1> QED BY <1>1, InvAlways, PTL

\* When shutdown() has dealt with the broker, the broker is down and stays so:
\* no request is left that could put it up again, if the web server had come
\* up before it was closed.
THEOREM ShutdownIsFinal ==
  Spec => []BrokerStaysDown
<1>1. TypeOK /\ Inv => BrokerStaysDown
  BY DEF Inv, StaysDown, BrokerStaysDown
<1> QED BY <1>1, InvAlways, PTL
=============================================================================
