-------------------------------- MODULE Node --------------------------------
(***************************************************************************)
(* The life of a Bumper process (bumper/__init__.py) and the requests that  *)
(* restart its servers (bumper/web/web_paths.py): in which order services   *)
(* are started and shut down, and what several tasks do to the one broker,  *)
(* through MQTTServer (bumper/mqtt/server.py), and the one XMPP server.     *)
(*                                                                         *)
(* The broker's own start() and shutdown() are calls that last: the state   *)
(* changes when a call begins, again when it is through, and the caller     *)
(* goes on later.  Nothing notifies _state_cond, so wait_for_state_change() *)
(* looks at the state at once and then again when its time is over.         *)
(***************************************************************************)
EXTENDS Naturals

CONSTANTS
  Requests,  \* slots for restart requests, each reusable once answered
  Main,      \* the task that runs _lifecycle()
  MaxAsks    \* bound: restart requests in a run

ASSUME MainAssumption == Main \notin Requests
ASSUME AsksAssumption == MaxAsks \in Nat

VARIABLES
  main,     \* where _lifecycle() stands
  broker,   \* state of the broker
  call,     \* per task: how far its call of the broker is
  misused,  \* whether a call was made in a state that does not allow it
  xmpp,     \* "starting" (a background task), "up", "down"
  web,      \* "none", "starting" (a background task), "up", "closing", "off"
  pc,       \* where each request stands
  answer,   \* the last answer of each
  asks,     \* requests made
  alone,    \* requests that no other one ran beside
  failed,   \* what has failed: "start" or "stop" of the broker, the last "xmpp" start
  late      \* whether shutdown() passed the web server while it was starting

mainVars    == <<main, web, late>>
brokerVars  == <<broker, call, misused, failed>>
requestVars == <<pc, answer, asks, alone>>
vars == <<mainVars, brokerVars, requestVars, xmpp>>

Tasks == Requests \cup {Main}
Running == {"broker", "helper", "serving"}
Halted  == {"stopped", "not_started", "not_stopped"}
Ending  == {"helper_off", "web_off", "broker_off", "broker_stop", "xmpp_off"}

Init ==
  /\ main = "broker" /\ broker = "starting" /\ xmpp = "starting" /\ web = "none"
  /\ call = [t \in Tasks |-> IF t = Main THEN "starting" ELSE "none"]
  /\ misused = FALSE /\ failed = {} /\ late = FALSE
  /\ pc = [r \in Requests |-> "idle"]
  /\ answer = [r \in Requests |-> "none"]
  /\ asks = 0
  /\ alone = {}

-----------------------------------------------------------------------------
(* The broker                                                               *)

CallStart(t) ==
  /\ broker' = "starting"
  /\ call' = [call EXCEPT ![t] = "starting"]
  /\ misused' = (misused \/ broker # "stopped")
  /\ UNCHANGED failed

CallShutdown(t) ==
  /\ broker' = "stopping"
  /\ call' = [call EXCEPT ![t] = "stopping"]
  /\ misused' = (misused \/ broker # "started")
  /\ UNCHANGED failed

\* A call is through.  A start may fail, a port being taken, and so may a
\* shutdown; amqtt has states of their own for both, which nothing leads out of.
Through(t) ==
  /\ \/ /\ call[t] = "starting"
        /\ broker' = "started" /\ call' = [call EXCEPT ![t] = "done"] /\ UNCHANGED failed
     \/ /\ call[t] = "starting"
        /\ broker' = "not_started" /\ call' = [call EXCEPT ![t] = "raised"]
        /\ failed' = failed \cup {"start"}
     \/ /\ call[t] = "stopping"
        /\ broker' = "stopped" /\ call' = [call EXCEPT ![t] = "done"] /\ UNCHANGED failed
     \/ /\ call[t] = "stopping"
        /\ broker' \in {"started", "stopping", "not_stopped"}
        /\ call' = [call EXCEPT ![t] = "raised"]
        /\ failed' = failed \cup {"stop"}
  /\ UNCHANGED <<misused, mainVars, requestVars, xmpp>>

Returned(t) == /\ call' = [call EXCEPT ![t] = "none"]
               /\ UNCHANGED <<broker, misused, failed>>

-----------------------------------------------------------------------------
(* Restart requests                                                         *)

Goto(r, where) == pc' = [pc EXCEPT ![r] = where] /\ UNCHANGED answer
Reply(r, status) ==
  /\ pc' = [pc EXCEPT ![r] = "idle"]
  /\ answer' = [answer EXCEPT ![r] = status]

Enter(r) ==
  /\ pc[r] = "idle" /\ web = "up" /\ asks < MaxAsks
  /\ asks' = asks + 1
  /\ alone' = IF \A q \in Requests : pc[q] = "idle" THEN {r} ELSE {}

\* wait_for_state_change("stopped"), and start() when it is stopped at once.
AwaitStopped(r) ==
  IF broker = "stopped" THEN CallStart(r) /\ Goto(r, "starting")
  ELSE Goto(r, "wait_stopped") /\ UNCHANGED brokerVars

\* _restart_mqtt_server(), up to the first await of MQTTServer.shutdown().
AskMqtt(r) ==
  /\ Enter(r)
  /\ \/ broker = "started"  /\ CallShutdown(r) /\ Goto(r, "stopping")
     \/ broker = "starting" /\ Goto(r, "settle_start") /\ UNCHANGED brokerVars
     \/ broker = "stopping" /\ Goto(r, "settle_stop") /\ UNCHANGED brokerVars
     \/ broker \in Halted   /\ AwaitStopped(r)
  /\ UNCHANGED <<mainVars, xmpp>>

\* Faulty: the state is not read again after the wait.
SettledBlindly(r) ==
  /\ pc[r] \in {"settle_start", "settle_stop"}
  /\ IF pc[r] = "settle_start" THEN CallShutdown(r) /\ Goto(r, "stopping")
                               ELSE AwaitStopped(r)
  /\ UNCHANGED <<asks, alone, mainVars, xmpp>>

\* The wait inside shutdown() is over.
Settled(r) ==
  /\ pc[r] \in {"settle_start", "settle_stop"}
  /\ IF pc[r] = "settle_start" /\ broker = "started"
     THEN CallShutdown(r) /\ Goto(r, "stopping")
     ELSE AwaitStopped(r)
  /\ UNCHANGED <<asks, alone, mainVars, xmpp>>

\* Faulty: the broker's shutdown() is not awaited.
StoppingReturns(r) ==
  /\ pc[r] = "stopping"
  /\ AwaitStopped(r)
  /\ UNCHANGED <<asks, alone, mainVars, xmpp>>

\* Faulty: stopped is taken for restarted.
StoppedIsEnough(r) ==
  /\ pc[r] = "stopping" /\ call[r] = "done"
  /\ Returned(r) /\ Reply(r, "complete")
  /\ UNCHANGED <<asks, alone, mainVars, xmpp>>

\* The broker's shutdown() has returned to the request, or raised.
Stopped(r) ==
  /\ pc[r] = "stopping"
  /\ \/ call[r] = "raised" /\ Returned(r) /\ Reply(r, "error")
     \/ call[r] = "done" /\ broker = "stopped" /\ CallStart(r) /\ Goto(r, "starting")
     \/ call[r] = "done" /\ broker # "stopped" /\ Returned(r) /\ Goto(r, "wait_stopped")
  /\ UNCHANGED <<asks, alone, mainVars, xmpp>>

WaitStoppedOver(r) ==
  /\ pc[r] = "wait_stopped"
  /\ IF broker = "stopped" THEN CallStart(r) /\ Goto(r, "starting")
                           ELSE Reply(r, "failed") /\ UNCHANGED brokerVars
  /\ UNCHANGED <<asks, alone, mainVars, xmpp>>

\* The broker's start() has returned or raised.
Started(r) ==
  /\ pc[r] = "starting" /\ call[r] \in {"done", "raised"}
  /\ Returned(r)
  /\ \/ call[r] = "raised" /\ Reply(r, "error")
     \/ call[r] = "done" /\ broker = "started" /\ Reply(r, "complete")
     \/ call[r] = "done" /\ broker # "started" /\ Goto(r, "wait_started")
  /\ UNCHANGED <<asks, alone, mainVars, xmpp>>

\* Faulty: the wait has no end.
WaitForStarted(r) ==
  /\ pc[r] = "wait_started" /\ broker = "started"
  /\ Reply(r, "complete")
  /\ UNCHANGED <<asks, alone, mainVars, brokerVars, xmpp>>

WaitStartedOver(r) ==
  /\ pc[r] = "wait_started"
  /\ Reply(r, IF broker = "started" THEN "complete" ELSE "failed")
  /\ UNCHANGED <<asks, alone, mainVars, brokerVars, xmpp>>

\* XMPPServer.disconnect(); wait_closed() is skipped when it is not serving.
AskXmpp(r) ==
  /\ Enter(r) /\ xmpp # "starting"
  /\ xmpp' = "down"
  /\ Goto(r, "xmpp")
  /\ UNCHANGED <<mainVars, brokerVars>>

\* start_async_server() binds the address or raises, as it does when another
\* request was faster.
XmppStarts ==
  /\ xmpp' \in {"up", "down"}
  /\ failed' = IF xmpp' = "up" THEN failed \ {"xmpp"} ELSE failed \cup {"xmpp"}

XmppAgain(r) ==
  /\ pc[r] = "xmpp"
  /\ \/ xmpp = "up" /\ Reply(r, "error") /\ UNCHANGED <<xmpp, failed>>
     \/ xmpp = "down" /\ XmppStarts /\ Reply(r, IF xmpp' = "up" THEN "complete" ELSE "error")
  /\ UNCHANGED <<asks, alone, mainVars, broker, call, misused>>

-----------------------------------------------------------------------------
(* start() and shutdown()                                                   *)

\* start_service(): the broker is up, or start() has logged the failure.
MainStarted ==
  /\ main = "broker" /\ call[Main] \in {"done", "raised"}
  /\ Returned(Main)
  /\ main' = IF call[Main] = "done" THEN "helper" ELSE "helper_off"
  /\ UNCHANGED <<web, late, requestVars, xmpp>>

\* The helper bot is connected; the web server is started in a task of its own.
HelperConnected ==
  /\ main = "helper"
  /\ main' = "serving" /\ web' = "starting"
  /\ UNCHANGED <<late, brokerVars, requestVars, xmpp>>

\* The two background tasks; either may fail, which is logged and no more.
XmppStarted ==
  /\ xmpp = "starting" /\ main # "done"
  /\ XmppStarts
  /\ UNCHANGED <<mainVars, broker, call, misused, requestVars>>

WebStarted ==
  /\ web = "starting"
  /\ web' \in {"up", "none"}
  /\ UNCHANGED <<main, late, brokerVars, requestVars, xmpp>>

\* Control-C cancels the main task; shutdown() is in a finally.
Interrupt ==
  /\ main \in {"helper", "serving"}
  /\ main' = "helper_off"
  /\ UNCHANGED <<web, late, brokerVars, requestVars, xmpp>>

\* The helper bot is disconnected; the web server accepts nothing more.
HelperOff ==
  /\ main = "helper_off"
  /\ main' = "web_off"
  /\ web' = IF web = "up" THEN "closing" ELSE web
  /\ late' = (web = "starting")
  /\ UNCHANGED <<brokerVars, requestVars, xmpp>>

\* WebServer.shutdown(): the runners wait for their requests.
WebOff ==
  /\ main = "web_off"
  /\ web = "closing" => \A r \in Requests : pc[r] = "idle"
  /\ main' = "broker_off"
  /\ web' = IF web = "closing" THEN "off" ELSE web
  /\ UNCHANGED <<late, brokerVars, requestVars, xmpp>>

\* Faulty: the poll waits for a broker that is started.
PollForStarted ==
  /\ main = "broker_off" /\ broker = "started"
  /\ CallShutdown(Main) /\ main' = "broker_stop"
  /\ UNCHANGED <<web, late, requestVars, xmpp>>

\* The poll finds the broker neither starting nor stopping.
BrokerOff ==
  /\ main = "broker_off" /\ broker \notin {"starting", "stopping"}
  /\ IF broker = "started" THEN CallShutdown(Main) /\ main' = "broker_stop"
                           ELSE main' = "xmpp_off" /\ UNCHANGED brokerVars
  /\ UNCHANGED <<web, late, requestVars, xmpp>>

BrokerIsOff ==
  /\ main = "broker_stop" /\ call[Main] = "done"
  /\ Returned(Main)
  /\ main' = "xmpp_off"
  /\ UNCHANGED <<web, late, requestVars, xmpp>>

\* Every other task is cancelled, and the process ends.
Exit ==
  /\ main' = "done"
  /\ xmpp' = "down"
  /\ web' = IF web = "starting" THEN "off" ELSE web
  /\ pc' = [r \in Requests |-> "idle"]
  /\ call' = [t \in Tasks |-> "none"]
  /\ UNCHANGED <<late, broker, misused, failed, answer, asks, alone>>

\* The broker's shutdown() has raised: shutdown() ends there, the rest is left
\* to asyncio.run().
BrokerNotOff == main = "broker_stop" /\ call[Main] = "raised" /\ Exit

\* XMPPServer.disconnect() if it was ever started, and the cancellation of all tasks.
XmppOff == main = "xmpp_off" /\ Exit

-----------------------------------------------------------------------------
\* What the status page shows of the servers.
Status == [mqtt_server |-> broker, xmpp_server |-> IF xmpp = "up" THEN "running" ELSE "stopped"]

Serve(r) ==
  \/ Settled(r) \/ Stopped(r) \/ WaitStoppedOver(r) \/ Started(r) \/ WaitStartedOver(r)
  \/ XmppAgain(r)

Lifecycle ==
  \/ MainStarted \/ HelperConnected \/ HelperOff \/ WebOff \/ BrokerOff \/ BrokerIsOff
  \/ BrokerNotOff \/ XmppOff

Next ==
  \/ \E r \in Requests : main # "done" /\ (AskMqtt(r) \/ AskXmpp(r) \/ Serve(r))
  \/ \E t \in Tasks : Through(t)
  \/ Lifecycle \/ Interrupt \/ XmppStarted \/ WebStarted

\* Timeouts run out, the broker's calls come to an end, tasks are scheduled.
Fairness ==
  /\ \A r \in Requests : WF_vars(Serve(r))
  /\ \A t \in Tasks : WF_vars(Through(t))
  /\ WF_vars(Lifecycle)

Spec == Init /\ [][Next]_vars /\ Fairness

-----------------------------------------------------------------------------
(* Properties                                                               *)

TypeOK ==
  /\ main \in Running \cup Ending \cup {"done"}
  /\ broker \in Halted \cup {"starting", "started", "stopping"}
  /\ call \in [Tasks -> {"none", "starting", "stopping", "done", "raised"}]
  /\ xmpp \in {"starting", "up", "down"}
  /\ web \in {"none", "starting", "up", "closing", "off"}
  /\ pc \in [Requests -> {"idle", "stopping", "settle_start", "settle_stop", "wait_stopped",
                          "starting", "wait_started", "xmpp"}]
  /\ answer \in [Requests -> {"none", "complete", "failed", "error"}]
  /\ asks \in 0 .. MaxAsks /\ alone \subseteq Requests
  /\ misused \in BOOLEAN /\ failed \subseteq {"start", "stop", "xmpp"} /\ late \in BOOLEAN

OnCall(t) == call[t] \in {"starting", "stopping"}

\* However restart requests and the shutdown overlap, the broker is started only
\* when it is stopped and stopped only when it is started, and no task calls it
\* before another's call is through: every task reads the state again after it
\* has waited.
BrokerCalledRightly ==
  ~misused /\ \A t, u \in Tasks : OnCall(t) /\ OnCall(u) => t = u

BrokerFailed == "start" \in failed \/ "stop" \in failed

\* When no restart is under way, the status page shows running servers: a
\* request that took one down has put it up again, or another one has, unless
\* a call of the broker has failed or the XMPP server's last start has.
RestartRestores ==
  main = "serving" /\ (\A r \in Requests : pc[r] = "idle") =>
    /\ BrokerFailed \/ Status.mqtt_server = "started"
    /\ xmpp = "starting" \/ "xmpp" \in failed \/ Status.xmpp_server = "running"

\* A restart that nothing else ran beside does not fail for want of patience,
\* as long as no call of the broker has failed.
LoneRestartCompletes ==
  ~late /\ ~BrokerFailed => \A r \in alone : answer[r] = "failed" => pc[r] # "idle"

\* A lone restart of a broker whose last start failed starts it again.  False:
\* it waits for "stopped", which a broker that is "not_started" never is.
FailedStartIsRetried ==
  ~late /\ "stop" \notin failed => \A r \in alone : answer[r] = "failed" => pc[r] # "idle"

\* After shutdown() the broker is down and stays down: a request that was under
\* way when the process was interrupted does not put it up again.  (The web
\* server's start is not awaited: interrupted in it, the process may still get
\* a request.)
BrokerStaysDown ==
  main \in {"xmpp_off", "done"} /\ ~late => broker \in Halted \/ "stop" \in failed

\* Every restart request is answered.
RestartEnds == \A r \in Requests : pc[r] # "idle" ~> pc[r] = "idle"

\* An interrupted process comes to its end, whatever the broker was doing, if no
\* shutdown of the broker failed and left it "stopping", which is polled.
ShutdownEnds == main \in Ending ~> main = "done" \/ "stop" \in failed
=============================================================================
