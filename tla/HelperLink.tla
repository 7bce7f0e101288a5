----------------------------- MODULE HelperLink -----------------------------
(***************************************************************************)
(* The MQTT connection of the helper bot (bumper/mqtt/helper_bot.py): the   *)
(* task that runs _mqtt_loop, the fields start() and disconnect() share     *)
(* with it, and the one session the broker keeps for the helper bot's       *)
(* client id.                                                               *)
(*                                                                         *)
(* asyncio runs one coroutine at a time, so the code between two awaits is  *)
(* one action.  disconnect() awaits the task it cancelled: whatever else is *)
(* ready may run before it resumes, which is why it is two actions here.    *)
(*                                                                         *)
(* `async with MQTTClient(...)` is aiomqtt's: the broker takes the session  *)
(* before __aenter__ returns, a cancel in between runs no __aexit__ and     *)
(* leaves a connection nobody reads (Stray), and an __aexit__ that finds    *)
(* the connection lost raises MqttError in the place of CancelledError.     *)
(***************************************************************************)
EXTENDS Naturals, FiniteSets

CONSTANTS
  Loops,          \* the tasks that can run _mqtt_loop, each reusable once it is done
  NoLoop,         \* Python's None in _mqtt_task and _client, and "no session"
  Stray,          \* a connection whose loop gave it up before it was entered
  Operators,      \* the coroutines that call disconnect(), once each
  SendersActive,  \* whether REST handlers may call start() on their own
  MaxDrops        \* bound: failures of the network or the broker in a behaviour

ASSUME LoopsAssumption == NoLoop \notin Loops /\ IsFiniteSet(Loops)
ASSUME StrayAssumption == Stray \notin Loops /\ Stray # NoLoop
ASSUME BoundAssumption == MaxDrops \in Nat /\ SendersActive \in BOOLEAN

VARIABLES
  task,         \* where each loop stands
  mqttTask,     \* self._mqtt_task
  client,       \* self._client, named by the loop that made it
  isConnected,  \* self._is_connected
  session,      \* the loop whose connection the broker serves for the client id
  strays,       \* connections given up before the broker accepted them
  subs,         \* the filters subscribed in that session
  op,           \* what each operator is doing
  joining,      \* the task an operator awaits in disconnect()
  drops         \* failures so far

linkVars == <<task, mqttTask, client, isConnected, session, strays, subs, op, joining, drops>>

Connected == {"subscribeP2P", "subscribeAtr", "listening"}
\* Inside the `async with`; "leaving" is a cancelled loop in __aexit__.
Entered   == Connected \cup {"leaving"}
\* "accepted": the broker has the session, __aenter__ has not returned.
\* "cancelled": cancelled outside of the `async with`.
Stages    == Entered \cup {"connecting", "accepted", "backoff", "cancelled", "done"}
Filters   == {"p2p", "atr"}

Alive(t)   == task[t] # "done"
Serving(t) == session = t

\* _client is the connection the broker serves.
ClientServes == client # NoLoop /\ Serving(client) /\ task[client] \in Entered

\* A task nobody refers to any more can stand for the next one created.
Free(t) == ~Alive(t) /\ t # mqttTask /\ \A o \in Operators : joining[o] # t

\* start_service() has started the first loop and waited for is_connected.
LinkInit ==
  \E t \in Loops :
    /\ task = [u \in Loops |-> IF u = t THEN "subscribeP2P" ELSE "done"]
    /\ mqttTask = t
    /\ client = t
    /\ isConnected = TRUE
    /\ session = t
    /\ strays = 0
    /\ subs = {}
    /\ op = [o \in Operators |-> "idle"]
    /\ joining = [o \in Operators |-> NoLoop]
    /\ drops = 0

-----------------------------------------------------------------------------
(* start() and disconnect()                                                 *)

\* create_task(self._mqtt_loop()), the task installed as _mqtt_task.
NewTask(t) ==
  /\ task' = [task EXCEPT ![t] = "connecting"]
  /\ mqttTask' = t

NeedsTask == mqttTask # NoLoop => ~Alive(mqttTask)

\* start(): a new task only when there is none or the last one is done.
Start ==
  IF NeedsTask
  THEN \E t \in Loops : Free(t) /\ NewTask(t)
  ELSE UNCHANGED <<task, mqttTask>>

\* A REST handler that found is_connected False calls start().
SenderStart ==
  /\ SendersActive
  /\ ~isConnected
  /\ Start
  /\ UNCHANGED <<client, isConnected, session, strays, subs, op, joining, drops>>

\* A loop leaves a connection it has not entered: aiomqtt closes nothing, and
\* what the broker has accepted, or accepts yet, is a connection nobody reads.
GiveUpConnection(t) ==
  /\ session' = IF task[t] = "accepted" /\ Serving(t) THEN Stray ELSE session
  /\ strays' \in {strays} \cup (IF task[t] = "connecting" THEN {strays + 1} ELSE {})

\* disconnect() up to `await self._mqtt_task`: a running task is cancelled.
DisconnectBegin(o) ==
  /\ op[o] = "idle"
  /\ ~NeedsTask
  /\ op' = [op EXCEPT ![o] = "joining"]
  /\ joining' = [joining EXCEPT ![o] = mqttTask]
  /\ task' = [task EXCEPT ![mqttTask] = IF @ \in Entered THEN "leaving" ELSE "cancelled"]
  /\ GiveUpConnection(mqttTask)
  /\ UNCHANGED <<mqttTask, client, isConnected, subs, drops>>

\* Faulty: disconnect() does not await the task it cancelled.
JoinedAtOnce(o) == op[o] = "joining" \/ (op[o] = "idle" /\ NeedsTask)

\* Faulty: it is the field that is looked at, not the task that was awaited.
JoinedByField(o) ==
  \/ op[o] = "idle" /\ NeedsTask
  \/ op[o] = "joining" /\ mqttTask # NoLoop /\ ~Alive(mqttTask)

\* disconnect() past its await: the awaited task is over, or there was none
\* to wait for.  It clears the three fields whatever they hold by now.
Joined(o) ==
  \/ op[o] = "idle" /\ NeedsTask
  \/ op[o] = "joining" /\ ~Alive(joining[o])

\* Faulty: _client keeps the old client.
ClearFlagOnly == isConnected' = FALSE /\ UNCHANGED client

ClearFields ==
  /\ client' = NoLoop
  /\ isConnected' = FALSE

Leave(o, how) ==
  /\ op' = [op EXCEPT ![o] = how]
  /\ joining' = [joining EXCEPT ![o] = NoLoop]

\* shutdown(): disconnect() and nothing after it.
DisconnectEnd(o) ==
  /\ Joined(o)
  /\ mqttTask' = NoLoop
  /\ ClearFields
  /\ Leave(o, "stopped")
  /\ UNCHANGED <<task, session, strays, subs, drops>>

\* A task that is free once disconnect() has dropped its references.
FreeAfter(o, t) == ~Alive(t) /\ \A p \in Operators \ {o} : joining[p] # t

\* _restart_helper_bot(): start() follows disconnect() without an await.
RestartEnd(o) ==
  /\ Joined(o)
  /\ ClearFields
  /\ Leave(o, "restarted")
  /\ \E t \in Loops : FreeAfter(o, t) /\ NewTask(t)
  /\ UNCHANGED <<session, strays, subs, drops>>

-----------------------------------------------------------------------------
(* _mqtt_loop()                                                             *)

\* The broker accepts a connection.  It keeps one session per client id, so an
\* older one is taken over.
Accept(t) ==
  /\ task[t] = "connecting"
  /\ task' = [task EXCEPT ![t] = "accepted"]
  /\ session' = t
  /\ subs' = {}
  /\ UNCHANGED <<mqttTask, client, isConnected, strays, op, joining, drops>>

\* It accepts one that has been given up: a newer session is taken over too.
AcceptStray ==
  /\ strays > 0
  /\ strays' = strays - 1
  /\ session' = Stray
  /\ subs' = {}
  /\ UNCHANGED <<task, mqttTask, client, isConnected, op, joining, drops>>

\* __aenter__ returns: both fields are set before anything is subscribed.
Enter(t) ==
  /\ task[t] = "accepted"
  /\ task' = [task EXCEPT ![t] = "subscribeP2P"]
  /\ client' = t
  /\ isConnected' = TRUE
  /\ UNCHANGED <<mqttTask, session, strays, subs, op, joining, drops>>

\* Either except clause: the flag is lowered and the loop sleeps; _client stays.
FallBack(t) ==
  /\ isConnected' = FALSE
  /\ task' = [task EXCEPT ![t] = "backoff"]

\* __aexit__ disconnects.
Close(t) ==
  /\ session' = IF Serving(t) THEN NoLoop ELSE session
  /\ subs' = IF Serving(t) THEN {} ELSE subs
  /\ UNCHANGED strays

\* The connection is refused, or its acknowledgement does not come in time.
ConnectFails(t) ==
  /\ task[t] \in {"connecting", "accepted"}
  /\ drops < MaxDrops
  /\ drops' = drops + 1
  /\ FallBack(t)
  /\ GiveUpConnection(t)
  /\ UNCHANGED <<mqttTask, client, subs, op, joining>>

\* _subscribe_topics(): two awaited subscriptions, on whatever _client is now.
Subscribe(t, from, filter, to) ==
  /\ task[t] = from
  /\ ClientServes
  /\ task' = [task EXCEPT ![t] = to]
  /\ subs' = subs \cup {filter}
  /\ UNCHANGED <<mqttTask, client, isConnected, session, strays, op, joining, drops>>

SubscribeP2P(t) == Subscribe(t, "subscribeP2P", "p2p", "subscribeAtr")
SubscribeAtr(t) == Subscribe(t, "subscribeAtr", "atr", "listening")

\* The network or the broker ends the session; nobody here knows yet.
Drop ==
  /\ drops < MaxDrops
  /\ drops' = drops + 1
  /\ session # NoLoop
  /\ session' = NoLoop
  /\ subs' = {}
  /\ UNCHANGED <<task, mqttTask, client, isConnected, strays, op, joining>>

\* The loop meets MqttError: its connection is gone, or _client has no
\* session to subscribe in.
Notice(t) ==
  /\ \/ task[t] \in Connected \cup {"accepted"} /\ ~Serving(t)
     \/ task[t] \in {"subscribeP2P", "subscribeAtr"} /\ ~ClientServes
  /\ FallBack(t)
  /\ Close(t)
  /\ UNCHANGED <<mqttTask, client, op, joining, drops>>

\* _on_message raised: the exception leaves the `async with` and ends the session.
HandlerFails(t) ==
  /\ task[t] = "listening"
  /\ FallBack(t)
  /\ Close(t)
  /\ UNCHANGED <<mqttTask, client, op, joining, drops>>

\* Faulty: an error ends the loop.
GiveUp(t) ==
  /\ task[t] = "backoff"
  /\ task' = [task EXCEPT ![t] = "done"]
  /\ UNCHANGED <<mqttTask, client, isConnected, session, strays, subs, op, joining, drops>>

\* RECONNECT_INTERVAL has passed.
Retry(t) ==
  /\ task[t] = "backoff"
  /\ task' = [task EXCEPT ![t] = "connecting"]
  /\ UNCHANGED <<mqttTask, client, isConnected, session, strays, subs, op, joining, drops>>

\* Faulty: the connection is not closed on the way out.
CancelledOpen(t) ==
  /\ task[t] \in {"cancelled", "leaving"}
  /\ task' = [task EXCEPT ![t] = "done"]
  /\ UNCHANGED <<mqttTask, client, isConnected, session, strays, subs, op, joining, drops>>

\* CancelledError leaves the loop (no except clause takes it).
Cancelled(t) ==
  /\ task[t] \in {"cancelled", "leaving"}
  /\ task' = [task EXCEPT ![t] = "done"]
  /\ Close(t)
  /\ UNCHANGED <<mqttTask, client, isConnected, op, joining, drops>>

\* __aexit__ finds the connection lost and raises MqttError instead, which the
\* except clause takes for a lost connection: the loop goes on.
CancelSwallowed(t) ==
  /\ task[t] = "leaving" /\ ~Serving(t)
  /\ FallBack(t)
  /\ UNCHANGED <<mqttTask, client, session, strays, subs, op, joining, drops>>

LoopStep(t) == Accept(t) \/ Enter(t) \/ SubscribeP2P(t) \/ SubscribeAtr(t)
                 \/ Notice(t) \/ Retry(t) \/ Cancelled(t) \/ CancelSwallowed(t)

Fault == Drop \/ AcceptStray \/ \E t \in Loops : ConnectFails(t)

OperatorStep(o) == DisconnectBegin(o) \/ DisconnectEnd(o) \/ RestartEnd(o)

\* The operator awaiting a task that is over goes on.
Resumes(o) == op[o] = "joining" /\ (DisconnectEnd(o) \/ RestartEnd(o))

\* What happens without REST handlers.
OwnNext ==
  \/ \E t \in Loops : LoopStep(t)
  \/ \E t \in Loops : HandlerFails(t)
  \/ \E o \in Operators : OperatorStep(o)
  \/ Fault

LinkNext == OwnNext \/ SenderStart

LinkSafety == LinkInit /\ [][LinkNext]_linkVars

\* The event loop runs what is ready, a sleep ends, a dead connection is
\* found out by its keep-alive.  Nothing is assumed of faults, of operators
\* beginning, or of REST handlers.
LinkFairness ==
  /\ \A t \in Loops : WF_linkVars(LoopStep(t))
  /\ \A o \in Operators : WF_linkVars(Resumes(o))

LinkSpec == LinkSafety /\ LinkFairness

-----------------------------------------------------------------------------
(* Properties                                                               *)

\* Type invariant of the helper bot's connection (MQTTHelperBot.__init__).
LinkTypeOK ==
  /\ task \in [Loops -> Stages]
  /\ mqttTask \in Loops \cup {NoLoop}
  /\ client \in Loops \cup {NoLoop}
  /\ isConnected \in BOOLEAN
  /\ session \in Loops \cup {NoLoop, Stray}
  /\ strays \in Nat
  /\ subs \in SUBSET Filters
  /\ op \in [Operators -> {"idle", "joining", "stopped", "restarted"}]
  /\ joining \in [Operators -> Loops \cup {NoLoop}]
  /\ drops \in 0 .. MaxDrops

\* At most one loop runs, and it is the one start() and disconnect() can
\* reach through _mqtt_task: two loops share one client id, and each takes
\* the other's session for ever.
OneLoop == \A t \in Loops : Alive(t) => t = mqttTask

\* Outside disconnect(), is_connected is True exactly while the loop is
\* inside its `async with`: REST handlers trust it before they publish.
FlagMatchesLoop ==
  (\A o \in Operators : op[o] # "joining")
    => (isConnected <=> \E t \in Loops : task[t] \in Connected)

\* Once shutdown()'s disconnect() has returned no loop is left, and none of
\* the fields refers to one.
StopIsFinal ==
  (\E o \in Operators : op[o] = "stopped")
    => /\ \A t \in Loops : ~Alive(t)
       /\ mqttTask = NoLoop /\ client = NoLoop /\ ~isConnected

\* The broker only subscribes what the loop asked for: a loop that reads
\* messages on its own session has both filters there.
ListeningIsSubscribed ==
  \A t \in Loops : task[t] = "listening" /\ Serving(t) => subs = Filters

\* Whoever is subscribed at the broker is a loop that still runs, however
\* restarts, shutdown and REST handlers interleave: no answer of a bot goes to
\* a connection nobody reads, though such a connection may hold the session
\* (aiomqtt leaves it behind when the loop is cancelled in mid-connect).
SubscribedHasLoop == subs # {} => session \in Loops /\ Alive(session)

\* The task an operator waits for has been cancelled and runs on.
Survived(o) == joining[o] # NoLoop /\ task[joining[o]] \notin {"cancelled", "leaving", "done"}

\* disconnect() returns once the task it cancelled is over, also when another
\* coroutine has replaced or dropped _mqtt_task meanwhile: nothing but a task
\* that survives the cancel can keep it.
DisconnectReturns == \A o \in Operators : []<>(op[o] # "joining" \/ Survived(o))

\* disconnect() comes to its assignments (`Explicitly set the client to None to
\* ensure cleanup`).  False: a task whose connection is lost while it is being
\* cancelled goes on, and the await of it never returns.
CleanupReached == \A o \in Operators : op[o] = "joining" ~> op[o] # "joining"

Usable ==
  /\ isConnected
  /\ client # NoLoop /\ Serving(client) /\ task[client] = "listening"

Shut == \E o \in Operators : op[o] = "stopped"

\* When the faults are over the helper bot is connected, subscribed and
\* listening again and again, or was shut down: a lost connection, a session
\* taken over by a connection given up earlier, a message that made _on_message
\* raise and a restart are all survived (_mqtt_loop's retries).
Recovers == []<>(Usable \/ Shut)
=============================================================================
