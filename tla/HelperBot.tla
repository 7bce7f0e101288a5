------------------------------ MODULE HelperBot ------------------------------
(***************************************************************************)
(* The helper bot as a bridge between REST requests and MQTT                *)
(* (bumper/mqtt/helper_bot.py): send_command_plain() registers a request    *)
(* under its request id, publishes the command and waits; _on_message()     *)
(* hands an answer to whoever is registered under the id in its topic.      *)
(* The connection underneath is HelperLink, whose fields the requests read. *)
(*                                                                         *)
(* A unit of time (Tick) stands for a few seconds; age[r] counts from the   *)
(* moment r entered the TTL cache, deadline[r] is when wait_for gives up.   *)
(***************************************************************************)
EXTENDS HelperLink, Sequences

CONSTANTS
  Requests,        \* REST handlers that send one command each
  NoRequest,
  Ids,             \* the request ids random.sample can draw
  FreshIds,        \* TRUE: no id is drawn twice (the draw is never checked)
  CommandForms,    \* [version, format] of the commands the REST side builds
  AnswerKinds,     \* what the payload of an answer can be to json.loads
  Timeout,         \* timeout: how long wait_for waits
  Ttl,             \* timeout * 1.1: how long the cache keeps an entry
  PublishTimeout,  \* how long the MQTT client takes to publish or to give up
  MaxSize,         \* maxsize of the cache
  MaxAnswers,      \* bound: answers a bot publishes to one command
  MaxInbox         \* bound: messages waiting in the MQTT client

ASSUME RequestsAssumption == NoRequest \notin Requests /\ FreshIds \in BOOLEAN
ASSUME DrawAssumption == Ids # {} /\ CommandForms # {}
\* The requests are the senders of HelperLink.
ASSUME SendersAssumption == SendersActive = TRUE
ASSUME TimesAssumption ==
  /\ Timeout \in Nat /\ PublishTimeout \in Nat /\ Ttl \in Nat
  /\ MaxSize \in Nat /\ MaxAnswers \in Nat /\ MaxInbox \in Nat

VARIABLES
  phase,     \* where send_command_plain stands for each request
  rid,       \* cmd.request_id
  form,      \* cmd.version and cmd.payload_type
  table,     \* self._commands: who is registered under an id
  age,       \* time since the request was registered
  deadline,  \* the age at which the wait of the request times out
  response,  \* CommandDto._response, as <<>> or <<answer>>
  outcome,   \* what the REST caller got, as <<>> or <<result>>
  atBots,    \* the requests whose command a bot has received
  answers,   \* how often a bot has answered the command
  inbox      \* messages the MQTT client of a loop has received

reqVars == <<phase, rid, form, table, age, deadline, response, outcome, atBots, answers, inbox>>
vars == <<linkVars, reqVars>>

Phases == {"idle", "polling", "publishing", "waiting", "done"}
Kinds  == {"object", "emptyObject", "value", "malformed", "blank"}
\* A p2p command is always in JSON.
Forms  == [version : {"1", "2"}, format : {"j", "x"}] \cup [version : {"p2p"}, format : {"j"}]

ASSUME FormsAssumption == CommandForms \subseteq Forms /\ AnswerKinds \subseteq Kinds

-----------------------------------------------------------------------------
(* What an answer is worth                                                  *)

\* CommandDto.wait_for_response(): json.loads raises on what is no JSON, and
\* _wait_for_resp turns that into None; only a JSON object stays an object.
Parsed(format, kind) ==
  IF format = "j"
  THEN CASE kind = "object" -> "dict"
         [] kind = "emptyObject" -> "falsy"
         [] kind = "value" -> "text"
         [] OTHER -> "falsy"
  ELSE IF kind = "blank" THEN "falsy" ELSE "text"

\* _send_command_old, _new and _p2p: an empty result is an error, and so is
\* anything but an object to a p2p command.
Accepts(f, kind) ==
  LET got == Parsed(f.format, kind)
  IN  got # "falsy" /\ (f.version = "p2p" => got = "dict")

Failure == [ok |-> FALSE, of |-> NoRequest]
Reply(r, m) == IF Accepts(form[r], m.kind) THEN [ok |-> TRUE, of |-> m.of] ELSE Failure

\* A p2p answer on the helper bot's topic; `of` remembers the command it
\* answers, which the message itself does not carry.
AnswerTo(r, kind) == [type |-> "p2p", id |-> rid[r], of |-> r, kind |-> kind]
\* onStats / reportStats; clean_log raises on a payload that is no JSON.
Stats(kind) == [type |-> "atr", kind |-> kind]

Answers  == [type : {"p2p"}, id : Ids, of : Requests, kind : AnswerKinds]
StatsKinds == {"object", "malformed"}
Messages == Answers \cup {Stats(k) : k \in StatsKinds}

-----------------------------------------------------------------------------
(* The table of commands: a TTL cache                                       *)

InFlight(r) == phase[r] \in {"publishing", "waiting"}

\* `id in self._commands`: an entry past its time to live is not seen.
Visible(i) == table[i] # NoRequest /\ age[table[i]] < Ttl
Live == {i \in Ids : Visible(i)}

\* Faulty: the cache counts the new key before it is in.
EvictedEarly(i) ==
  IF i \in Live \/ Cardinality(Live) + 1 < MaxSize THEN {{}} ELSE {{j} : j \in Live}

\* The cache drops what has expired, and makes room for a new key when it is
\* full.  Which entry then goes (the least recently used) is left open.
Evicted(i) ==
  IF i \in Live \/ Cardinality(Live) < MaxSize THEN {{}} ELSE {{j} : j \in Live}
Kept(i) ==
  {[j \in Ids |-> IF j \in Live \ out THEN table[j] ELSE NoRequest] : out \in Evicted(i)}

\* finally: self._commands.pop(cmd.request_id, None), whoever is registered.
Pop(i) == [table EXCEPT ![i] = NoRequest]

-----------------------------------------------------------------------------
(* send_command_plain()                                                     *)

\* MQTTCommandModel(...): the id is four random letters.
Arrive(r, i, f) ==
  /\ phase[r] = "idle"
  /\ FreshIds => \A q \in Requests : phase[q] # "idle" => rid[q] # i
  /\ phase' = [phase EXCEPT ![r] = "polling"]
  /\ rid' = [rid EXCEPT ![r] = i]
  /\ form' = [form EXCEPT ![r] = f]
  /\ UNCHANGED <<linkVars, table, age, deadline, response, outcome, atBots, answers, inbox>>

Finish(r, result) ==
  /\ phase' = [phase EXCEPT ![r] = "done"]
  /\ outcome' = [outcome EXCEPT ![r] = <<result>>]

\* Faulty: start() without asking whether a loop is running.
SendRestarts(r) ==
  /\ phase[r] = "polling"
  /\ ~isConnected
  /\ \E t \in Loops : Free(t) /\ NewTask(t)
  /\ table' = [table EXCEPT ![rid[r]] = r]
  /\ phase' = [phase EXCEPT ![r] = "publishing"]
  /\ age' = [age EXCEPT ![r] = 0]
  /\ UNCHANGED <<client, isConnected, session, strays, subs, op, joining, drops,
                 rid, form, deadline, response, outcome, atBots, answers, inbox>>

\* is_connected was polled (for a second at most), start() called if it was
\* False, the command registered and given to the client: a client without a
\* connection may still take it and lose it.  publish() raises at once when
\* _client is None, and the finally clause pops the id again.
Send(r) ==
  /\ phase[r] = "polling"
  /\ IF isConnected THEN UNCHANGED <<task, mqttTask>> ELSE Start
  /\ IF client = NoLoop
     THEN \E k \in Kept(rid[r]) :
            /\ table' = [k EXCEPT ![rid[r]] = NoRequest]
            /\ Finish(r, Failure)
            /\ UNCHANGED <<age, atBots>>
     ELSE \E k \in Kept(rid[r]) :
            /\ table' = [k EXCEPT ![rid[r]] = r]
            /\ phase' = [phase EXCEPT ![r] = "publishing"]
            /\ age' = [age EXCEPT ![r] = 0]
            /\ atBots' \in {atBots} \cup (IF ClientServes THEN {atBots \cup {r}} ELSE {})
            /\ UNCHANGED outcome
  /\ UNCHANGED <<client, isConnected, session, strays, subs, op, joining, drops,
                 rid, form, deadline, response, answers, inbox>>

\* publish() has returned, the command delivered or lost: wait_for starts its
\* own clock.
Published(r) ==
  /\ phase[r] = "publishing"
  /\ phase' = [phase EXCEPT ![r] = "waiting"]
  /\ deadline' = [deadline EXCEPT ![r] = age[r] + Timeout]
  /\ UNCHANGED <<linkVars, rid, form, table, age, response, outcome, atBots, answers, inbox>>

\* publish() raised (no connection, or no confirmation in time).
PublishFails(r) ==
  /\ phase[r] = "publishing"
  /\ age[r] = PublishTimeout \/ ~ClientServes
  /\ Finish(r, Failure)
  /\ table' = Pop(rid[r])
  /\ UNCHANGED <<linkVars, rid, form, age, deadline, response, atBots, answers, inbox>>

\* Faulty: an answer revives a request that has failed.
RespondAgain(r) ==
  /\ phase[r] \in {"waiting", "done"}
  /\ response[r] # <<>>
  /\ Finish(r, Reply(r, response[r][1]))
  /\ table' = Pop(rid[r])
  /\ UNCHANGED <<linkVars, rid, form, age, deadline, response, atBots, answers, inbox>>

\* The event is set: wait_for returns, the table entry is popped.
Respond(r) ==
  /\ phase[r] = "waiting"
  /\ response[r] # <<>>
  /\ Finish(r, Reply(r, response[r][1]))
  /\ table' = Pop(rid[r])
  /\ UNCHANGED <<linkVars, rid, form, age, deadline, response, atBots, answers, inbox>>

\* Faulty: a timeout leaves the entry in the table.
TimesOutUnpopped(r) ==
  /\ phase[r] = "waiting"
  /\ age[r] = deadline[r]
  /\ Finish(r, Failure)
  /\ UNCHANGED <<linkVars, rid, form, table, age, deadline, response, atBots, answers, inbox>>

\* Faulty: the timer is off by one and never due.
TimesOutAfter(r) ==
  /\ phase[r] = "waiting"
  /\ age[r] > deadline[r]
  /\ Finish(r, Failure)
  /\ table' = Pop(rid[r])
  /\ UNCHANGED <<linkVars, rid, form, age, deadline, response, atBots, answers, inbox>>

\* The timer of wait_for fires; it wins over an answer of the same instant.
TimesOut(r) ==
  /\ phase[r] = "waiting"
  /\ age[r] = deadline[r]
  /\ Finish(r, Failure)
  /\ table' = Pop(rid[r])
  /\ UNCHANGED <<linkVars, rid, form, age, deadline, response, atBots, answers, inbox>>

-----------------------------------------------------------------------------
(* The bots, the broker and _on_message()                                   *)

Receive(t, m) ==
  /\ Len(inbox[t]) < MaxInbox
  /\ inbox' = [inbox EXCEPT ![t] = Append(@, m)]

\* A bot answers, again perhaps, and late perhaps.  The broker drops what
\* arrives while the filter is not subscribed: that changes nothing here.
BotAnswers(r, kind) ==
  /\ r \in atBots
  /\ answers[r] < MaxAnswers
  /\ session \in Loops
  /\ "p2p" \in subs
  /\ Receive(session, AnswerTo(r, kind))
  /\ answers' = [answers EXCEPT ![r] = @ + 1]
  /\ UNCHANGED <<linkVars, phase, rid, form, table, age, deadline, response, outcome, atBots>>

BotReports(kind) ==
  /\ session \in Loops
  /\ "atr" \in subs
  /\ Receive(session, Stats(kind))
  /\ UNCHANGED <<linkVars, phase, rid, form, table, age, deadline, response, outcome, atBots, answers>>

\* Faulty: an answer goes to any registered request.
HandleAnswerAnyone(t) ==
  /\ task[t] = "listening"
  /\ inbox[t] # <<>>
  /\ Head(inbox[t]).type = "p2p"
  /\ \E i \in Live : response' = [response EXCEPT ![table[i]] = <<Head(inbox[t])>>]
  /\ inbox' = [inbox EXCEPT ![t] = Tail(@)]
  /\ UNCHANGED <<linkVars, phase, rid, form, table, age, deadline, outcome, atBots, answers>>

\* _on_message(): an answer goes to the request registered under its id, the
\* latest answer counting; any other p2p message is only logged.
HandleAnswer(t) ==
  /\ task[t] = "listening"
  /\ inbox[t] # <<>>
  /\ LET m == Head(inbox[t])
     IN  /\ m.type = "p2p"
         /\ response' = IF Visible(m.id)
                        THEN [response EXCEPT ![table[m.id]] = <<m>>] ELSE response
  /\ inbox' = [inbox EXCEPT ![t] = Tail(@)]
  /\ UNCHANGED <<linkVars, phase, rid, form, table, age, deadline, outcome, atBots, answers>>

\* Faulty: the exception ends the loop and nobody lowers the flag.
HandleStatsDies(t) ==
  /\ task[t] = "listening"
  /\ inbox[t] # <<>>
  /\ Head(inbox[t]).type = "atr"
  /\ task' = [task EXCEPT ![t] = "done"]
  /\ inbox' = [inbox EXCEPT ![t] = <<>>]
  /\ UNCHANGED <<mqttTask, client, isConnected, session, strays, subs, op, joining, drops,
                 phase, rid, form, table, age, deadline, response, outcome, atBots, answers>>

\* _on_message() on statistics: clean_log stores them, or raises and takes the
\* connection down with every message still waiting in the client.
HandleStats(t) ==
  /\ task[t] = "listening"
  /\ inbox[t] # <<>>
  /\ Head(inbox[t]).type = "atr"
  /\ IF Head(inbox[t]).kind = "malformed"
     THEN HandlerFails(t) /\ inbox' = [inbox EXCEPT ![t] = <<>>]
     ELSE UNCHANGED linkVars /\ inbox' = [inbox EXCEPT ![t] = Tail(@)]
  /\ UNCHANGED <<phase, rid, form, table, age, deadline, response, outcome, atBots, answers>>

-----------------------------------------------------------------------------
(* Time, the connection, and the whole                                      *)

\* Timers run when they are due, so time stops at the next one.
Tick ==
  /\ \E r \in Requests : InFlight(r)
  /\ \A r \in Requests :
       /\ phase[r] = "publishing" => age[r] < PublishTimeout
       /\ phase[r] = "waiting" => age[r] < deadline[r] /\ response[r] = <<>>
  /\ age' = [r \in Requests |-> IF InFlight(r) THEN age[r] + 1 ELSE age[r]]
  /\ UNCHANGED <<linkVars, phase, rid, form, table, deadline, response, outcome, atBots, answers, inbox>>

\* A step of the connection; a loop that leaves or enters a connection does
\* so with a new client, whose queue is empty.
Link ==
  /\ \/ \E t \in Loops : LoopStep(t)
     \/ \E o \in Operators : OperatorStep(o)
     \/ Fault
  /\ inbox' = [t \in Loops |-> IF task'[t] \in Entered THEN inbox[t] ELSE <<>>]
  /\ UNCHANGED <<phase, rid, form, table, age, deadline, response, outcome, atBots, answers>>

Init ==
  /\ LinkInit
  /\ phase = [r \in Requests |-> "idle"]
  /\ rid \in [Requests -> {CHOOSE i \in Ids : TRUE}]
  /\ form \in [Requests -> {CHOOSE f \in CommandForms : TRUE}]
  /\ table = [i \in Ids |-> NoRequest]
  /\ age = [r \in Requests |-> 0]
  /\ deadline = [r \in Requests |-> 0]
  /\ response = [r \in Requests |-> <<>>]
  /\ outcome = [r \in Requests |-> <<>>]
  /\ atBots = {}
  /\ answers = [r \in Requests |-> 0]
  /\ inbox = [t \in Loops |-> <<>>]

Caller(r) == Send(r) \/ Published(r) \/ PublishFails(r) \/ Respond(r) \/ TimesOut(r)
Listen(t) == HandleAnswer(t) \/ HandleStats(t)

Next ==
  \/ \E r \in Requests, i \in Ids, f \in CommandForms : Arrive(r, i, f)
  \/ \E r \in Requests : Caller(r)
  \/ \E r \in Requests, k \in AnswerKinds : BotAnswers(r, k)
  \/ \E k \in StatsKinds : BotReports(k)
  \/ \E t \in Loops : Listen(t)
  \/ Link
  \/ Tick

Safety == Init /\ [][Next]_vars

\* The event loop runs every coroutine that can go on, and time passes.
Spec ==
  /\ Safety
  /\ \A r \in Requests : WF_vars(Caller(r))
  /\ \A t \in Loops : WF_vars(Listen(t))
  /\ WF_vars(Tick)
  /\ LinkFairness

-----------------------------------------------------------------------------
(* Properties                                                               *)

\* Type invariant of MQTTHelperBot's commands and the messages around them.
TypeOK ==
  /\ LinkTypeOK
  /\ phase \in [Requests -> Phases]
  /\ rid \in [Requests -> Ids]
  /\ form \in [Requests -> CommandForms]
  /\ table \in [Ids -> Requests \cup {NoRequest}]
  /\ age \in [Requests -> Nat]
  /\ deadline \in [Requests -> Nat]
  /\ response \in [Requests -> {<<>>} \cup {<<m>> : m \in Answers}]
  /\ outcome \in [Requests -> {<<>>} \cup {<<o>> : o \in [ok : BOOLEAN, of : Requests \cup {NoRequest}]}]
  /\ atBots \in SUBSET Requests
  /\ answers \in [Requests -> Nat]
  /\ inbox \in [Loops -> Seq(Messages)]

\* Every entry of _commands belongs to a request that is still in flight and
\* is registered under its id: none is left behind by a timeout, a failed
\* publish or an answer, not even when two requests drew the same id.
NoEntryLeftBehind ==
  \A i \in Ids : table[i] # NoRequest =>
    InFlight(table[i]) /\ rid[table[i]] = i

\* A REST caller is never given the answer to somebody else's command
\* (_on_message looks requests up by id only, never by bot or command).
Correlated ==
  \A r \in Requests : outcome[r] # <<>> => outcome[r][1].of \in {r, NoRequest}

\* Until its time to live is over the entry of a request in flight is there to
\* be found: no other request, answer, timeout or registration takes it away.
\* (The time to live runs from the registration, the wait from the end of
\* publish(): after a slow publish the wait goes on without the entry.)
HeldWhileLive ==
  \A r \in Requests :
    InFlight(r) /\ age[r] < Ttl => table[rid[r]] = r /\ Visible(rid[r])

\* An answer that comes late, twice, or after a timeout changes nothing for a
\* request that is over, and the caller's result is final.
LateAnswersDropped ==
  [][\A r \in Requests : phase[r] = "done" =>
       phase'[r] = "done" /\ response'[r] = response[r] /\ outcome'[r] = outcome[r]]_vars

\* Every REST request comes back, whatever the connection and the bots do:
\* send_command_plain catches everything and waits no longer than timeout.
EveryRequestReturns == \A r \in Requests : phase[r] = "polling" ~> phase[r] = "done"

\* The bridge the REST side sees.
Status(r) ==
  CASE phase[r] = "idle" -> "idle"
    [] phase[r] = "done" -> IF outcome[r][1].ok THEN "ok" ELSE "error"
    [] OTHER -> "open"

Bridge == INSTANCE CommandBridge
  WITH status <- [r \in Requests |-> Status(r)],
       reached <- atBots,
       replied <- {r \in Requests : answers[r] > 0}

\* The helper bot implements the bridge: send_command_plain, _on_message and
\* the connection together answer each command once, with its own answer.
ImplementsBridge == Bridge!BridgeSpec

\* Requests disturb the connection in no way HelperLink does not foresee.
ImplementsLink == LinkSafety
=============================================================================
