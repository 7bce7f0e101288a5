---------------------------- MODULE HelperBotProof ----------------------------
(***************************************************************************)
(* Theorems about HelperLink for any number of loops, operators and faults, *)
(* and about HelperBot for any number of requests and ids, any timing       *)
(* constants and any cache size.                                            *)
(***************************************************************************)
EXTENDS HelperBot, FiniteSetTheorems, TLAPS

-----------------------------------------------------------------------------
(* The connection                                                           *)

LEMMA LinkTypesInit == LinkInit => LinkTypeOK
BY BoundAssumption DEF LinkInit, LinkTypeOK, Stages, Entered, Connected

LEMMA GivenUpTypes ==
  ASSUME LinkTypeOK, NEW t \in Loops, GiveUpConnection(t)
  PROVE  session' \in Loops \cup {NoLoop, Stray} /\ strays' \in Nat
<1>1. strays' = strays \/ strays' = strays + 1
  BY DEF GiveUpConnection
<1>2. session' \in {session, Stray}
  BY DEF GiveUpConnection
<1>3. QED
  BY <1>1, <1>2 DEF LinkTypeOK

LEMMA LinkTypesStep ==
  ASSUME LinkTypeOK, [LinkNext]_linkVars
  PROVE  LinkTypeOK'
<1> USE DEF LinkTypeOK, Stages, Entered, Connected, Filters
<1>1. ASSUME NEW t \in Loops, Accept(t) PROVE LinkTypeOK'
  BY <1>1 DEF Accept
<1>2. ASSUME NEW t \in Loops, Enter(t) PROVE LinkTypeOK'
  BY <1>2 DEF Enter
<1>3. ASSUME NEW t \in Loops, SubscribeP2P(t) PROVE LinkTypeOK'
  BY <1>3 DEF SubscribeP2P, Subscribe
<1>4. ASSUME NEW t \in Loops, SubscribeAtr(t) PROVE LinkTypeOK'
  BY <1>4 DEF SubscribeAtr, Subscribe
<1>5. ASSUME NEW t \in Loops, Notice(t) PROVE LinkTypeOK'
  BY <1>5 DEF Notice, FallBack, Close
<1>6. ASSUME NEW t \in Loops, Retry(t) PROVE LinkTypeOK'
  BY <1>6 DEF Retry
<1>7. ASSUME NEW t \in Loops, Cancelled(t) PROVE LinkTypeOK'
  BY <1>7 DEF Cancelled, Close
<1>8. ASSUME NEW t \in Loops, CancelSwallowed(t) PROVE LinkTypeOK'
  BY <1>8 DEF CancelSwallowed, FallBack
<1>9. ASSUME NEW t \in Loops, HandlerFails(t) PROVE LinkTypeOK'
  BY <1>9 DEF HandlerFails, FallBack, Close
<1>10. ASSUME NEW t \in Loops, ConnectFails(t) PROVE LinkTypeOK'
  <2>1. drops' \in 0 .. MaxDrops
    BY <1>10, BoundAssumption DEF ConnectFails
  <2>2. QED
    BY <1>10, <2>1, GivenUpTypes DEF ConnectFails, FallBack
<1>11. CASE Drop
  BY <1>11, BoundAssumption DEF Drop
<1>12. CASE AcceptStray
  BY <1>12 DEF AcceptStray
<1>13. ASSUME NEW o \in Operators, DisconnectBegin(o) PROVE LinkTypeOK'
  BY <1>13, GivenUpTypes, LoopsAssumption DEF DisconnectBegin, NeedsTask
<1>14. ASSUME NEW o \in Operators, DisconnectEnd(o) PROVE LinkTypeOK'
  BY <1>14 DEF DisconnectEnd, ClearFields, Leave
<1>15. ASSUME NEW o \in Operators, RestartEnd(o) PROVE LinkTypeOK'
  BY <1>15 DEF RestartEnd, ClearFields, Leave, NewTask
<1>16. CASE SenderStart
  BY <1>16 DEF SenderStart, Start, NewTask
<1>17. CASE UNCHANGED linkVars
  BY <1>17 DEF linkVars
<1>18. QED
  BY <1>1, <1>2, <1>3, <1>4, <1>5, <1>6, <1>7, <1>8, <1>9, <1>10, <1>11, <1>12,
     <1>13, <1>14, <1>15, <1>16, <1>17
     DEF LinkNext, OwnNext, LoopStep, OperatorStep, Fault

\* Every step keeps the types: the fields of MQTTHelperBot stay what
\* __init__ declares them to be, under start, disconnect and _mqtt_loop.
THEOREM LinkTypes == LinkSafety => []LinkTypeOK
BY LinkTypesInit, LinkTypesStep, PTL DEF LinkSafety

-----------------------------------------------------------------------------
(* The connection has one owner                                             *)

\* disconnect() is not overlapped: there is no operator at all, or a single
\* one and no REST handler that calls start() while it is at work.
Calm == Operators = {} \/ (~SendersActive /\ \E o : Operators = {o})

\* What an operator waits for is still the current task.
JoinsCurrent ==
  \A o \in Operators : op[o] = "joining" => joining[o] = mqttTask

\* A connected loop works on its own client, and its session holds what it
\* has subscribed so far.
SubscribedSoFar ==
  \A t \in Loops :
    /\ task[t] \in Connected => client = t
    /\ task[t] = "subscribeAtr" /\ Serving(t) => "p2p" \in subs
    /\ task[t] = "listening" /\ Serving(t) => subs = Filters

LinkInv == OneLoop /\ JoinsCurrent /\ FlagMatchesLoop /\ StopIsFinal /\ SubscribedSoFar

LEMMA LinkInvInit == LinkInit => LinkInv
BY DEF LinkInit, LinkInv, OneLoop, JoinsCurrent, FlagMatchesLoop, StopIsFinal,
       SubscribedSoFar, Alive, Connected, Entered

\* The only running loop has stopped serving or started to: enough for the
\* flag, since it is the only one.
LEMMA LinkInvStep ==
  ASSUME Calm, LinkTypeOK, LinkInv, [LinkNext]_linkVars
  PROVE  LinkInv'
<1> USE DEF LinkInv, OneLoop, JoinsCurrent, FlagMatchesLoop, StopIsFinal,
            SubscribedSoFar, Serving, Filters, LinkTypeOK, Alive, Connected, Entered, Stages
<1>1. ASSUME NEW t \in Loops, Accept(t) PROVE LinkInv'
  BY <1>1 DEF Accept
<1>2. ASSUME NEW t \in Loops, Enter(t) PROVE LinkInv'
  BY <1>2 DEF Enter
<1>3. ASSUME NEW t \in Loops, SubscribeP2P(t) PROVE LinkInv'
  BY <1>3 DEF SubscribeP2P, Subscribe
<1>4. ASSUME NEW t \in Loops, SubscribeAtr(t) PROVE LinkInv'
  BY <1>4 DEF SubscribeAtr, Subscribe
<1>5. ASSUME NEW t \in Loops, Notice(t) PROVE LinkInv'
  BY <1>5 DEF Notice, FallBack, Close
<1>6. ASSUME NEW t \in Loops, Retry(t) PROVE LinkInv'
  BY <1>6 DEF Retry
<1>7. ASSUME NEW t \in Loops, Cancelled(t) PROVE LinkInv'
  BY <1>7 DEF Cancelled, Close
<1>8. ASSUME NEW t \in Loops, CancelSwallowed(t) PROVE LinkInv'
  BY <1>8 DEF CancelSwallowed, FallBack
<1>9. ASSUME NEW t \in Loops, HandlerFails(t) PROVE LinkInv'
  BY <1>9 DEF HandlerFails, FallBack, Close
<1>10. ASSUME NEW t \in Loops, ConnectFails(t) PROVE LinkInv'
  BY <1>10, StrayAssumption DEF ConnectFails, FallBack, GiveUpConnection
<1>11. CASE Drop
  BY <1>11, LoopsAssumption DEF Drop
<1>12. CASE AcceptStray
  BY <1>12, StrayAssumption DEF AcceptStray
<1>13. ASSUME NEW o \in Operators, DisconnectBegin(o) PROVE LinkInv'
  BY <1>13, LoopsAssumption, StrayAssumption DEF DisconnectBegin, GiveUpConnection, NeedsTask, Calm
<1>14. ASSUME NEW o \in Operators, DisconnectEnd(o) PROVE LinkInv'
  BY <1>14, LoopsAssumption DEF DisconnectEnd, ClearFields, Leave, Joined, NeedsTask, Calm
<1>15. ASSUME NEW o \in Operators, RestartEnd(o) PROVE LinkInv'
  BY <1>15, LoopsAssumption
     DEF RestartEnd, ClearFields, Leave, Joined, NeedsTask, NewTask, Calm
<1>16. CASE SenderStart
  BY <1>16, LoopsAssumption DEF SenderStart, Start, NewTask, NeedsTask, Calm
<1>17. CASE UNCHANGED linkVars
  BY <1>17 DEF linkVars
<1>18. QED
  BY <1>1, <1>2, <1>3, <1>4, <1>5, <1>6, <1>7, <1>8, <1>9, <1>10, <1>11, <1>12,
     <1>13, <1>14, <1>15, <1>16, <1>17
     DEF LinkNext, OwnNext, LoopStep, OperatorStep, Fault

LEMMA LinkInvHolds ==
  ASSUME Calm
  PROVE  LinkSafety => []LinkInv
<1>1. LinkTypeOK /\ LinkInv /\ [LinkNext]_linkVars => LinkInv'
  BY LinkInvStep, Calm
<1>2. QED
  BY <1>1, LinkInvInit, LinkTypes, PTL DEF LinkSafety

\* If nothing overlaps disconnect(), one loop at most runs and _mqtt_task is
\* that loop; is_connected tells REST handlers whether it is connected; and a
\* loop that listens has both filters.
THEOREM LinkOrderly ==
  ASSUME Calm
  PROVE  LinkSafety => [](OneLoop /\ FlagMatchesLoop /\ ListeningIsSubscribed)
<1>1. LinkInv => OneLoop /\ FlagMatchesLoop /\ ListeningIsSubscribed
  BY DEF LinkInv, SubscribedSoFar, ListeningIsSubscribed
<1>2. QED
  BY <1>1, LinkInvHolds, Calm, PTL

\* If nothing overlaps disconnect(), then after the disconnect() of shutdown()
\* no loop is left that could connect again, and no field refers to one.
THEOREM NothingAfterStop ==
  ASSUME Calm
  PROVE  LinkSafety => []StopIsFinal
<1>1. LinkInv => StopIsFinal
  BY DEF LinkInv
<1>2. QED
  BY <1>1, LinkInvHolds, Calm, PTL

-----------------------------------------------------------------------------
(* Whoever is subscribed is read                                            *)

\* The broker's session belongs to a loop that is entering it or inside its
\* `async with`, or is a stray one; filters come only with a session a loop
\* has entered.  This is what makes SubscribedHasLoop inductive: a loop that
\* gives up a connection it has not entered leaves one without filters.
SessionEntered ==
  /\ session \in Loops => task[session] \in Entered \cup {"accepted"}
  /\ subs # {} => session \in Loops /\ task[session] \in Entered

LEMMA SessionEnteredStep ==
  ASSUME LinkTypeOK, SessionEntered, [LinkNext]_linkVars
  PROVE  SessionEntered'
<1> USE LoopsAssumption, StrayAssumption
    DEF SessionEntered, Serving, LinkTypeOK, Alive, Stages, Entered, Connected
<1>1. ASSUME NEW t \in Loops, Accept(t) PROVE SessionEntered'
  BY <1>1 DEF Accept
<1>2. ASSUME NEW t \in Loops, Enter(t) PROVE SessionEntered'
  BY <1>2 DEF Enter
<1>3. ASSUME NEW t \in Loops, SubscribeP2P(t) \/ SubscribeAtr(t) PROVE SessionEntered'
  BY <1>3 DEF SubscribeP2P, SubscribeAtr, Subscribe, ClientServes
<1>4. ASSUME NEW t \in Loops, Notice(t) \/ HandlerFails(t) PROVE SessionEntered'
  BY <1>4 DEF Notice, HandlerFails, FallBack, Close
<1>5. ASSUME NEW t \in Loops, Retry(t) PROVE SessionEntered'
  BY <1>5 DEF Retry
<1>6. ASSUME NEW t \in Loops, Cancelled(t) PROVE SessionEntered'
  BY <1>6 DEF Cancelled, Close
<1>7. ASSUME NEW t \in Loops, CancelSwallowed(t) PROVE SessionEntered'
  BY <1>7 DEF CancelSwallowed, FallBack
<1>8. ASSUME NEW t \in Loops, ConnectFails(t) PROVE SessionEntered'
  BY <1>8 DEF ConnectFails, FallBack, GiveUpConnection
<1>9. CASE Drop
  BY <1>9 DEF Drop
<1>10. CASE AcceptStray
  BY <1>10 DEF AcceptStray
<1>11. ASSUME NEW o \in Operators, DisconnectBegin(o) PROVE SessionEntered'
  BY <1>11 DEF DisconnectBegin, GiveUpConnection, NeedsTask
<1>12. ASSUME NEW o \in Operators, DisconnectEnd(o) PROVE SessionEntered'
  BY <1>12 DEF DisconnectEnd
\* A new task takes the place of one that is over, which has no session.
<1>13. ASSUME UNCHANGED <<session, subs>>, NEW t \in Loops, ~Alive(t), NewTask(t)
       PROVE SessionEntered'
  BY <1>13 DEF NewTask
<1>14. ASSUME NEW o \in Operators, RestartEnd(o) PROVE SessionEntered'
  BY <1>13, <1>14 DEF RestartEnd, FreeAfter
<1>15. CASE SenderStart
  BY <1>13, <1>15 DEF SenderStart, Start, Free
<1>16. CASE UNCHANGED linkVars
  BY <1>16 DEF linkVars
<1>17. QED
  BY <1>1, <1>2, <1>3, <1>4, <1>5, <1>6, <1>7, <1>8, <1>9, <1>10, <1>11, <1>12,
     <1>14, <1>15, <1>16 DEF LinkNext, OwnNext, LoopStep, OperatorStep, Fault

\* However restarts, shutdown and REST handlers overlap, and wherever a cancel
\* meets aiomqtt's __aenter__ and __aexit__, what the broker sends to a
\* subscription of the helper bot goes to a loop that still runs: a connection
\* left behind by a loop may hold the session but never has a filter.
THEOREM SubscribedIsServed == LinkSafety => []SubscribedHasLoop
<1>1. LinkInit => SessionEntered
  BY DEF LinkInit, SessionEntered, Entered, Connected
<1>2. LinkTypeOK /\ SessionEntered /\ [LinkNext]_linkVars => SessionEntered'
  BY SessionEnteredStep
<1>3. SessionEntered => SubscribedHasLoop
  BY DEF SessionEntered, SubscribedHasLoop, Alive, Entered, Connected
<1>4. QED
  BY <1>1, <1>2, <1>3, LinkTypes, PTL DEF LinkSafety

-----------------------------------------------------------------------------
(* Requests use the connection only as HelperLink allows                    *)

LEMMA LinkStepped == [Next]_vars => [LinkNext]_linkVars
<1> SUFFICES ASSUME [Next]_vars PROVE [LinkNext]_linkVars
  OBVIOUS
<1>1. ASSUME NEW r \in Requests, NEW i \in Ids, NEW f \in CommandForms, Arrive(r, i, f)
      PROVE [LinkNext]_linkVars
  BY <1>1 DEF Arrive, linkVars
<1>2. ASSUME NEW r \in Requests, Send(r) PROVE [LinkNext]_linkVars
  <2>1. CASE isConnected
    BY <1>2, <2>1 DEF Send, linkVars
  <2>2. CASE ~isConnected
    BY <1>2, <2>2, SendersAssumption DEF Send, SenderStart, LinkNext, OwnNext
  <2>3. QED
    BY <2>1, <2>2
<1>3. ASSUME NEW r \in Requests, Caller(r), ~Send(r) PROVE [LinkNext]_linkVars
  BY <1>3 DEF Caller, Published, PublishFails, Respond, TimesOut, linkVars
<1>4. ASSUME NEW r \in Requests, NEW k \in AnswerKinds, BotAnswers(r, k)
      PROVE [LinkNext]_linkVars
  BY <1>4 DEF BotAnswers, linkVars
<1>5. ASSUME NEW k \in StatsKinds, BotReports(k) PROVE [LinkNext]_linkVars
  BY <1>5 DEF BotReports, linkVars
<1>6. ASSUME NEW t \in Loops, Listen(t) PROVE [LinkNext]_linkVars
  BY <1>6 DEF Listen, HandleAnswer, HandleStats, LinkNext, OwnNext, linkVars
<1>7. CASE Link
  BY <1>7 DEF Link, LinkNext, OwnNext
<1>8. CASE Tick
  BY <1>8 DEF Tick, linkVars
<1>9. CASE UNCHANGED vars
  BY <1>9 DEF vars, linkVars
<1>10. QED
  BY <1>1, <1>2, <1>3, <1>4, <1>5, <1>6, <1>7, <1>8, <1>9 DEF Next

\* REST requests leave the connection in HelperLink's hands: they add no step
\* to it but the start() of send_command_plain, so what is proved of the
\* connection alone holds under any load.
THEOREM BotImplementsLink == Safety => ImplementsLink
<1>1. Init => LinkInit
  BY DEF Init
<1>2. [Next]_vars => [LinkNext]_linkVars
  BY LinkStepped
<1>3. QED
  BY <1>1, <1>2, PTL DEF Safety, LinkSafety, ImplementsLink

-----------------------------------------------------------------------------
(* Types                                                                    *)

LEMMA StatsAreNoAnswers ==
  \A m \in Messages : m.type = "p2p" => m \in Answers
BY DEF Messages, Stats, Answers

LEMMA AnswersAreMessages ==
  ASSUME NEW r \in Requests, NEW k \in AnswerKinds, rid \in [Requests -> Ids]
  PROVE  AnswerTo(r, k) \in Answers /\ AnswerTo(r, k) \in Messages
BY DEF AnswerTo, Answers, Messages

LEMMA KeptType ==
  ASSUME NEW i \in Ids, NEW k \in Kept(i), table \in [Ids -> Requests \cup {NoRequest}]
  PROVE  /\ k \in [Ids -> Requests \cup {NoRequest}]
         /\ \A j \in Ids : k[j] \in {table[j], NoRequest}
BY DEF Kept

LEMMA InboxTypes ==
  ASSUME inbox \in [Loops -> Seq(Messages)], NEW t \in Loops
  PROVE  /\ \A m \in Messages : [inbox EXCEPT ![t] = Append(@, m)] \in [Loops -> Seq(Messages)]
         /\ [inbox EXCEPT ![t] = <<>>] \in [Loops -> Seq(Messages)]
         /\ inbox[t] # <<>> => /\ Head(inbox[t]) \in Messages
                               /\ [inbox EXCEPT ![t] = Tail(@)] \in [Loops -> Seq(Messages)]
OBVIOUS

ReqTypeOK ==
  /\ phase \in [Requests -> Phases]
  /\ rid \in [Requests -> Ids]
  /\ form \in [Requests -> CommandForms]
  /\ table \in [Ids -> Requests \cup {NoRequest}]
  /\ age \in [Requests -> Nat]
  /\ deadline \in [Requests -> Nat]
  /\ response \in [Requests -> {<<>>} \cup {<<m>> : m \in Answers}]
  /\ outcome \in [Requests -> {<<>>} \cup {<<o>> : o \in [ok : BOOLEAN, of : Requests \cup {NoRequest}]}]
  /\ atBots \in SUBSET Requests
  /\ answers \in [Requests -> Nat]
  /\ inbox \in [Loops -> Seq(Messages)]

LEMMA ReplyType ==
  ASSUME NEW r \in Requests, NEW m \in Answers
  PROVE  Reply(r, m) \in [ok : BOOLEAN, of : Requests \cup {NoRequest}]
BY DEF Reply, Failure, Answers

LEMMA NatUpdate ==
  ASSUME NEW S, NEW f \in [S -> Nat], NEW x \in S, NEW n \in Nat
  PROVE  [f EXCEPT ![x] = n] \in [S -> Nat]
OBVIOUS

LEMMA ReqTypesStep ==
  ASSUME LinkTypeOK, ReqTypeOK, [Next]_vars
  PROVE  ReqTypeOK'
<1> USE DEF ReqTypeOK, Phases
<1>1. ASSUME NEW r \in Requests, NEW i \in Ids, NEW f \in CommandForms, Arrive(r, i, f)
      PROVE ReqTypeOK'
  BY <1>1 DEF Arrive
<1>2. ASSUME NEW r \in Requests, Send(r) PROVE ReqTypeOK'
  <2>1. PICK k \in Kept(rid[r]) :
          \/ client = NoLoop /\ table' = [k EXCEPT ![rid[r]] = NoRequest]
             /\ Finish(r, Failure) /\ UNCHANGED <<age, atBots>>
          \/ table' = [k EXCEPT ![rid[r]] = r]
             /\ phase' = [phase EXCEPT ![r] = "publishing"]
             /\ age' = [age EXCEPT ![r] = 0]
             /\ atBots' \in {atBots, atBots \cup {r}} /\ UNCHANGED outcome
    BY <1>2 DEF Send
  <2>2. k \in [Ids -> Requests \cup {NoRequest}]
    BY KeptType
  <2>3. Failure \in [ok : BOOLEAN, of : Requests \cup {NoRequest}]
    BY DEF Failure
  <2>4. UNCHANGED <<rid, form, deadline, response, answers, inbox>>
    BY <1>2 DEF Send
  <2>5. /\ phase' \in [Requests -> Phases]
        /\ table' \in [Ids -> Requests \cup {NoRequest}]
        /\ atBots' \in SUBSET Requests
    BY <2>1, <2>2 DEF Finish
  <2>6. age' \in [Requests -> Nat]
    <3>1. age' = age \/ age' = [age EXCEPT ![r] = 0]
      BY <2>1
    <3>2. [age EXCEPT ![r] = 0] \in [Requests -> Nat]
      BY NatUpdate
    <3>3. QED
      BY <3>1, <3>2
  <2>7. outcome' \in [Requests -> {<<>>} \cup {<<o>> : o \in [ok : BOOLEAN, of : Requests \cup {NoRequest}]}]
    <3> DEFINE Results == {<<>>} \cup {<<o>> : o \in [ok : BOOLEAN, of : Requests \cup {NoRequest}]}
    <3>1. outcome' = outcome \/ outcome' = [outcome EXCEPT ![r] = <<Failure>>]
      BY <2>1 DEF Finish
    <3>2. <<Failure>> \in Results
      BY DEF Failure
    <3>3. outcome \in [Requests -> Results]
      OBVIOUS
    <3> HIDE DEF Results
    <3>4. outcome' \in [Requests -> Results]
      BY <3>1, <3>2, <3>3
    <3>5. QED
      BY <3>4 DEF Results
  <2>8. QED
    BY <2>4, <2>5, <2>6, <2>7
<1>3. ASSUME NEW r \in Requests, Published(r) PROVE ReqTypeOK'
  <2>1. age[r] + Timeout \in Nat
    BY TimesAssumption
  <2>2. deadline' \in [Requests -> Nat]
    BY <1>3, <2>1, NatUpdate DEF Published
  <2>3. phase' \in [Requests -> Phases]
    BY <1>3 DEF Published
  <2>4. QED
    BY <1>3, <2>2, <2>3 DEF Published
<1>4. ASSUME NEW r \in Requests, PublishFails(r) \/ TimesOut(r) PROVE ReqTypeOK'
  <2>1. Finish(r, Failure) /\ table' = Pop(rid[r])
        /\ UNCHANGED <<rid, form, age, deadline, response, atBots, answers, inbox>>
    BY <1>4 DEF PublishFails, TimesOut
  <2>2. Failure \in [ok : BOOLEAN, of : Requests \cup {NoRequest}]
    BY DEF Failure
  <2>3. QED
    BY <2>1, <2>2 DEF Finish, Pop
<1>5. ASSUME NEW r \in Requests, Respond(r) PROVE ReqTypeOK'
  <2>1. response[r][1] \in Answers
    BY <1>5 DEF Respond
  <2>2. Reply(r, response[r][1]) \in [ok : BOOLEAN, of : Requests \cup {NoRequest}]
    BY <2>1, ReplyType
  <2>3. QED
    BY <1>5, <2>2 DEF Respond, Finish, Pop
<1>6. ASSUME NEW r \in Requests, NEW k \in AnswerKinds, BotAnswers(r, k) PROVE ReqTypeOK'
  <2>1. session \in Loops
    BY <1>6 DEF BotAnswers, LinkTypeOK
  <2>2. QED
    BY <1>6, <2>1, AnswersAreMessages, InboxTypes DEF BotAnswers, Receive
<1>7. ASSUME NEW k \in StatsKinds, BotReports(k) PROVE ReqTypeOK'
  <2>1. session \in Loops
    BY <1>7 DEF BotReports, LinkTypeOK
  <2>2. Stats(k) \in Messages
    BY DEF Messages
  <2>3. QED
    BY <1>7, <2>1, <2>2, InboxTypes DEF BotReports, Receive
<1>8. ASSUME NEW t \in Loops, HandleAnswer(t) PROVE ReqTypeOK'
  <2> DEFINE m == Head(inbox[t])
  <2>1. m \in Answers
    BY <1>8, InboxTypes, StatsAreNoAnswers DEF HandleAnswer
  <2>2. inbox' \in [Loops -> Seq(Messages)]
    BY <1>8, InboxTypes DEF HandleAnswer
  <2>3. Visible(m.id) => table[m.id] \in Requests
    BY <2>1 DEF Visible, Answers
  <2>4. response' \in [Requests -> {<<>>} \cup {<<a>> : a \in Answers}]
    BY <1>8, <2>1, <2>3 DEF HandleAnswer
  <2>5. QED
    BY <1>8, <2>2, <2>4 DEF HandleAnswer
<1>9. ASSUME NEW t \in Loops, HandleStats(t) PROVE ReqTypeOK'
  BY <1>9, InboxTypes DEF HandleStats
<1>10. CASE Link
  BY <1>10 DEF Link
<1>11. CASE Tick
  BY <1>11 DEF Tick
<1>12. CASE UNCHANGED vars
  BY <1>12 DEF vars, reqVars
<1>13. QED
  BY <1>1, <1>2, <1>3, <1>4, <1>5, <1>6, <1>7, <1>8, <1>9, <1>10, <1>11, <1>12
     DEF Next, Caller, Listen

LEMMA ReqTypesInit == Init => ReqTypeOK
BY DrawAssumption DEF Init, ReqTypeOK, Phases

\* Types of the whole: whatever the cache evicts and whichever message
\* arrives, _commands maps ids to requests and results are results.
THEOREM BotTypes == Safety => []TypeOK
<1>1. Init => LinkTypeOK /\ ReqTypeOK
  BY LinkTypesInit, ReqTypesInit DEF Init
<1>2. LinkTypeOK /\ ReqTypeOK /\ [Next]_vars => (LinkTypeOK /\ ReqTypeOK)'
  BY LinkTypesStep, LinkStepped, ReqTypesStep
<1>3. LinkTypeOK /\ ReqTypeOK => TypeOK
  BY DEF TypeOK, ReqTypeOK
<1>4. QED
  BY <1>1, <1>2, <1>3, PTL DEF Safety

-----------------------------------------------------------------------------
(* Correlation                                                              *)

Replied == {r \in Requests : answers[r] > 0}
Started(r) == phase[r] \notin {"idle", "polling"}

\* A queued answer carries the id of the command it answers.
Genuine(m) ==
  m.type = "p2p" => phase[m.of] # "idle" /\ m.id = rid[m.of] /\ m.of \in Replied

Queued(m, t) == \E n \in 1 .. Len(inbox[t]) : inbox[t][n] = m
GenuineInbox == \A t \in Loops, m \in Messages : Queued(m, t) => Genuine(m)

\* What a request was given bears its own id.
GenuineResponse ==
  \A r \in Requests : response[r] # <<>> =>
    Started(r) /\ Genuine(response[r][1]) /\ response[r][1].id = rid[r]

IdsDistinct ==
  FreshIds => \A q, r \in Requests :
    q # r /\ phase[q] # "idle" /\ phase[r] # "idle" => rid[q] # rid[r]

BotsHearCommands == \A r \in atBots : Started(r)

\* With distinct ids a result is an error or the request's own answer.
OwnResult(r) ==
  /\ phase[r] = "done" <=> outcome[r] # <<>>
  /\ outcome[r] # <<>> =>
       \/ outcome[r][1] = Failure
       \/ FreshIds => outcome[r][1] = [ok |-> TRUE, of |-> r] /\ r \in Replied
OwnOutcome == \A r \in Requests : OwnResult(r)

BotInv == NoEntryLeftBehind /\ GenuineInbox /\ GenuineResponse /\ IdsDistinct
            /\ BotsHearCommands /\ OwnOutcome

\* Requests only go forward, keep their id once drawn, and answers add up.
LEMMA Forward ==
  ASSUME ReqTypeOK, [Next]_vars, NEW r \in Requests
  PROVE  /\ phase[r] # "idle" => phase'[r] # "idle" /\ rid'[r] = rid[r]
         /\ Started(r) => Started(r)'
         /\ r \in Replied => r \in Replied'
<1> USE DEF ReqTypeOK, Started, Replied, Phases
<1>1. ASSUME NEW q \in Requests, NEW i \in Ids, NEW f \in CommandForms, Arrive(q, i, f)
      PROVE /\ phase[r] # "idle" => phase'[r] # "idle" /\ rid'[r] = rid[r]
            /\ Started(r) => Started(r)'
            /\ r \in Replied => r \in Replied'
  BY <1>1 DEF Arrive
<1>2. ASSUME NEW q \in Requests, Caller(q)
      PROVE /\ phase[r] # "idle" => phase'[r] # "idle" /\ rid'[r] = rid[r]
            /\ Started(r) => Started(r)'
            /\ r \in Replied => r \in Replied'
  <2>1. phase' \in {[phase EXCEPT ![q] = p] : p \in {"publishing", "waiting", "done"}}
    BY <1>2 DEF Caller, Send, Published, PublishFails, Respond, TimesOut, Finish
  <2>2. UNCHANGED <<rid, answers>>
    BY <1>2 DEF Caller, Send, Published, PublishFails, Respond, TimesOut
  <2>3. QED
    BY <2>1, <2>2
<1>3. ASSUME NEW q \in Requests, NEW k \in AnswerKinds, BotAnswers(q, k)
      PROVE /\ UNCHANGED <<phase, rid>>
            /\ r \in Replied => r \in Replied'
  BY <1>3 DEF BotAnswers
<1>4. ASSUME \/ \E k \in StatsKinds : BotReports(k)
             \/ \E t \in Loops : Listen(t)
             \/ Link
             \/ Tick
             \/ UNCHANGED vars
      PROVE UNCHANGED <<phase, rid, answers>>
  BY <1>4 DEF BotReports, Listen, HandleAnswer, HandleStats, Link, Tick, vars, reqVars
<1>5. QED
  BY <1>1, <1>2, <1>3, <1>4 DEF Next

LEMMA GenuineStays ==
  ASSUME ReqTypeOK, [Next]_vars, NEW m \in Messages, Genuine(m)
  PROVE  Genuine(m)'
<1>1. m.type = "p2p" => m.of \in Requests
  BY StatsAreNoAnswers DEF Answers
<1>2. QED
  BY <1>1, Forward DEF Genuine

LEMMA OfAppend ==
  ASSUME NEW q \in Seq(Messages), NEW m \in Messages, NEW n \in 1 .. Len(Append(q, m))
  PROVE  Append(q, m)[n] = m \/ \E j \in 1 .. Len(q) : Append(q, m)[n] = q[j]
OBVIOUS

LEMMA OfTail ==
  ASSUME NEW q \in Seq(Messages), q # <<>>, NEW n \in 1 .. Len(Tail(q))
  PROVE  \E j \in 1 .. Len(q) : Tail(q)[n] = q[j]
<1>1. Tail(q)[n] = q[n + 1] /\ n + 1 \in 1 .. Len(q)
  OBVIOUS
<1>2. QED
  BY <1>1

\* One step leaves a queue, empties it, drops its head or appends to it.
LEMMA InboxChanges ==
  ASSUME ReqTypeOK, [Next]_vars, NEW t \in Loops
  PROVE  \/ inbox'[t] = inbox[t]
         \/ inbox'[t] = <<>>
         \/ inbox[t] # <<>> /\ inbox'[t] = Tail(inbox[t])
         \/ \E r \in Requests, k \in AnswerKinds :
              BotAnswers(r, k) /\ inbox'[t] = Append(inbox[t], AnswerTo(r, k))
         \/ \E k \in StatsKinds : inbox'[t] = Append(inbox[t], Stats(k))
<1>1. CASE \E r \in Requests, i \in Ids, f \in CommandForms : Arrive(r, i, f)
  BY <1>1 DEF Arrive
<1>2. CASE \E r \in Requests : Caller(r)
  BY <1>2 DEF Caller, Send, Published, PublishFails, Respond, TimesOut
<1>3. ASSUME NEW r \in Requests, NEW k \in AnswerKinds, BotAnswers(r, k)
      PROVE inbox'[t] = inbox[t] \/ inbox'[t] = Append(inbox[t], AnswerTo(r, k))
  BY <1>3 DEF BotAnswers, Receive, ReqTypeOK
<1>4. ASSUME NEW k \in StatsKinds, BotReports(k)
      PROVE inbox'[t] = inbox[t] \/ inbox'[t] = Append(inbox[t], Stats(k))
  BY <1>4 DEF BotReports, Receive, ReqTypeOK
<1>5. ASSUME NEW u \in Loops, HandleAnswer(u)
      PROVE inbox'[t] = inbox[t] \/ (inbox[t] # <<>> /\ inbox'[t] = Tail(inbox[t]))
  BY <1>5 DEF HandleAnswer, ReqTypeOK
<1>6. ASSUME NEW u \in Loops, HandleStats(u)
      PROVE \/ inbox'[t] = inbox[t] \/ inbox'[t] = <<>>
            \/ inbox[t] # <<>> /\ inbox'[t] = Tail(inbox[t])
  BY <1>6 DEF HandleStats, ReqTypeOK
<1>7. CASE Link
  BY <1>7 DEF Link
<1>8. CASE Tick \/ UNCHANGED vars
  BY <1>8 DEF Tick, vars, reqVars
<1>9. QED
  BY <1>1, <1>2, <1>3, <1>4, <1>5, <1>6, <1>7, <1>8 DEF Next, Listen

\* A bot's answer is genuine when it is sent, and stays so.
LEMMA InboxStep ==
  ASSUME LinkTypeOK, ReqTypeOK, BotInv, [Next]_vars
  PROVE  GenuineInbox'
<1> SUFFICES ASSUME NEW t \in Loops, NEW m \in Messages, Queued(m, t)' PROVE Genuine(m)'
  BY DEF GenuineInbox
<1>1. inbox[t] \in Seq(Messages)
  BY DEF ReqTypeOK
<1>2. CASE Queued(m, t)
  <2>1. Genuine(m)
    BY <1>2 DEF BotInv, GenuineInbox
  <2>2. QED
    BY <2>1, GenuineStays
<1>3. ASSUME NEW r \in Requests, NEW k \in AnswerKinds, BotAnswers(r, k), m = AnswerTo(r, k)
      PROVE Genuine(m)'
  <2>1. Started(r)
    BY <1>3 DEF BotAnswers, BotInv, BotsHearCommands
  <2>2. answers'[r] > 0
    BY <1>3 DEF BotAnswers, ReqTypeOK
  <2>3. m.of = r /\ m.id = rid[r]
    BY <1>3 DEF AnswerTo
  <2>4. rid'[r] = rid[r] /\ phase'[r] # "idle"
    BY <2>1, Forward DEF Started
  <2>5. QED
    BY <2>2, <2>3, <2>4 DEF Genuine, Replied
<1>4. ASSUME NEW k \in StatsKinds, m = Stats(k) PROVE Genuine(m)'
  BY <1>4 DEF Genuine, Stats
<1>5. PICK n \in 1 .. Len(inbox'[t]) : inbox'[t][n] = m
  BY DEF Queued
<1>6. CASE inbox'[t] = inbox[t] \/ inbox'[t] = <<>>
  BY <1>2, <1>5, <1>6 DEF Queued
<1>7. CASE inbox[t] # <<>> /\ inbox'[t] = Tail(inbox[t])
  BY <1>1, <1>2, <1>5, <1>7, OfTail DEF Queued
<1>8. ASSUME NEW r \in Requests, NEW k \in AnswerKinds, BotAnswers(r, k),
             inbox'[t] = Append(inbox[t], AnswerTo(r, k))
      PROVE Genuine(m)'
  <2>1. AnswerTo(r, k) \in Messages
    BY AnswersAreMessages DEF ReqTypeOK
  <2>2. m = AnswerTo(r, k) \/ Queued(m, t)
    BY <1>1, <1>5, <1>8, <2>1, OfAppend DEF Queued
  <2>3. QED
    BY <1>2, <1>3, <1>8, <2>2
<1>9. ASSUME NEW k \in StatsKinds, inbox'[t] = Append(inbox[t], Stats(k)) PROVE Genuine(m)'
  <2>1. Stats(k) \in Messages
    BY DEF Messages
  <2>2. m = Stats(k) \/ Queued(m, t)
    BY <1>1, <1>5, <1>9, <2>1, OfAppend DEF Queued
  <2>3. QED
    BY <1>2, <1>4, <2>2
<1>10. QED
  BY <1>6, <1>7, <1>8, <1>9, InboxChanges

\* A response changes only by _on_message, for the request in the table.
LEMMA ResponseStep ==
  ASSUME LinkTypeOK, ReqTypeOK, BotInv, [Next]_vars
  PROVE  GenuineResponse'
<1> SUFFICES ASSUME NEW r \in Requests, response'[r] # <<>>
             PROVE (Started(r) /\ Genuine(response[r][1]) /\ response[r][1].id = rid[r])'
  BY DEF GenuineResponse
<1>0. ASSUME NEW m \in Messages, response'[r] = <<m>>, Genuine(m), Started(r), m.id = rid[r]
      PROVE (Started(r) /\ Genuine(response[r][1]) /\ response[r][1].id = rid[r])'
  <2>1. Genuine(m)'
    BY <1>0, GenuineStays
  <2>2. Started(r)' /\ rid'[r] = rid[r]
    BY <1>0, Forward DEF Started
  <2>3. response'[r][1] = m
    BY <1>0
  <2>4. QED
    BY <1>0, <2>1, <2>2, <2>3 DEF Genuine
<1>1. CASE response'[r] = response[r]
  <2>1. PICK m \in Answers : response[r] = <<m>>
    BY <1>1 DEF ReqTypeOK
  <2>2. Started(r) /\ Genuine(m) /\ m.id = rid[r]
    BY <1>1, <2>1 DEF BotInv, GenuineResponse
  <2>3. m \in Messages
    BY DEF Messages
  <2>4. QED
    BY <1>0, <1>1, <2>1, <2>2, <2>3
<1>2. ASSUME NEW t \in Loops, HandleAnswer(t), response'[r] # response[r]
      PROVE (Started(r) /\ Genuine(response[r][1]) /\ response[r][1].id = rid[r])'
  <2> DEFINE m == Head(inbox[t])
  <2>1. m \in Messages /\ m \in Answers
    BY <1>2, InboxTypes, StatsAreNoAnswers DEF HandleAnswer, ReqTypeOK
  <2>2. Queued(m, t)
    <3>1. inbox[t] \in Seq(Messages) /\ inbox[t] # <<>>
      BY <1>2 DEF HandleAnswer, ReqTypeOK
    <3>2. 1 \in 1 .. Len(inbox[t]) /\ inbox[t][1] = m
      BY <3>1
    <3>3. QED
      BY <3>2 DEF Queued
  <2>3. Genuine(m)
    BY <2>1, <2>2 DEF BotInv, GenuineInbox
  <2>4. Visible(m.id) /\ table[m.id] = r /\ response'[r] = <<m>>
    BY <1>2, <2>1 DEF HandleAnswer, ReqTypeOK, Visible
  <2>5. m.id \in Ids
    BY <2>1 DEF Answers
  <2>6. InFlight(r) /\ rid[r] = m.id
    BY <2>4, <2>5 DEF BotInv, NoEntryLeftBehind, Visible
  <2>7. Started(r)
    BY <2>6 DEF InFlight, Started
  <2>8. QED
    BY <1>0, <2>1, <2>3, <2>4, <2>6, <2>7
<1>3. (\E t \in Loops : HandleAnswer(t)) \/ response'[r] = response[r]
  BY DEF Next, Arrive, Caller, Send, Published, PublishFails, Respond, TimesOut,
         BotAnswers, BotReports, Listen, HandleStats, Link, Tick, vars, reqVars
<1>4. QED
  BY <1>1, <1>2, <1>3

\* A request enters the table under its id and leaves it with its last step.
LEMMA TableStep ==
  ASSUME ReqTypeOK, BotInv, [Next]_vars
  PROVE  NoEntryLeftBehind'
<1> USE DEF ReqTypeOK, NoEntryLeftBehind, InFlight, Phases
<1>0. NoEntryLeftBehind
  BY DEF BotInv
<1>1. ASSUME NEW r \in Requests, NEW i \in Ids, NEW f \in CommandForms, Arrive(r, i, f)
      PROVE NoEntryLeftBehind'
  BY <1>0, <1>1 DEF Arrive
<1>2. ASSUME NEW r \in Requests, Send(r) PROVE NoEntryLeftBehind'
  <2>1. PICK k \in Kept(rid[r]) :
          \/ table' = [k EXCEPT ![rid[r]] = NoRequest] /\ Finish(r, Failure)
          \/ table' = [k EXCEPT ![rid[r]] = r] /\ phase' = [phase EXCEPT ![r] = "publishing"]
    BY <1>2 DEF Send
  <2>2. /\ k \in [Ids -> Requests \cup {NoRequest}]
        /\ \A j \in Ids : k[j] \in {table[j], NoRequest}
    BY KeptType
  <2>3. rid' = rid /\ phase[r] = "polling"
    BY <1>2 DEF Send
  <2>4. ASSUME NEW j \in Ids, table'[j] # NoRequest
        PROVE InFlight(table[j])' /\ rid'[table'[j]] = j
    <3>1. CASE j = rid[r] /\ table'[j] = r /\ phase' = [phase EXCEPT ![r] = "publishing"]
      BY <2>3, <3>1
    <3>2. CASE table'[j] = k[j]
      <4>1. table'[j] = table[j] /\ table[j] # r
        BY <1>0, <2>2, <2>3, <2>4, <3>2
      <4>2. table[j] \in Requests
        BY <2>4, <4>1
      <4>3. phase'[table[j]] = phase[table[j]]
        BY <2>1, <4>1, <4>2 DEF Finish
      <4>4. QED
        BY <1>0, <2>3, <2>4, <4>1, <4>2, <4>3
    <3>3. QED
      BY <2>1, <2>2, <2>4, <3>1, <3>2
  <2>5. QED
    BY <2>4
<1>3. ASSUME NEW r \in Requests, Published(r) PROVE NoEntryLeftBehind'
  BY <1>0, <1>3 DEF Published
<1>4. ASSUME NEW r \in Requests, PublishFails(r) \/ Respond(r) \/ TimesOut(r)
      PROVE NoEntryLeftBehind'
  <2>1. table' = Pop(rid[r]) /\ phase' = [phase EXCEPT ![r] = "done"] /\ rid' = rid
    BY <1>4 DEF PublishFails, Respond, TimesOut, Finish
  <2>2. QED
    BY <1>0, <2>1 DEF Pop
<1>5. ASSUME \/ \E r \in Requests, k \in AnswerKinds : BotAnswers(r, k)
             \/ \E k \in StatsKinds : BotReports(k)
             \/ \E t \in Loops : Listen(t)
             \/ Link \/ Tick \/ UNCHANGED vars
      PROVE UNCHANGED <<table, phase, rid>>
  BY <1>5 DEF BotAnswers, BotReports, Listen, HandleAnswer, HandleStats, Link, Tick, vars, reqVars
<1>6. QED
  BY <1>0, <1>1, <1>2, <1>3, <1>4, <1>5 DEF Next, Caller

\* Only Arrive draws an id, and FreshIds makes it a new one.
LEMMA IdsStep ==
  ASSUME ReqTypeOK, BotInv, [Next]_vars
  PROVE  IdsDistinct'
<1>0. IdsDistinct
  BY DEF BotInv
<1>1. ASSUME NEW r \in Requests, NEW i \in Ids, NEW f \in CommandForms, Arrive(r, i, f)
      PROVE IdsDistinct'
  BY <1>0, <1>1 DEF Arrive, IdsDistinct, ReqTypeOK
<1>2. ASSUME NEW r \in Requests, Caller(r) PROVE IdsDistinct'
  <2>1. phase[r] # "idle" /\ rid' = rid
    BY <1>2 DEF Caller, Send, Published, PublishFails, Respond, TimesOut
  <2>2. phase' \in {[phase EXCEPT ![r] = p] : p \in {"publishing", "waiting", "done"}}
    BY <1>2 DEF Caller, Send, Published, PublishFails, Respond, TimesOut, Finish
  <2>3. QED
    BY <1>0, <2>1, <2>2 DEF IdsDistinct, ReqTypeOK
<1>3. ASSUME \/ \E r \in Requests, k \in AnswerKinds : BotAnswers(r, k)
             \/ \E k \in StatsKinds : BotReports(k)
             \/ \E t \in Loops : Listen(t)
             \/ Link \/ Tick \/ UNCHANGED vars
      PROVE UNCHANGED <<phase, rid>>
  BY <1>3 DEF BotAnswers, BotReports, Listen, HandleAnswer, HandleStats, Link, Tick, vars, reqVars
<1>4. QED
  BY <1>0, <1>1, <1>2, <1>3 DEF Next, IdsDistinct

LEMMA BotsStep ==
  ASSUME ReqTypeOK, BotInv, [Next]_vars
  PROVE  BotsHearCommands'
<1>0. BotsHearCommands /\ atBots \subseteq Requests
  BY DEF BotInv, ReqTypeOK
<1>1. ASSUME NEW r \in Requests, Send(r) PROVE BotsHearCommands'
  <2>1. atBots' \subseteq atBots \cup {r}
    BY <1>1 DEF Send
  <2>2. Started(r)'
    BY <1>1 DEF Send, Started, Finish, ReqTypeOK
  <2>3. QED
    BY <1>0, <2>1, <2>2, Forward DEF BotsHearCommands
<1>2. ASSUME atBots' = atBots PROVE BotsHearCommands'
  BY <1>0, <1>2, Forward DEF BotsHearCommands
<1>3. atBots' = atBots \/ \E r \in Requests : Send(r)
  BY DEF Next, Arrive, Caller, Published, PublishFails, Respond, TimesOut, BotAnswers,
         BotReports, Listen, HandleAnswer, HandleStats, Link, Tick, vars, reqVars
<1>4. QED
  BY <1>1, <1>2, <1>3

\* With distinct ids the response a request holds is to its own command.
LEMMA OwnResponse ==
  ASSUME ReqTypeOK, BotInv, FreshIds, NEW r \in Requests, response[r] # <<>>
  PROVE  response[r][1].of = r /\ r \in Replied
<1>1. PICK m \in Answers : response[r] = <<m>>
  BY DEF ReqTypeOK
<1>2. m.of \in Requests /\ m.type = "p2p" /\ m \in Messages
  BY DEF Answers, Messages
<1>3. Started(r) /\ Genuine(m) /\ m.id = rid[r]
  BY <1>1 DEF BotInv, GenuineResponse
<1>4. m.of = r
  BY <1>2, <1>3 DEF BotInv, IdsDistinct, Genuine, Started
<1>5. QED
  BY <1>1, <1>2, <1>3, <1>4 DEF Genuine

LEMMA OutcomeStep ==
  ASSUME ReqTypeOK, BotInv, [Next]_vars
  PROVE  OwnOutcome'
<1> USE DEF ReqTypeOK, Phases
<1>0. OwnOutcome
  BY DEF BotInv
<1>1. ASSUME NEW r \in Requests, NEW result,
             phase[r] # "done", Finish(r, result),
             result = Failure \/ (FreshIds => result = [ok |-> TRUE, of |-> r] /\ r \in Replied)
      PROVE OwnOutcome'
  <2>1. \A q \in Requests : q \in Replied => q \in Replied'
    BY Forward
  <2>2. \A q \in Requests \ {r} : phase'[q] = phase[q] /\ outcome'[q] = outcome[q]
    BY <1>1 DEF Finish
  <2>3. phase'[r] = "done" /\ outcome'[r] = <<result>>
    BY <1>1 DEF Finish
  <2>4. outcome'[r][1] = result /\ outcome'[r] # <<>>
    BY <2>3
  <2>5. OwnResult(r)'
    BY <1>1, <2>1, <2>3, <2>4 DEF OwnResult
  <2>6. ASSUME NEW q \in Requests \ {r} PROVE OwnResult(q)'
    BY <1>0, <2>1, <2>2 DEF OwnOutcome, OwnResult
  <2>7. QED
    BY <2>5, <2>6 DEF OwnOutcome
<1>2. ASSUME NEW r \in Requests, Send(r) PROVE OwnOutcome'
  <2>1. CASE client = NoLoop
    <3>1. phase[r] # "done" /\ Finish(r, Failure)
      BY <1>2, <2>1 DEF Send
    <3>2. QED
      BY <1>1, <3>1
  <2>2. CASE client # NoLoop
    <3>1. /\ phase[r] = "polling" /\ phase' = [phase EXCEPT ![r] = "publishing"]
          /\ UNCHANGED <<outcome, answers>>
      BY <1>2, <2>2 DEF Send
    <3>2. Replied' = Replied
      BY <3>1 DEF Replied
    <3>3. \A q \in Requests : phase'[q] = "done" <=> phase[q] = "done"
      BY <3>1
    <3>4. QED
      BY <1>0, <3>1, <3>2, <3>3 DEF OwnOutcome, OwnResult
  <2>3. QED
    BY <2>1, <2>2
<1>3. ASSUME NEW r \in Requests, PublishFails(r) \/ TimesOut(r) PROVE OwnOutcome'
  <2>1. phase[r] # "done" /\ Finish(r, Failure)
    BY <1>3 DEF PublishFails, TimesOut
  <2>2. QED
    BY <1>1, <2>1
<1>4. ASSUME NEW r \in Requests, Respond(r) PROVE OwnOutcome'
  <2> DEFINE result == Reply(r, response[r][1])
  <2>1. phase[r] # "done" /\ Finish(r, result)
    BY <1>4 DEF Respond
  <2>2. result = Failure \/ (FreshIds => result = [ok |-> TRUE, of |-> r] /\ r \in Replied)
    BY <1>4, OwnResponse DEF Reply, Respond
  <2>3. QED
    BY <1>1, <2>1, <2>2
<1>5. ASSUME UNCHANGED outcome, \A r \in Requests : phase'[r] = "done" <=> phase[r] = "done"
      PROVE OwnOutcome'
  BY <1>0, <1>5, Forward DEF OwnOutcome, OwnResult, Failure
<1>6. ASSUME \/ \E r \in Requests, i \in Ids, f \in CommandForms : Arrive(r, i, f)
             \/ \E r \in Requests : Published(r)
             \/ \E r \in Requests, k \in AnswerKinds : BotAnswers(r, k)
             \/ \E k \in StatsKinds : BotReports(k)
             \/ \E t \in Loops : Listen(t)
             \/ Link \/ Tick \/ UNCHANGED vars
      PROVE UNCHANGED outcome /\ \A r \in Requests : phase'[r] = "done" <=> phase[r] = "done"
  BY <1>6 DEF Arrive, Published, BotAnswers, BotReports, Listen, HandleAnswer, HandleStats,
              Link, Tick, vars, reqVars
<1>7. QED
  BY <1>2, <1>3, <1>4, <1>5, <1>6 DEF Next, Caller

LEMMA BotInvInit == Init => BotInv
<1> SUFFICES ASSUME Init PROVE BotInv
  OBVIOUS
<1>1. GenuineInbox
  BY DEF Init, GenuineInbox, Queued
<1>2. NoEntryLeftBehind /\ GenuineResponse /\ BotsHearCommands /\ OwnOutcome
  BY DEF Init, NoEntryLeftBehind, GenuineResponse, BotsHearCommands, OwnOutcome, OwnResult
<1>3. IdsDistinct
  BY DEF Init, IdsDistinct
<1>4. QED
  BY <1>1, <1>2, <1>3 DEF BotInv

LEMMA BotInvStep ==
  ASSUME LinkTypeOK, ReqTypeOK, BotInv, [Next]_vars
  PROVE  BotInv'
BY TableStep, InboxStep, ResponseStep, IdsStep, BotsStep, OutcomeStep DEF BotInv

BotIndInv == LinkTypeOK /\ ReqTypeOK /\ BotInv

LEMMA BotInductive == Safety => []BotIndInv
<1>1. Init => BotIndInv
  BY LinkTypesInit, ReqTypesInit, BotInvInit DEF BotIndInv, Init
<1>2. BotIndInv /\ [Next]_vars => BotIndInv'
  BY LinkTypesStep, LinkStepped, ReqTypesStep, BotInvStep DEF BotIndInv
<1>3. QED
  BY <1>1, <1>2, PTL DEF Safety

\* No entry of _commands outlives its request, whichever way the request ends
\* and whatever ids are drawn: the table cannot leak.
THEOREM TableNeverLeaks == Safety => []NoEntryLeftBehind
<1>1. BotIndInv => NoEntryLeftBehind
  BY DEF BotIndInv, BotInv
<1>2. QED
  BY <1>1, BotInductive, PTL

\* If no request id is drawn twice, no REST caller gets the answer to another
\* command, however late, often and out of order the bots answer and however
\* often the connection fails meanwhile.
THEOREM AnswersCorrelate ==
  ASSUME FreshIds
  PROVE  Safety => []Correlated
<1>1. BotIndInv => Correlated
  <2> SUFFICES ASSUME BotIndInv, NEW r \in Requests, outcome[r] # <<>>
               PROVE  outcome[r][1].of \in {r, NoRequest}
    BY DEF Correlated
  <2>1. outcome[r][1] = Failure \/ outcome[r][1] = [ok |-> TRUE, of |-> r]
    BY DEF BotIndInv, BotInv, OwnOutcome, OwnResult
  <2>2. QED
    BY <2>1 DEF Failure
<1>2. QED
  BY <1>1, BotInductive, PTL

-----------------------------------------------------------------------------
(* Late answers                                                             *)

\* Who can be looked up is waiting to be answered.
LEMMA VisibleInFlight ==
  ASSUME ReqTypeOK, NoEntryLeftBehind, NEW i \in Ids, Visible(i)
  PROVE  table[i] \in Requests /\ InFlight(table[i])
<1>1. table[i] # NoRequest
  BY DEF Visible
<1>2. table[i] \in Requests
  BY <1>1 DEF ReqTypeOK
<1>3. InFlight(table[i])
  BY <1>1 DEF NoEntryLeftBehind
<1>4. QED
  BY <1>2, <1>3

\* Once a request is over nothing changes its result, and no message that is
\* still under way is taken for its answer.
THEOREM DoneIsFinal == Safety => LateAnswersDropped
<1> DEFINE Unmoved(r) == phase[r] = "done" =>
             phase'[r] = "done" /\ response'[r] = response[r] /\ outcome'[r] = outcome[r]
<1>1. BotIndInv /\ [Next]_vars => \A r \in Requests : Unmoved(r)
  <2> SUFFICES ASSUME BotIndInv, [Next]_vars, NEW r \in Requests, phase[r] = "done"
               PROVE  phase'[r] = "done" /\ response'[r] = response[r] /\ outcome'[r] = outcome[r]
    OBVIOUS
  <2> USE DEF ReqTypeOK, Phases
  <2>0. ReqTypeOK /\ NoEntryLeftBehind
    BY DEF BotIndInv, BotInv
  <2>1. ASSUME NEW q \in Requests, NEW i \in Ids, NEW f \in CommandForms, Arrive(q, i, f)
        PROVE  UNCHANGED <<response, outcome>> /\ phase'[r] = "done"
    BY <2>0, <2>1 DEF Arrive
  <2>2. ASSUME NEW q \in Requests, Caller(q)
        PROVE  /\ UNCHANGED response
               /\ phase'[r] = "done" /\ outcome'[r] = outcome[r]
    <3>1. q # r /\ UNCHANGED response
      BY <2>2 DEF Caller, Send, Published, PublishFails, Respond, TimesOut
    <3>2. phase' \in {[phase EXCEPT ![q] = p] : p \in {"publishing", "waiting", "done"}}
      BY <2>2 DEF Caller, Send, Published, PublishFails, Respond, TimesOut, Finish
    <3>3. outcome' = outcome \/ \E result : outcome' = [outcome EXCEPT ![q] = <<result>>]
      BY <2>2 DEF Caller, Send, Published, PublishFails, Respond, TimesOut, Finish
    <3>4. QED
      BY <2>0, <3>1, <3>2, <3>3
  <2>3. ASSUME NEW t \in Loops, HandleAnswer(t)
        PROVE  UNCHANGED <<phase, outcome>> /\ response'[r] = response[r]
    <3> DEFINE m == Head(inbox[t])
    <3>1. m \in Answers
      BY <2>0, <2>3, InboxTypes, StatsAreNoAnswers DEF HandleAnswer
    <3>2. Visible(m.id) => table[m.id] # r /\ table[m.id] \in Requests
      <4>1. m.id \in Ids
        BY <3>1 DEF Answers
      <4>2. ~InFlight(r)
        BY DEF InFlight
      <4>3. QED
        BY <2>0, <4>1, <4>2, VisibleInFlight
    <3>3. QED
      BY <2>0, <2>3, <3>2 DEF HandleAnswer
  <2>4. ASSUME \/ \E q \in Requests, k \in AnswerKinds : BotAnswers(q, k)
               \/ \E k \in StatsKinds : BotReports(k)
               \/ \E t \in Loops : HandleStats(t)
               \/ Link \/ Tick \/ UNCHANGED vars
        PROVE UNCHANGED <<phase, response, outcome>>
    BY <2>4 DEF BotAnswers, BotReports, HandleStats, Link, Tick, vars, reqVars
  <2>5. QED
    BY <2>1, <2>2, <2>3, <2>4 DEF Next, Listen
<1>2. QED
  BY <1>1, BotInductive, PTL DEF Safety, LateAnswersDropped

-----------------------------------------------------------------------------
(* An entry stays as long as it lives                                       *)

InFlights == {r \in Requests : InFlight(r)}

\* There is room in the cache for one request more than are in flight.
RoomLeft == IsFiniteSet(InFlights) /\ Cardinality(InFlights) < MaxSize

\* Each live entry belongs to a request in flight.
LEMMA RoomForOneMore ==
  ASSUME RoomLeft, ReqTypeOK, NoEntryLeftBehind
  PROVE  Cardinality(Live) < MaxSize
<1> DEFINE owner == [i \in Live |-> table[i]]
<1>1. \A i \in Live : table[i] \in InFlights /\ rid[table[i]] = i
  BY DEF Live, Visible, ReqTypeOK, NoEntryLeftBehind, InFlights
<1>2. owner \in Injection(Live, InFlights)
  BY <1>1 DEF Injection, IsInjective
<1>3. IsFiniteSet(Live) /\ Cardinality(Live) <= Cardinality(InFlights)
  <2> HIDE DEF owner
  <2>1. QED
    BY <1>2, FS_Injection DEF RoomLeft
<1>4. Cardinality(InFlights) \in Nat /\ Cardinality(Live) \in Nat
  BY <1>3, FS_CardinalityType DEF RoomLeft
<1>5. QED
  BY <1>3, <1>4, TimesAssumption DEF RoomLeft

\* Then nothing is evicted, and what is visible stays.
LEMMA NothingEvicted ==
  ASSUME RoomLeft, ReqTypeOK, NoEntryLeftBehind, NEW r \in Requests,
         NEW k \in Kept(rid[r])
  PROVE  \A i \in Live : k[i] = table[i]
<1>1. Evicted(rid[r]) = {{}}
  BY RoomForOneMore DEF Evicted
<1>2. k = [j \in Ids |-> IF j \in Live THEN table[j] ELSE NoRequest]
  BY <1>1 DEF Kept
<1>3. QED
  BY <1>2 DEF Live

\* A request whose entry has time left, and that entry.
Living(r) == InFlight(r) /\ age[r] < Ttl
Held(r) == Living(r) => table[rid[r]] = r /\ Visible(rid[r])

LEMMA HeldStep ==
  ASSUME FreshIds, RoomLeft, ReqTypeOK, BotInv, HeldWhileLive, [Next]_vars
  PROVE  HeldWhileLive'
<1> USE TimesAssumption DEF ReqTypeOK, Phases
<1>0. /\ NoEntryLeftBehind /\ FreshIds
      /\ \A q \in Requests : Held(q)
      /\ \A p, q \in Requests : p # q /\ phase[p] # "idle" /\ phase[q] # "idle" => rid[p] # rid[q]
  BY DEF BotInv, HeldWhileLive, Held, Living, IdsDistinct
<1> SUFFICES ASSUME NEW q \in Requests, Living(q)'
             PROVE  table'[rid'[q]] = q
  BY RequestsAssumption DEF HeldWhileLive, Living, Visible
<1>1. ASSUME NEW r \in Requests, NEW i \in Ids, NEW f \in CommandForms, Arrive(r, i, f)
      PROVE table'[rid'[q]] = q
  BY <1>0, <1>1 DEF Arrive, Held, Living, Visible, InFlight
<1>2. ASSUME NEW r \in Requests, Send(r)
      PROVE table'[rid'[q]] = q
  <2>1. PICK k \in Kept(rid[r]) :
          \/ table' = [k EXCEPT ![rid[r]] = NoRequest] /\ Finish(r, Failure) /\ age' = age
          \/ /\ table' = [k EXCEPT ![rid[r]] = r]
             /\ phase' = [phase EXCEPT ![r] = "publishing"]
             /\ age' = [age EXCEPT ![r] = 0]
    BY <1>2 DEF Send
  <2>2. phase[r] = "polling" /\ rid' = rid /\ deadline' = deadline
    BY <1>2 DEF Send
  <2>3. k \in [Ids -> Requests \cup {NoRequest}]
    BY KeptType
  <2>4. CASE q = r
    BY <2>1, <2>2, <2>3, <2>4 DEF Living, InFlight, Finish
  <2>5. CASE q # r
    <3>1. phase'[q] = phase[q] /\ age'[q] = age[q]
      BY <2>1, <2>5 DEF Finish
    <3>2. Living(q)
      BY <2>2, <3>1 DEF Living, InFlight
    <3>3. table[rid[q]] = q /\ Visible(rid[q])
      BY <1>0, <3>2 DEF Held
    <3>4. k[rid[q]] = q
      BY <1>0, <2>2, <3>3, NothingEvicted DEF Live
    <3>5. rid[q] # rid[r]
      BY <1>0, <2>2, <2>5, <3>2 DEF Living, InFlight
    <3>6. table'[rid[q]] = q
      BY <2>1, <2>3, <3>4, <3>5
    <3>7. QED
      BY <2>2, <3>1, <3>3, <3>6 DEF Visible
  <2>6. QED
    BY <2>4, <2>5
<1>3. ASSUME NEW r \in Requests, Published(r)
      PROVE table'[rid'[q]] = q
  BY <1>0, <1>3 DEF Published, Held, Living, Visible, InFlight
<1>4. ASSUME NEW r \in Requests, PublishFails(r) \/ Respond(r) \/ TimesOut(r)
      PROVE table'[rid'[q]] = q
  <2>1. /\ table' = Pop(rid[r]) /\ phase' = [phase EXCEPT ![r] = "done"]
        /\ UNCHANGED <<rid, age, deadline>> /\ phase[r] # "idle"
    BY <1>4 DEF PublishFails, Respond, TimesOut, Finish
  <2>2. q # r /\ Living(q)
    BY <2>1 DEF Living, InFlight
  <2>3. rid[q] # rid[r]
    BY <1>0, <2>1, <2>2 DEF Living, InFlight
  <2>4. QED
    BY <1>0, <2>1, <2>2, <2>3 DEF Pop, Held, Visible
<1>5. CASE Tick
  <2>1. /\ UNCHANGED <<phase, rid, table>>
        /\ age' = [r \in Requests |-> IF InFlight(r) THEN age[r] + 1 ELSE age[r]]
    BY <1>5 DEF Tick
  <2>2. InFlight(q) /\ age'[q] = age[q] + 1 /\ age'[q] < Ttl
    BY <2>1 DEF Living, InFlight
  <2>3. QED
    BY <1>0, <2>1, <2>2 DEF Held, Living
<1>6. ASSUME UNCHANGED <<phase, rid, table, age, deadline>>
      PROVE table'[rid'[q]] = q
  BY <1>0, <1>6 DEF Held, Living, Visible, InFlight
<1>7. ASSUME \/ \E r \in Requests, k \in AnswerKinds : BotAnswers(r, k)
             \/ \E k \in StatsKinds : BotReports(k)
             \/ \E t \in Loops : Listen(t)
             \/ Link \/ UNCHANGED vars
      PROVE UNCHANGED <<phase, rid, table, age, deadline>>
  BY <1>7 DEF BotAnswers, BotReports, Listen, HandleAnswer, HandleStats, Link, vars, reqVars
<1>8. QED
  BY <1>1, <1>2, <1>3, <1>4, <1>5, <1>6, <1>7 DEF Next, Caller

\* With distinct ids and fewer requests in flight than the cache has room for,
\* an answer that comes within the time to live finds its request in _commands,
\* for any number of requests, any traffic beside it, and however long the
\* publish and the wait take.
THEOREM AnswersFindTheirRequest ==
  ASSUME FreshIds
  PROVE  Safety /\ []RoomLeft => []HeldWhileLive
<1>1. Init => HeldWhileLive
  BY DEF Init, HeldWhileLive, InFlight
<1>2. BotIndInv /\ RoomLeft /\ HeldWhileLive /\ [Next]_vars => HeldWhileLive'
  BY HeldStep DEF BotIndInv
<1>3. QED
  BY <1>1, <1>2, BotInductive, PTL DEF Safety

-----------------------------------------------------------------------------
(* Refinement                                                               *)

LEMMA BridgeInitial == Init => Bridge!BridgeInit
BY DEF Init, Bridge!BridgeInit, Status

\* What a step of send_command_plain does to the status of its request.
LEMMA StatusFinish ==
  ASSUME ReqTypeOK, NEW r \in Requests, NEW result, Finish(r, result)
  PROVE  [q \in Requests |-> Status(q)]' =
           [[q \in Requests |-> Status(q)] EXCEPT ![r] = IF result.ok THEN "ok" ELSE "error"]
BY DEF Finish, Status, ReqTypeOK

LEMMA BridgeStep ==
  ASSUME FreshIds, BotIndInv, [Next]_vars
  PROVE  [Bridge!BridgeNext]_(Bridge!bridgeVars)
<1> DEFINE status  == [q \in Requests |-> Status(q)]
           replied == {q \in Requests : answers[q] > 0}
<1> USE DEF Bridge!BridgeNext, Bridge!bridgeVars
<1>0. ReqTypeOK /\ BotInv
  BY DEF BotIndInv
<1>1. ASSUME NEW r \in Requests, NEW i \in Ids, NEW f \in CommandForms, Arrive(r, i, f)
      PROVE Bridge!Open(r)
  <2>1. status[r] = "idle" /\ status' = [status EXCEPT ![r] = "open"]
    BY <1>0, <1>1 DEF Arrive, Status, ReqTypeOK
  <2>2. QED
    BY <1>1, <2>1 DEF Bridge!Open, Arrive
<1>2. ASSUME NEW r \in Requests, phase[r] \notin {"idle", "done"}, Finish(r, Failure),
             UNCHANGED <<atBots, answers>>
      PROVE Bridge!Fail(r)
  <2>1. status[r] = "open"
    BY <1>2 DEF Status
  <2>2. status' = [status EXCEPT ![r] = "error"]
    BY <1>0, <1>2, StatusFinish DEF Failure
  <2>3. QED
    BY <1>2, <2>1, <2>2 DEF Bridge!Fail
<1>3. ASSUME NEW r \in Requests, Send(r), client # NoLoop
      PROVE Bridge!Reach(r) \/ UNCHANGED Bridge!bridgeVars
  <2>1. status[r] = "open" /\ status' = status
    BY <1>0, <1>3 DEF Send, Status, ReqTypeOK
  <2>2. atBots' \in {atBots, atBots \cup {r}} /\ UNCHANGED answers
    BY <1>3 DEF Send
  <2>3. QED
    BY <2>1, <2>2 DEF Bridge!Reach
<1>4. ASSUME NEW r \in Requests, Send(r), client = NoLoop
      PROVE Bridge!Fail(r)
  BY <1>2, <1>4 DEF Send
<1>5. ASSUME NEW r \in Requests, PublishFails(r) \/ TimesOut(r)
      PROVE Bridge!Fail(r)
  BY <1>2, <1>5 DEF PublishFails, TimesOut
<1>6. ASSUME NEW r \in Requests, Respond(r)
      PROVE Bridge!Fail(r) \/ Bridge!Succeed(r)
  <2> DEFINE result == Reply(r, response[r][1])
  <2>1. Finish(r, result) /\ phase[r] \notin {"idle", "done"} /\ UNCHANGED <<atBots, answers>>
    BY <1>6 DEF Respond
  <2>2. CASE result = Failure
    BY <1>2, <2>1, <2>2
  <2>3. CASE result # Failure
    <3>1. result.ok = TRUE
      BY <2>3 DEF Reply
    <3>2. status[r] = "open"
      BY <2>1 DEF Status
    <3>3. status' = [status EXCEPT ![r] = "ok"]
      BY <1>0, <2>1, <3>1, StatusFinish
    <3>4. r \in replied
      BY <1>0, <1>6, OwnResponse DEF Respond, Replied
    <3>5. QED
      BY <2>1, <3>2, <3>3, <3>4 DEF Bridge!Succeed
  <2>4. QED
    BY <2>2, <2>3
<1>7. ASSUME NEW r \in Requests, NEW k \in AnswerKinds, BotAnswers(r, k)
      PROVE Bridge!BotReplies(r)
  <2>1. replied' = replied \cup {r}
    BY <1>0, <1>7 DEF BotAnswers, ReqTypeOK
  <2>2. status' = status /\ r \in atBots /\ UNCHANGED atBots
    BY <1>7 DEF BotAnswers, Status
  <2>3. QED
    BY <2>1, <2>2 DEF Bridge!BotReplies
<1>8. ASSUME NEW r \in Requests, Published(r)
      PROVE UNCHANGED Bridge!bridgeVars
  <2>1. status' = status
    BY <1>0, <1>8 DEF Published, Status, ReqTypeOK
  <2>2. QED
    BY <1>8, <2>1 DEF Published
<1>9. ASSUME \/ \E k \in StatsKinds : BotReports(k)
             \/ \E t \in Loops : Listen(t)
             \/ Link \/ Tick \/ UNCHANGED vars
      PROVE UNCHANGED Bridge!bridgeVars
  <2>1. UNCHANGED <<phase, outcome, atBots, answers>>
    BY <1>9 DEF BotReports, Listen, HandleAnswer, HandleStats, Link, Tick, vars, reqVars
  <2>2. QED
    BY <2>1 DEF Status
<1>10. QED
  BY <1>1, <1>3, <1>4, <1>5, <1>6, <1>7, <1>8, <1>9 DEF Next, Caller

\* If no request id is drawn twice, the helper bot with its table, timers and
\* reconnecting client implements the bridge: each command is answered once,
\* with an error or with what a bot answered to that command.
THEOREM BotImplementsBridge ==
  ASSUME FreshIds
  PROVE  Safety => ImplementsBridge
<1>1. Init => Bridge!BridgeInit
  BY BridgeInitial
<1>2. BotIndInv /\ [Next]_vars => [Bridge!BridgeNext]_(Bridge!bridgeVars)
  BY BridgeStep
<1>3. QED
  BY <1>1, <1>2, BotInductive, PTL DEF Safety, ImplementsBridge, Bridge!BridgeSpec
=============================================================================
