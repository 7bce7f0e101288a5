---------------------------- MODULE BrokerProof ----------------------------
(***************************************************************************)
(* Theorems about Broker for any number of connections, bots, users, ids    *)
(* and senders, with the proxy or without.                                  *)
(***************************************************************************)
EXTENDS Broker, TLAPS

\* A connection that has begun has an id, and one that is closing a proxy has popped it.
HasName ==
  /\ \A k \in Conns : stage[k] # "free" => name[k] \in Names
  /\ \A k \in Conns : stage[k] = "leaving" => popped[k] # None

\* The broker calls the plugin only while the process runs.
DeadIsFree == ~running => \A k \in Conns : stage[k] = "free"

\* The process has nothing of a proxy that is not of the id it is stored under.
StoredUnderItsName == \A n \in Names : proxyOf[n] # None => name[proxyOf[n]] = n

\* A connection that was let in through a proxy, and not overtaken, finds it stored.
OwnProxyStored ==
  \A k \in Conns :
    /\ k \notin overtaken
    /\ stage[k] = "connecting" \/ (stage[k] \in {"accepted", "up", "gone"} /\ link[k] # "none")
    => proxyOf[name[k]] = k

\* What a callback has taken out belongs to nobody who still counts on it.
PoppedIsOvertaken ==
  \A j \in Conns : popped[j] # None =>
    /\ stage[j] = "leaving"
    /\ popped[j] = j \/ popped[j] \in overtaken \/ stage[popped[j]] = "free"

\* A session that is open, or that amqtt is trying to reopen.
Alive(k) == link[k] \in {"open", "lost"}

LeavingHasPopped ==
  \A k \in Conns : stage[k] = "leaving" =>
    /\ popped[k] # None
    /\ Alive(k) => k \in overtaken \/ popped[k] = k

NotYetOpen == \A k \in Conns : stage[k] \in {"resolving", "connecting"} => ~Alive(k)

\* LeftoverExplained, also for a session that may come back.
LeftoverLives ==
  \A k \in Conns :
    Alive(k) /\ stage[k] \in {"free", "stuck"} =>
      k \in overtaken \cup spared \/ \E j \in Conns : popped[j] = k

ProxyInv ==
  /\ StoredUnderItsName /\ OwnProxyStored /\ PoppedIsOvertaken /\ LeavingHasPopped /\ NotYetOpen
  /\ LeftoverLives

\* An id has been drawn for one command at most, and is in one mapper at most,
\* with its sender, as long as nobody has answered it.
IdsOnce == \A c, d \in Commands : c.id = d.id /\ fate[c] # "unsent" /\ fate[d] # "unsent" => c = d
MappedOnce ==
  \A j, k \in Conns, i \in Ids : mapper[j][i] # None /\ mapper[k][i] # None => j = k
MappedIsOpen ==
  \A k \in Conns, i \in Ids : mapper[k][i] # None =>
    \E c \in Commands : c.id = i /\ c.from = mapper[k][i] /\ fate[c] \in {"open", "lost"}

RelayInv == IdsOnce /\ MappedOnce /\ MappedIsOpen /\ AnswersCorrelate

-----------------------------------------------------------------------------
(* Types                                                                    *)

LEMMA TypesInit == Init => TypeOK /\ HasName
BY DEF Init, TypeOK, HasName, Stages, NoEntries

LEMMA TypesStep ==
  ASSUME TypeOK, HasName, [Next]_vars
  PROVE  TypeOK' /\ HasName'
<1> USE NamesAssumption, SendersAssumption DEF TypeOK, HasName, Stages
<1>1. ASSUME NEW k \in Conns, NEW n \in Names, Authenticate(k, n) PROVE TypeOK' /\ HasName'
  BY <1>1 DEF Authenticate, Enter, NoEntries
<1>2. ASSUME NEW k \in Conns, NEW n \in Names, AuthenticateProxied(k, n) PROVE TypeOK' /\ HasName'
  BY <1>2 DEF AuthenticateProxied, Enter, NoEntries
<1>3. ASSUME NEW k \in Conns, StoreProxy(k) PROVE TypeOK' /\ HasName'
  BY <1>3 DEF StoreProxy, Named, relayVars
<1>4. ASSUME NEW k \in Conns, ProxyConnected(k) PROVE TypeOK' /\ HasName'
  BY <1>4 DEF ProxyConnected, recordVars, relayVars
<1>5. ASSUME NEW k \in Conns, Refused(k) PROVE TypeOK' /\ HasName'
  BY <1>5 DEF Refused, recordVars, proxyVars, relayVars
<1>6. ASSUME NEW k \in Conns, ClientConnected(k) PROVE TypeOK' /\ HasName'
  BY <1>6 DEF ClientConnected, Flagged, proxyVars, relayVars
<1>7. ASSUME NEW k \in Conns, Drop(k) PROVE TypeOK' /\ HasName'
  BY <1>7 DEF Drop, recordVars, proxyVars, relayVars
<1>8. ASSUME NEW k \in Conns, ClientDisconnected(k) PROVE TypeOK' /\ HasName'
  BY <1>8 DEF ClientDisconnected, Lower, Named, Flagged, proxyVars, relayVars
<1>9. ASSUME NEW k \in Conns, PopProxy(k) PROVE TypeOK' /\ HasName'
  BY <1>9 DEF PopProxy, Named, relayVars
<1>10. ASSUME NEW k \in Conns, ProxyDisconnected(k) PROVE TypeOK' /\ HasName'
  BY <1>10 DEF ProxyDisconnected, Lower, Named, Flagged, relayVars
<1>11. ASSUME NEW k \in Conns, LinkLost(k) PROVE TypeOK' /\ HasName'
  BY <1>11 DEF LinkLost, connVars, recordVars, relayVars
<1>11a. ASSUME NEW k \in Conns, LinkReopened(k) PROVE TypeOK' /\ HasName'
  BY <1>11a DEF LinkReopened, connVars, recordVars, relayVars
<1>11b. ASSUME NEW k \in Conns, LinkGivenUp(k) PROVE TypeOK' /\ HasName'
  BY <1>11b DEF LinkGivenUp, connVars, recordVars, relayVars
<1>11c. ASSUME NEW k \in Conns, ProxyFails(k) PROVE TypeOK' /\ HasName'
  BY <1>11c DEF ProxyFails, recordVars, relayVars
<1>12. ASSUME NEW n \in Names, RemoveRecord(n) PROVE TypeOK' /\ HasName'
  BY <1>12 DEF RemoveRecord, Named, connVars, proxyVars, relayVars
<1>13. ASSUME NEW k \in Conns, NEW c \in Commands, Relay(k, c) PROVE TypeOK' /\ HasName'
  <2>1. c.id \in Ids /\ c.from \in Senders
    BY DEF Commands
  <2>2. mapper' \in [Conns -> [Ids -> Senders \cup {None}]]
    <3>1. mapper' = [mapper EXCEPT ![k] = [mapper[k] EXCEPT ![c.id] = c.from]]
      BY <1>13 DEF Relay
    <3>2. QED
      BY <2>1, <3>1
  <2>3. fate' \in [Commands -> {"unsent", "lost", "open", "answered", "twice", "wrong"}]
    <3>1. PICK f \in {"open", "lost"} : fate' = [fate EXCEPT ![c] = f]
      BY <1>13 DEF Relay
    <3>2. QED
      BY <3>1
  <2>4. UNCHANGED <<running, connVars, recordVars, proxyVars>>
    BY <1>13 DEF Relay
  <2>5. QED
    BY <2>2, <2>3, <2>4 DEF connVars, recordVars, proxyVars
<1>14. ASSUME NEW k \in Conns, NEW c \in Commands, Answer(k, c) PROVE TypeOK' /\ HasName'
  BY <1>14 DEF Answer, Forwarded, Commands, connVars, recordVars, proxyVars
<1>15. ASSUME NEW k \in Conns, NEW i \in Ids, Expire(k, i) PROVE TypeOK' /\ HasName'
  BY <1>15 DEF Expire, connVars, recordVars, proxyVars
<1>16. CASE Crash
  BY <1>16 DEF Crash, NoEntries
<1>17. CASE Restart
  BY <1>17 DEF Restart, connVars, proxyVars, relayVars
<1>18. CASE UNCHANGED vars
  BY <1>18 DEF vars, connVars, recordVars, proxyVars, relayVars
<1>19. QED
  BY <1>1, <1>2, <1>3, <1>4, <1>5, <1>6, <1>7, <1>8, <1>9, <1>10, <1>11, <1>11a, <1>11b, <1>11c, <1>12,
     <1>13, <1>14, <1>15, <1>16, <1>17, <1>18 DEF Next, Plugin, Amqtt

\* Every step keeps the types of what the plugin and the proxies remember.
THEOREM BrokerTypes == Spec => [](TypeOK /\ HasName)
BY TypesInit, TypesStep, PTL DEF Spec

-----------------------------------------------------------------------------
(* Flags                                                                    *)

FlagInv == DeadIsFree /\ NoStaleUp /\ ConnectedIsUp

LEMMA FlagInit == Init => FlagInv
BY DEF Init, FlagInv, DeadIsFree, NoStaleUp, ConnectedIsUp

LEMMA FlagStep ==
  ASSUME TypeOK, HasName, FlagInv, [Next]_vars
  PROVE  FlagInv'
<1> USE DEF FlagInv, DeadIsFree, NoStaleUp, ConnectedIsUp, TypeOK, HasName, Stages, Reported, Named, Free,
            connVars, recordVars, proxyVars, relayVars
<1>1. ASSUME NEW k \in Conns, NEW n \in Names, Authenticate(k, n) PROVE FlagInv'
  BY <1>1 DEF Authenticate, Enter
<1>2. ASSUME NEW k \in Conns, NEW n \in Names, AuthenticateProxied(k, n) PROVE FlagInv'
  BY <1>2 DEF AuthenticateProxied, Enter
<1>3. ASSUME NEW k \in Conns, StoreProxy(k) PROVE FlagInv'
  BY <1>3 DEF StoreProxy
<1>4. ASSUME NEW k \in Conns, ProxyConnected(k) PROVE FlagInv'
  BY <1>4 DEF ProxyConnected
<1>5. ASSUME NEW k \in Conns, Refused(k) PROVE FlagInv'
  <2>1. \A j \in Conns : stage[j] \in Reported => stage'[j] = stage[j]
    BY <1>5 DEF Refused
  <2>2. QED
    BY <1>5, <2>1 DEF Refused
<1>6. ASSUME NEW k \in Conns, ClientConnected(k) PROVE FlagInv'
  BY <1>6 DEF ClientConnected, Flagged
<1>7. ASSUME NEW k \in Conns, Drop(k) PROVE FlagInv'
  BY <1>7 DEF Drop
<1>8. ASSUME NEW k \in Conns, ClientDisconnected(k) PROVE FlagInv'
  BY <1>8 DEF ClientDisconnected, Lower, Flagged
<1>9. ASSUME NEW k \in Conns, PopProxy(k) PROVE FlagInv'
  BY <1>9 DEF PopProxy
<1>10. ASSUME NEW k \in Conns, ProxyDisconnected(k) PROVE FlagInv'
  BY <1>10 DEF ProxyDisconnected, Lower, Flagged
<1>11. ASSUME NEW k \in Conns, LinkLost(k) PROVE FlagInv'
  BY <1>11 DEF LinkLost
<1>11a. ASSUME NEW k \in Conns, LinkReopened(k) PROVE FlagInv'
  BY <1>11a DEF LinkReopened
<1>11b. ASSUME NEW k \in Conns, LinkGivenUp(k) PROVE FlagInv'
  BY <1>11b DEF LinkGivenUp
<1>11c. ASSUME NEW k \in Conns, ProxyFails(k) PROVE FlagInv'
  BY <1>11c DEF ProxyFails
<1>12. ASSUME NEW n \in Names, RemoveRecord(n) PROVE FlagInv'
  BY <1>12 DEF RemoveRecord
<1>13. ASSUME NEW k \in Conns, NEW c \in Commands, Relay(k, c) PROVE FlagInv'
  BY <1>13 DEF Relay
<1>14. ASSUME NEW k \in Conns, NEW c \in Commands, Answer(k, c) PROVE FlagInv'
  BY <1>14 DEF Answer
<1>15. ASSUME NEW k \in Conns, NEW i \in Ids, Expire(k, i) PROVE FlagInv'
  BY <1>15 DEF Expire
<1>16. CASE Crash
  BY <1>16 DEF Crash
<1>17. CASE Restart
  BY <1>17 DEF Restart
<1>18. CASE UNCHANGED vars
  BY <1>18 DEF vars
<1>19. QED
  BY <1>1, <1>2, <1>3, <1>4, <1>5, <1>6, <1>7, <1>8, <1>9, <1>10, <1>11, <1>11a, <1>11b, <1>11c, <1>12,
     <1>13, <1>14, <1>15, <1>16, <1>17, <1>18 DEF Next, Plugin, Amqtt

\* A flag that is up is of a connection that the broker has reported, and the
\* flag of a reported connection is up unless a namesake or a removal took it
\* away: set_mqtt() in the two callbacks, and the reset at the start.
THEOREM FlagsFollow == Spec => [](NoStaleUp /\ ConnectedIsUp)
<1>1. FlagInv => NoStaleUp /\ ConnectedIsUp
  BY DEF FlagInv
<1>2. QED
  BY <1>1, BrokerTypes, FlagInit, FlagStep, PTL DEF Spec

-----------------------------------------------------------------------------
(* Proxies                                                                  *)

LEMMA ProxyInit == Init => ProxyInv
BY NamesAssumption, SendersAssumption
   DEF Init, ProxyInv, StoredUnderItsName, OwnProxyStored, PoppedIsOvertaken, LeavingHasPopped,
       NotYetOpen, LeftoverLives, Alive

LEMMA ProxyStep ==
  ASSUME TypeOK, HasName, ProxyInv, [Next]_vars
  PROVE  ProxyInv'
<1> USE NamesAssumption, SendersAssumption
    DEF ProxyInv, StoredUnderItsName, OwnProxyStored, PoppedIsOvertaken, LeavingHasPopped,
        NotYetOpen, LeftoverLives, Alive, TypeOK, HasName, Stages, Named, Free,
        connVars, recordVars, proxyVars, relayVars
<1>1. ASSUME NEW k \in Conns, NEW n \in Names, Authenticate(k, n) PROVE ProxyInv'
  BY <1>1 DEF Authenticate, Enter
<1>2. ASSUME NEW k \in Conns, NEW n \in Names, AuthenticateProxied(k, n) PROVE ProxyInv'
  BY <1>2 DEF AuthenticateProxied, Enter
<1>3. ASSUME NEW k \in Conns, StoreProxy(k) PROVE ProxyInv'
  BY <1>3 DEF StoreProxy
<1>4. ASSUME NEW k \in Conns, ProxyConnected(k) PROVE ProxyInv'
  BY <1>4 DEF ProxyConnected
<1>5. ASSUME NEW k \in Conns, Refused(k) PROVE ProxyInv'
  BY <1>5 DEF Refused
<1>6. ASSUME NEW k \in Conns, ClientConnected(k) PROVE ProxyInv'
  BY <1>6 DEF ClientConnected, Flagged
<1>7. ASSUME NEW k \in Conns, Drop(k) PROVE ProxyInv'
  BY <1>7 DEF Drop
<1>8. ASSUME NEW k \in Conns, ClientDisconnected(k) PROVE ProxyInv'
  BY <1>8 DEF ClientDisconnected, Lower, Flagged
<1>9. ASSUME NEW k \in Conns, PopProxy(k) PROVE ProxyInv'
  BY <1>9 DEF PopProxy
<1>10. ASSUME NEW k \in Conns, ProxyDisconnected(k) PROVE ProxyInv'
  BY <1>10 DEF ProxyDisconnected, Lower, Flagged
<1>11. ASSUME NEW k \in Conns, LinkLost(k) PROVE ProxyInv'
  BY <1>11 DEF LinkLost
<1>11a. ASSUME NEW k \in Conns, LinkReopened(k) PROVE ProxyInv'
  BY <1>11a DEF LinkReopened
<1>11b. ASSUME NEW k \in Conns, LinkGivenUp(k) PROVE ProxyInv'
  BY <1>11b DEF LinkGivenUp
<1>11c. ASSUME NEW k \in Conns, ProxyFails(k) PROVE ProxyInv'
  BY <1>11c DEF ProxyFails
<1>12. ASSUME NEW n \in Names, RemoveRecord(n) PROVE ProxyInv'
  BY <1>12 DEF RemoveRecord
<1>13. ASSUME NEW k \in Conns, NEW c \in Commands, Relay(k, c) PROVE ProxyInv'
  BY <1>13 DEF Relay
<1>14. ASSUME NEW k \in Conns, NEW c \in Commands, Answer(k, c) PROVE ProxyInv'
  BY <1>14 DEF Answer
<1>15. ASSUME NEW k \in Conns, NEW i \in Ids, Expire(k, i) PROVE ProxyInv'
  BY <1>15 DEF Expire
<1>16. CASE Crash
  BY <1>16 DEF Crash
<1>17. CASE Restart
  BY <1>17 DEF Restart
<1>18. CASE UNCHANGED vars
  BY <1>18 DEF vars
<1>19. QED
  BY <1>1, <1>2, <1>3, <1>4, <1>5, <1>6, <1>7, <1>8, <1>9, <1>10, <1>11, <1>11a, <1>11b, <1>11c, <1>12,
     <1>13, <1>14, <1>15, <1>16, <1>17, <1>18 DEF Next, Plugin, Amqtt

\* A bot let in through a proxy keeps it until another connection of its id
\* interferes: StoreProxy() replaces, and only the callback of that id pops.
THEOREM ProxiesFollow == Spec => []ProxyKept
<1>1. ProxyInv => ProxyKept
  BY DEF ProxyInv, OwnProxyStored, ProxyKept
<1>2. QED
  BY <1>1, BrokerTypes, ProxyInit, ProxyStep, PTL DEF Spec

\* Whatever the order of losses, reconnections and callbacks, a session that is
\* open at Ecovacs without its bot was replaced or taken out by another
\* connection of the id, is about to be closed, or was spared by a disconnect()
\* that found it unconnected or raised.
THEOREM LeftoversExplained == Spec => []LeftoverExplained
<1>1. ProxyInv => LeftoverExplained
  BY DEF ProxyInv, LeftoverLives, LeftoverExplained, Alive
<1>2. QED
  BY <1>1, BrokerTypes, ProxyInit, ProxyStep, PTL DEF Spec

-----------------------------------------------------------------------------
(* Answers                                                                  *)

LEMMA RelayInit == Init => RelayInv
BY DEF Init, RelayInv, IdsOnce, MappedOnce, MappedIsOpen, AnswersCorrelate, NoEntries

LEMMA RelayStep ==
  ASSUME TypeOK, HasName, RelayInv, [Next]_vars
  PROVE  RelayInv'
<1> USE SendersAssumption
    DEF RelayInv, IdsOnce, MappedOnce, MappedIsOpen, AnswersCorrelate, NoEntries,
        TypeOK, HasName, Stages, Commands, Forwarded,
        connVars, recordVars, proxyVars, relayVars
<1>1. ASSUME NEW k \in Conns, NEW n \in Names, Authenticate(k, n) PROVE RelayInv'
  BY <1>1 DEF Authenticate, Enter
<1>2. ASSUME NEW k \in Conns, NEW n \in Names, AuthenticateProxied(k, n) PROVE RelayInv'
  BY <1>2 DEF AuthenticateProxied, Enter
<1>3. ASSUME NEW k \in Conns, StoreProxy(k) PROVE RelayInv'
  BY <1>3 DEF StoreProxy
<1>4. ASSUME NEW k \in Conns, ProxyConnected(k) PROVE RelayInv'
  BY <1>4 DEF ProxyConnected
<1>5. ASSUME NEW k \in Conns, Refused(k) PROVE RelayInv'
  BY <1>5 DEF Refused
<1>6. ASSUME NEW k \in Conns, ClientConnected(k) PROVE RelayInv'
  BY <1>6 DEF ClientConnected, Flagged
<1>7. ASSUME NEW k \in Conns, Drop(k) PROVE RelayInv'
  BY <1>7 DEF Drop
<1>8. ASSUME NEW k \in Conns, ClientDisconnected(k) PROVE RelayInv'
  BY <1>8 DEF ClientDisconnected, Lower, Flagged
<1>9. ASSUME NEW k \in Conns, PopProxy(k) PROVE RelayInv'
  BY <1>9 DEF PopProxy
<1>10. ASSUME NEW k \in Conns, ProxyDisconnected(k) PROVE RelayInv'
  BY <1>10 DEF ProxyDisconnected, Lower, Flagged
<1>11. ASSUME NEW k \in Conns, LinkLost(k) PROVE RelayInv'
  BY <1>11 DEF LinkLost
<1>11a. ASSUME NEW k \in Conns, LinkReopened(k) PROVE RelayInv'
  BY <1>11a DEF LinkReopened
<1>11b. ASSUME NEW k \in Conns, LinkGivenUp(k) PROVE RelayInv'
  BY <1>11b DEF LinkGivenUp
<1>11c. ASSUME NEW k \in Conns, ProxyFails(k) PROVE RelayInv'
  BY <1>11c DEF ProxyFails
<1>12. ASSUME NEW n \in Names, RemoveRecord(n) PROVE RelayInv'
  BY <1>12 DEF RemoveRecord
<1>13. ASSUME NEW k \in Conns, NEW c \in Commands, Relay(k, c) PROVE RelayInv'
  <2>1. mapper' = [mapper EXCEPT ![k][c.id] = c.from] /\ c.id \in Ids /\ c.from \in Senders
    BY <1>13 DEF Relay
  <2>2. PICK f \in {"open", "lost"} : fate' = [fate EXCEPT ![c] = f]
    BY <1>13 DEF Relay
  <2>3. \A d \in Commands : d.id = c.id => fate[d] = "unsent"
    BY <1>13 DEF Relay
  <2>4. ASSUME NEW j \in Conns, mapper[j][c.id] # None PROVE FALSE
    <3>1. c.id \in Ids
      BY <2>1
    <3>2. PICK d \in Commands : d.id = c.id /\ fate[d] \in {"open", "lost"}
      BY <2>4, <3>1
    <3>3. QED
      BY <2>3, <3>2
  <2>5. IdsOnce' /\ AnswersCorrelate'
    BY <2>2, <2>3
  <2>6. MappedOnce'
    BY <2>1, <2>4
  <2>7. ASSUME NEW j \in Conns, NEW i \in Ids, mapper'[j][i] # None
        PROVE  \E d \in Commands : d.id = i /\ d.from = mapper'[j][i] /\ fate'[d] \in {"open", "lost"}
    <3>1. CASE j = k /\ i = c.id
      <4> HIDE DEF Commands
      <4>1. mapper'[j][i] = c.from
        BY <2>1, <3>1
      <4>2. fate'[c] = f
        BY <2>2
      <4>3. QED
        BY <3>1, <4>1, <4>2
    <3>2. CASE ~(j = k /\ i = c.id)
      <4>1. mapper'[j][i] = mapper[j][i]
        BY <2>1, <3>2
      <4>2. PICK d \in Commands : d.id = i /\ d.from = mapper[j][i] /\ fate[d] \in {"open", "lost"}
        BY <2>7, <4>1
      <4>3. QED
        BY <2>2, <4>1, <4>2
    <3>3. QED
      BY <3>1, <3>2
  <2>8. QED
    BY <2>5, <2>6, <2>7
<1>14. ASSUME NEW k \in Conns, NEW c \in Commands, Answer(k, c) PROVE RelayInv'
  <2> DEFINE p == proxyOf[name[k]]
  <2>1. p \in Conns /\ mapper[p][c.id] # None /\ c.id \in Ids /\ fate[c] \in {"open", "answered"}
    BY <1>14 DEF Answer
  <2>2. mapper' = [mapper EXCEPT ![p][c.id] = None]
    BY <1>14 DEF Answer
  <2>3. fate' = [fate EXCEPT ![c] = Forwarded(c, mapper[p][c.id])]
    BY <1>14 DEF Answer
  <2> HIDE DEF p
  <2>4. c.from = mapper[p][c.id] /\ fate[c] = "open"
    <3>1. PICK d \in Commands : d.id = c.id /\ d.from = mapper[p][c.id] /\ fate[d] \in {"open", "lost"}
      BY <2>1
    <3>2. d = c
      BY <2>1, <3>1
    <3>3. QED
      BY <2>1, <3>1, <3>2
  <2>5. fate' = [fate EXCEPT ![c] = "answered"]
    BY <2>3, <2>4
  <2>6. IdsOnce' /\ AnswersCorrelate'
    BY <2>4, <2>5
  <2>7. MappedOnce'
    BY <2>1, <2>2
  <2>8. ASSUME NEW j \in Conns, NEW i \in Ids, mapper'[j][i] # None
        PROVE  \E d \in Commands : d.id = i /\ d.from = mapper'[j][i] /\ fate'[d] \in {"open", "lost"}
    <3>1. mapper'[j][i] = mapper[j][i] /\ (j = p => i # c.id)
      BY <2>1, <2>2, <2>8
    <3>2. i # c.id
      BY <2>1, <2>8, <3>1
    <3>3. PICK d \in Commands : d.id = i /\ d.from = mapper[j][i] /\ fate[d] \in {"open", "lost"}
      BY <2>8, <3>1
    <3>4. QED
      BY <2>5, <3>1, <3>2, <3>3
  <2>9. QED
    BY <2>6, <2>7, <2>8
<1>15. ASSUME NEW k \in Conns, NEW i \in Ids, Expire(k, i) PROVE RelayInv'
  BY <1>15 DEF Expire
<1>16. CASE Crash
  BY <1>16 DEF Crash
<1>17. CASE Restart
  BY <1>17 DEF Restart
<1>18. CASE UNCHANGED vars
  BY <1>18 DEF vars
<1>19. QED
  BY <1>1, <1>2, <1>3, <1>4, <1>5, <1>6, <1>7, <1>8, <1>9, <1>10, <1>11, <1>11a, <1>11b, <1>11c, <1>12,
     <1>13, <1>14, <1>15, <1>16, <1>17, <1>18 DEF Next, Plugin, Amqtt

\* The answer to a command from Ecovacs goes to its sender, once: the request
\* mapper of ProxyClient, which on_broker_message_received() pops.
THEOREM AnswersGoBack == Spec => []AnswersCorrelate
<1>1. RelayInv => AnswersCorrelate
  BY DEF RelayInv
<1>2. QED
  BY <1>1, BrokerTypes, RelayInit, RelayStep, PTL DEF Spec

-----------------------------------------------------------------------------
(* Broker implements Presence                                               *)

\* Whom a connection that has been reported, and not reported gone, stands for.
ReportedAs(k, n) == name[k] = n /\ stage[k] \in Reported

LEMMA OnlineIs == Online = [n \in Names |-> {k \in Conns : ReportedAs(k, n)}]
BY DEF Online, Named, ReportedAs, Reported

LEMMA OnlineNext == Online' = [n \in Names |-> {k \in Conns : ReportedAs(k, n)'}]
BY DEF Online, Named, ReportedAs, Reported

LEMMA OnlineKept ==
  ASSUME \A k \in Conns, n \in Names : ReportedAs(k, n)' <=> ReportedAs(k, n)
  PROVE  Online' = Online
<1>1. \A n \in Names : {k \in Conns : ReportedAs(k, n)'} = {k \in Conns : ReportedAs(k, n)}
  OBVIOUS
<1>2. Online' = [n \in Names |-> {k \in Conns : ReportedAs(k, n)'}]
  BY OnlineNext
<1>3. QED
  BY <1>1, <1>2, OnlineIs

LEMMA OnlineLess ==
  ASSUME NEW s \in Conns, NEW m \in Names, ReportedAs(s, m),
         \A k \in Conns, n \in Names : ReportedAs(k, n)' <=> ReportedAs(k, n) /\ k # s
  PROVE  Online' = [Online EXCEPT ![m] = @ \ {s}]
<1>1. \A n \in Names : ReportedAs(s, n) => n = m
  BY DEF ReportedAs
<1>2. \A n \in Names : n # m => {k \in Conns : ReportedAs(k, n)'} = {k \in Conns : ReportedAs(k, n)}
  BY <1>1
<1>3. {k \in Conns : ReportedAs(k, m)'} = {k \in Conns : ReportedAs(k, m)} \ {s}
  OBVIOUS
<1>4. Online' = [n \in Names |-> {k \in Conns : ReportedAs(k, n)'}]
  BY OnlineNext
<1>5. QED
  BY <1>2, <1>3, <1>4, OnlineIs

LEMMA OnlineMore ==
  ASSUME NEW s \in Conns, NEW m \in Names,
         \A k \in Conns, n \in Names : ReportedAs(k, n)' <=> ReportedAs(k, n) \/ (k = s /\ n = m)
  PROVE  Online' = [Online EXCEPT ![m] = @ \cup {s}]
<1>1. \A n \in Names : n # m => {k \in Conns : ReportedAs(k, n)'} = {k \in Conns : ReportedAs(k, n)}
  OBVIOUS
<1>2. {k \in Conns : ReportedAs(k, m)'} = {k \in Conns : ReportedAs(k, m)} \cup {s}
  OBVIOUS
<1>3. Online' = [n \in Names |-> {k \in Conns : ReportedAs(k, n)'}]
  BY OnlineNext
<1>4. QED
  BY <1>1, <1>2, <1>3, OnlineIs

LEMMA PresenceInit == Init => Abstract!Init
<1> SUFFICES ASSUME Init PROVE Abstract!Init
  OBVIOUS
<1>1. \A n \in Names : {k \in Conns : ReportedAs(k, n)} = {}
  BY DEF Init, ReportedAs, Reported
<1>2. Online = [n \in Names |-> {}]
  BY <1>1, OnlineIs
<1>3. Visible \in [Names -> {"none", "down"}]
  BY DEF Init, Visible
<1>4. QED
  BY <1>2, <1>3 DEF Abstract!Init

LEMMA PresenceStep ==
  ASSUME TypeOK, HasName, DeadIsFree, [Next]_vars
  PROVE  [Abstract!Next]_(Abstract!presenceVars)
<1> DEFINE Goal == [Abstract!Next]_(Abstract!presenceVars)
<1> USE DEF TypeOK, HasName, DeadIsFree, Stages, connVars, recordVars, proxyVars, relayVars
<1>0. (Visible' = Visible /\ Online' = Online) => Goal
  BY DEF Abstract!presenceVars
<1> HIDE DEF Goal
<1>1. ASSUME NEW k \in Conns, NEW n \in Names, Authenticate(k, n) \/ AuthenticateProxied(k, n)
      PROVE Goal
  <2>1. running /\ running' /\ Free(k) /\ \E where \in {"resolving", "accepted"} : Enter(k, n, where)
    BY <1>1 DEF Authenticate, AuthenticateProxied
  <2>2. Online' = Online
    BY <2>1, OnlineKept DEF ReportedAs, Reported, Free, Enter
  <2>3. CASE flag[n] = "none"
    <3>1. Visible[n] = "none" /\ Visible' = [Visible EXCEPT ![n] = "down"]
      BY <2>1, <2>3 DEF Visible, Enter
    <3>2. QED
      BY <2>2, <3>1 DEF Goal, Abstract!Next, Abstract!Register
  <2>4. CASE flag[n] # "none"
    BY <2>1, <2>2, <2>4, <1>0 DEF Visible, Enter
  <2>5. QED
    BY <2>3, <2>4
<1>2. ASSUME NEW k \in Conns,
             \/ StoreProxy(k) \/ ProxyConnected(k) \/ Refused(k) \/ PopProxy(k) \/ ProxyFails(k)
             \/ Amqtt(k)
      PROVE Goal
  <2>1. Online' = Online
    BY <1>2, OnlineKept
       DEF ReportedAs, Reported, StoreProxy, ProxyConnected, Refused, PopProxy, ProxyFails,
           Amqtt, Drop, LinkLost, LinkReopened, LinkGivenUp
  <2>2. Visible' = Visible
    BY <1>2 DEF Visible, StoreProxy, ProxyConnected, Refused, PopProxy, ProxyFails,
           Amqtt, Drop, LinkLost, LinkReopened, LinkGivenUp
  <2>3. QED
    BY <1>0, <2>1, <2>2
<1>3. ASSUME NEW k \in Conns, ClientConnected(k) PROVE Goal
  <2>1. running /\ running' /\ name[k] \in Names
    BY <1>3 DEF ClientConnected
  <2>2. Online' = [Online EXCEPT ![name[k]] = @ \cup {k}]
    <3>1. \A j \in Conns, n \in Names :
            ReportedAs(j, n)' <=> ReportedAs(j, n) \/ (j = k /\ n = name[k])
      BY <1>3, <2>1 DEF ClientConnected, ReportedAs, Reported
    <3>2. QED
      BY <2>1, <3>1, OnlineMore
  <2>3. Visible' = [Visible EXCEPT ![name[k]] = IF @ = "none" THEN "none" ELSE "up"]
    BY <1>3, <2>1 DEF ClientConnected, Flagged, Visible
  <2>4. QED
    BY <2>1, <2>2, <2>3 DEF Goal, Abstract!Next, Abstract!ReportIn, Abstract!Put
<1>4. ASSUME NEW k \in Conns, ClientDisconnected(k) \/ ProxyDisconnected(k) PROVE Goal
  <2>1. /\ running /\ running' /\ name[k] \in Names /\ name' = name
        /\ stage[k] \in {"gone", "leaving"} /\ Lower(k)
    BY <1>4 DEF ClientDisconnected, ProxyDisconnected, Lower
  <2>2. Online' = [Online EXCEPT ![name[k]] = @ \ {k}]
    <3>1. \A j \in Conns, n \in Names : ReportedAs(j, n)' <=> ReportedAs(j, n) /\ j # k
      BY <2>1 DEF Lower, ReportedAs, Reported
    <3>2. ReportedAs(k, name[k])
      BY <2>1 DEF ReportedAs, Reported
    <3>3. QED
      BY <2>1, <3>1, <3>2, OnlineLess
  <2>3. Visible' = [Visible EXCEPT ![name[k]] = IF @ = "none" THEN "none" ELSE "down"]
    BY <2>1 DEF Lower, Flagged, Visible
  <2>4. QED
    BY <2>1, <2>2, <2>3 DEF Goal, Abstract!Next, Abstract!ReportOut, Abstract!Put
<1>5. ASSUME NEW n \in Names, RemoveRecord(n) PROVE Goal
  <2>1. Online' = Online
    BY <1>5, OnlineKept DEF ReportedAs, RemoveRecord
  <2>2. Visible' = [Visible EXCEPT ![n] = "none"]
    BY <1>5 DEF RemoveRecord, Visible
  <2>3. QED
    BY <2>1, <2>2 DEF Goal, Abstract!Next, Abstract!Forget
<1>6. ASSUME NEW k \in Conns, NEW c \in Commands, Relay(k, c) \/ Answer(k, c) PROVE Goal
  <2>1. UNCHANGED <<running, stage, name, flag>>
    BY <1>6 DEF Relay, Answer
  <2>2. QED
    BY <1>0, <2>1, OnlineKept DEF ReportedAs, Visible
<1>7. ASSUME NEW k \in Conns, NEW i \in Ids, Expire(k, i) PROVE Goal
  <2>1. UNCHANGED <<running, stage, name, flag>>
    BY <1>7 DEF Expire
  <2>2. QED
    BY <1>0, <2>1, OnlineKept DEF ReportedAs, Visible
<1>8. ASSUME Crash PROVE Goal
  <2>1. Online' = [n \in Names |-> {}]
    <3>1. \A n \in Names : {k \in Conns : ReportedAs(k, n)'} = {}
      BY <1>8 DEF Crash, ReportedAs, Reported
    <3>2. Online' = [n \in Names |-> {k \in Conns : ReportedAs(k, n)'}]
      BY OnlineNext
    <3>3. QED
      BY <3>1, <3>2
  <2>2. Visible' = [n \in Names |-> IF Visible[n] = "none" THEN "none" ELSE "down"]
    BY <1>8 DEF Crash, Visible
  <2>3. QED
    BY <2>1, <2>2 DEF Goal, Abstract!Next, Abstract!AllOut, Abstract!Put
<1>9. ASSUME Restart PROVE Goal
  <2>1. Online' = Online
    BY <1>9, OnlineKept DEF Restart, ReportedAs
  <2>2. Visible' = Visible
    BY <1>9 DEF Restart, Visible
  <2>3. QED
    BY <1>0, <2>1, <2>2
<1>10. ASSUME UNCHANGED vars PROVE Goal
  BY <1>0, <1>10, OnlineKept DEF vars, ReportedAs, Visible
<1>11. QED
  <2>1. Goal
    BY <1>1, <1>2, <1>3, <1>4, <1>5, <1>6, <1>7, <1>8, <1>9, <1>10 DEF Next, Plugin, Amqtt
  <2>2. QED
    BY <2>1 DEF Goal

\* The MQTT side of the records does what Presence says: on_broker_client_connected
\* reports in, on_broker_client_disconnected reports out, and a crash with the
\* reset that follows it takes everybody out.
THEOREM BrokerImplementsPresence == Spec => ImplementsPresence
<1>1. Spec => [](TypeOK /\ HasName)
  BY BrokerTypes
<1>2. Spec => []FlagInv
  BY BrokerTypes, FlagInit, FlagStep, PTL DEF Spec
<1>3. FlagInv => DeadIsFree
  BY DEF FlagInv
<1>4. Init => Abstract!Init
  BY PresenceInit
<1>5. TypeOK /\ HasName /\ DeadIsFree /\ [Next]_vars => [Abstract!Next]_(Abstract!presenceVars)
  BY PresenceStep
<1>6. QED
  BY <1>1, <1>2, <1>3, <1>4, <1>5, PTL DEF Spec, ImplementsPresence, Abstract!Spec
=============================================================================
