----------------------------- MODULE XmppProof -----------------------------
(***************************************************************************)
(* Theorems about XmppSession for any number of connections, bots, users    *)
(* and resources.                                                           *)
(***************************************************************************)
EXTENDS XmppSession, TLAPS

-----------------------------------------------------------------------------
(* Types                                                                    *)

LEMMA TypesInit == Init => TypeOK
BY OrphansAssumption DEF Init, TypeOK, IDLE, DISCONNECT

LEMMA TypesStep ==
  ASSUME TypeOK, [Next]_vars
  PROVE  TypeOK'
<1> USE OrphansAssumption, ResourcesAssumption
    DEF TypeOK, IDLE, CONNECT, INIT, BIND, READY, DISCONNECT, Named, Quiet, Parses,
        sessionVars, taskVars, recordVars
<1>1. ASSUME NEW s \in Sessions, Accept(s) PROVE TypeOK'
  BY <1>1 DEF Accept
<1>2. ASSUME NEW s \in Sessions, ConnectionLost(s) PROVE TypeOK'
  BY <1>2 DEF ConnectionLost, Disconnect, Cleanup, Lower, Flagged
<1>3. ASSUME NEW s \in Sessions, PingEnds(s) PROVE TypeOK'
  <2>1. ping' \in [Sessions -> BOOLEAN] /\ UNCHANGED <<server, sessionVars, recordVars>>
    BY <1>3 DEF PingEnds
  <2>2. orphans' \in [Sessions -> 0 .. MaxOrphans]
    <3>1. CASE orphans' = orphans
      BY <3>1
    <3>2. CASE orphans[s] > 0 /\ orphans' = [orphans EXCEPT ![s] = orphans[s] - 1]
      <4>1. orphans[s] - 1 \in 0 .. MaxOrphans
        BY <3>2
      <4>2. QED
        BY <3>2, <4>1
    <3>3. QED
      BY <1>3, <3>1, <3>2 DEF PingEnds
  <2>3. QED
    BY <2>1, <2>2
<1>4. ASSUME NEW s \in Sessions, Stream(s) PROVE TypeOK'
  BY <1>4 DEF Stream
<1>5. ASSUME NEW s \in Sessions, StartTls(s) PROVE TypeOK'
  BY <1>5 DEF StartTls
<1>6. ASSUME NEW s \in Sessions, Bind(s) PROVE TypeOK'
  BY <1>6 DEF Bind, NewJid, SetState, Flagged
<1>7. ASSUME NEW s \in Sessions, Session(s) PROVE TypeOK'
  BY <1>7 DEF Session, SetState
<1>8. ASSUME NEW s \in Sessions, Leave(s) PROVE TypeOK'
  BY <1>8 DEF Leave, Disconnect, Cleanup, Lower, Flagged
<1>9. ASSUME NEW s \in Sessions, NEW n \in Names, Auth(s, n) PROVE TypeOK'
  BY <1>9 DEF Auth, SetState
<1>10. ASSUME NEW n \in Names, RemoveRecord(n) PROVE TypeOK'
  BY <1>10 DEF RemoveRecord
<1>11. ASSUME ServerDisconnect PROVE TypeOK'
  BY <1>11 DEF ServerDisconnect
<1>12. ASSUME ServerStart PROVE TypeOK'
  BY <1>12 DEF ServerStart
<1>13. ASSUME Crash PROVE TypeOK'
  BY <1>13 DEF Crash
<1>14. ASSUME Restart PROVE TypeOK'
  BY <1>14 DEF Restart
<1>15. ASSUME UNCHANGED vars PROVE TypeOK'
  BY <1>15 DEF vars
<1>16. QED
  BY <1>1, <1>2, <1>3, <1>4, <1>5, <1>6, <1>7, <1>8, <1>9, <1>10, <1>11, <1>12, <1>13, <1>14,
     <1>15 DEF Next, Stanza

\* Every step keeps the types of what the server keeps of its sessions.
THEOREM SessionTypes == Safety => []TypeOK
BY TypesInit, TypesStep, PTL DEF Safety

-----------------------------------------------------------------------------
(* Flags                                                                    *)

\* The process takes its connections with it.
CrashedIsEmpty == server = "crashed" => \A s \in Sessions : ~listed[s]

\* A peer has authenticated before it binds.
BoundHasName == \A s \in Sessions : listed[s] /\ Bound(s) => uid[s] \in Names

\* Of a peer that has authenticated the record exists, unless it was removed.
NameHasRecord ==
  \A s \in Sessions :
    listed[s] /\ uid[s] # NoName /\ ~closing[s] /\ s \notin overtaken => flag[uid[s]] # "none"

FlagInv == CrashedIsEmpty /\ BoundHasName /\ NameHasRecord /\ NoStaleUp /\ BoundIsUp

LEMMA FlagInit == Init => FlagInv
BY DEF Init, FlagInv, CrashedIsEmpty, BoundHasName, NameHasRecord, NoStaleUp, BoundIsUp

LEMMA FlagStep ==
  ASSUME TypeOK, FlagInv, [Next]_vars
  PROVE  FlagInv'
<1> USE NamesAssumption, ResourcesAssumption
    DEF FlagInv, CrashedIsEmpty, BoundHasName, NameHasRecord, NoStaleUp, BoundIsUp,
        TypeOK, Named, Bound, Parses, sessionVars, taskVars, recordVars
<1>1. ASSUME NEW s \in Sessions, Accept(s) PROVE FlagInv'
  BY <1>1 DEF Accept
<1>2. ASSUME NEW s \in Sessions, ConnectionLost(s) PROVE FlagInv'
  BY <1>2 DEF ConnectionLost, Disconnect, Cleanup, Lower, Flagged
<1>3. ASSUME NEW s \in Sessions, PingEnds(s) PROVE FlagInv'
  BY <1>3 DEF PingEnds
<1>4. ASSUME NEW s \in Sessions, Stream(s) PROVE FlagInv'
  BY <1>4 DEF Stream
<1>5. ASSUME NEW s \in Sessions, StartTls(s) PROVE FlagInv'
  BY <1>5 DEF StartTls
<1>6. ASSUME NEW s \in Sessions, Bind(s) PROVE FlagInv'
  BY <1>6 DEF Bind, NewJid, SetState, Flagged
<1>7. ASSUME NEW s \in Sessions, Session(s) PROVE FlagInv'
  BY <1>7 DEF Session, SetState
<1>8. ASSUME NEW s \in Sessions, Leave(s) PROVE FlagInv'
  BY <1>8 DEF Leave, Disconnect, Cleanup, Lower, Flagged
<1>9. ASSUME NEW s \in Sessions, NEW n \in Names, Auth(s, n) PROVE FlagInv'
  BY <1>9 DEF Auth, SetState
<1>10. ASSUME NEW n \in Names, RemoveRecord(n) PROVE FlagInv'
  BY <1>10 DEF RemoveRecord
<1>11. ASSUME ServerDisconnect PROVE FlagInv'
  BY <1>11 DEF ServerDisconnect
<1>12. ASSUME ServerStart PROVE FlagInv'
  BY <1>12 DEF ServerStart
<1>13. ASSUME Crash PROVE FlagInv'
  BY <1>13 DEF Crash
<1>14. ASSUME Restart PROVE FlagInv'
  BY <1>14 DEF Restart
<1>15. ASSUME UNCHANGED vars PROVE FlagInv'
  BY <1>15 DEF vars
<1>16. QED
  BY <1>1, <1>2, <1>3, <1>4, <1>5, <1>6, <1>7, <1>8, <1>9, <1>10, <1>11, <1>12, <1>13, <1>14,
     <1>15 DEF Next, Stanza

\* The flag of a bound connection is up until a namesake ends or the record
\* goes: set_xmpp() in bind and disconnect(), and the reset at the start.
THEOREM FlagsFollow == Safety => []BoundIsUp
<1>1. FlagInv => BoundIsUp
  BY DEF FlagInv
<1>2. QED
  BY <1>1, SessionTypes, FlagInit, FlagStep, PTL DEF Safety

\* A flag that is up is of a connection that has bound under that name and has
\* not ended: neither a disconnect() nor a crash leaves one up for nobody once
\* the server runs.
THEOREM NobodyUpForNothing == Safety => []NoStaleUp
<1>1. FlagInv => NoStaleUp
  BY DEF FlagInv
<1>2. QED
  BY <1>1, SessionTypes, FlagInit, FlagStep, PTL DEF Safety

-----------------------------------------------------------------------------
(* Routing                                                                  *)

\* _handle_ctl() and _handle_result() are made for each other: an id is in
\* itself, so the address that a bot answers to matches the controller, and a
\* controller that has not bound is reached as everybody is.
THEOREM AnswersReach == Safety => []AnswerReaches
<1>1. AnswerReaches
  <2>1. SUFFICES ASSUME NEW c \in Sessions, NEW b \in Sessions, listed[c], state[c] = READY,
                        \E to \in Names : b \in CtlReceivers(c, to)
                 PROVE  c \in ResultReceivers(b, ReplyTo(c), 0)
    BY DEF AnswerReaches
  <2>2. c \in Others(b)
    BY <2>1 DEF CtlReceivers, Others
  <2>3. Matches(c, ReplyTo(c))
    BY NamesAssumption, WithinAssumption DEF Matches, ReplyTo
  <2>4. QED
    BY <2>2, <2>3 DEF ResultReceivers
<1>2. QED
  BY <1>1, PTL DEF Safety

-----------------------------------------------------------------------------
(* XmppSession implements Presence                                          *)

\* Whom a listed connection has bound for.
BoundAs(s, n) == listed[s] /\ uid[s] = n /\ Bound(s)

LEMMA OnlineIs == Online = [n \in Names |-> {s \in Sessions : BoundAs(s, n)}]
BY DEF Online, Named, BoundAs

LEMMA OnlineNext == Online' = [n \in Names |-> {s \in Sessions : BoundAs(s, n)'}]
BY DEF Online, Named, BoundAs, Bound

LEMMA OnlineKept ==
  ASSUME \A s \in Sessions, n \in Names : BoundAs(s, n)' <=> BoundAs(s, n)
  PROVE  Online' = Online
<1>1. \A n \in Names : {s \in Sessions : BoundAs(s, n)'} = {s \in Sessions : BoundAs(s, n)}
  OBVIOUS
<1>2. QED
  BY <1>1, OnlineIs, OnlineNext

LEMMA OnlineLess ==
  ASSUME NEW k \in Sessions, NEW m \in Names, uid[k] = m,
         \A s \in Sessions, n \in Names : BoundAs(s, n)' <=> BoundAs(s, n) /\ s # k
  PROVE  Online' = [Online EXCEPT ![m] = @ \ {k}]
<1>1. \A n \in Names : BoundAs(k, n) => n = m
  BY DEF BoundAs
<1>2. \A n \in Names : n # m => {s \in Sessions : BoundAs(s, n)'} = {s \in Sessions : BoundAs(s, n)}
  BY <1>1
<1>3. {s \in Sessions : BoundAs(s, m)'} = {s \in Sessions : BoundAs(s, m)} \ {k}
  OBVIOUS
<1>4. QED
  BY <1>2, <1>3, OnlineIs, OnlineNext

LEMMA OnlineMore ==
  ASSUME NEW k \in Sessions, NEW m \in Names,
         \A s \in Sessions, n \in Names : BoundAs(s, n)' <=> BoundAs(s, n) \/ (s = k /\ n = m)
  PROVE  Online' = [Online EXCEPT ![m] = @ \cup {k}]
<1>1. \A n \in Names : n # m => {s \in Sessions : BoundAs(s, n)'} = {s \in Sessions : BoundAs(s, n)}
  OBVIOUS
<1>2. {s \in Sessions : BoundAs(s, m)'} = {s \in Sessions : BoundAs(s, m)} \cup {k}
  OBVIOUS
<1>3. QED
  BY <1>1, <1>2, OnlineIs, OnlineNext

LEMMA PresenceInit == Init => Abstract!Init
<1> SUFFICES ASSUME Init PROVE Abstract!Init
  OBVIOUS
<1>1. \A n \in Names : {s \in Sessions : BoundAs(s, n)} = {}
  BY DEF Init, BoundAs
<1>2. Online = [n \in Names |-> {}]
  BY <1>1, OnlineIs
<1>3. Visible \in [Names -> {"none", "down"}]
  BY DEF Init, Visible
<1>4. QED
  BY <1>2, <1>3 DEF Abstract!Init

LEMMA PresenceStep ==
  ASSUME TypeOK, FlagInv, [Next]_vars
  PROVE  [Abstract!Next]_(Abstract!presenceVars)
<1> DEFINE Goal == [Abstract!Next]_(Abstract!presenceVars)
<1> USE NamesAssumption, ResourcesAssumption
    DEF TypeOK, FlagInv, CrashedIsEmpty, sessionVars, taskVars, recordVars, Parses
<1>0. (Visible' = Visible /\ Online' = Online) => Goal
  BY DEF Abstract!presenceVars
<1> HIDE DEF Goal
<1>1. ASSUME NEW s \in Sessions,
             Accept(s) \/ PingEnds(s) \/ Stream(s) \/ StartTls(s) \/ Session(s)
      PROVE Goal
  <2>1. Online' = Online
    BY <1>1, OnlineKept DEF BoundAs, Bound, Accept, PingEnds, Stream, StartTls, Session
  <2>2. Visible' = Visible
    BY <1>1 DEF Visible, Accept, PingEnds, Stream, StartTls, Session
  <2>3. QED
    BY <1>0, <2>1, <2>2
<1>2. ASSUME NEW s \in Sessions, NEW n \in Names, Auth(s, n) PROVE Goal
  <2>1. Online' = Online
    <3>1. uid[s] # n => ~Bound(s)
      BY <1>2 DEF Auth, BoundHasName
    <3>2. QED
      BY <1>2, <3>1, OnlineKept DEF BoundAs, Bound, Auth
  <2>2. CASE flag[n] = "none"
    <3>1. Visible[n] = "none" /\ Visible' = [Visible EXCEPT ![n] = "down"]
      BY <1>2, <2>2 DEF Visible, Auth
    <3>2. QED
      BY <2>1, <3>1 DEF Goal, Abstract!Next, Abstract!Register
  <2>3. CASE flag[n] # "none"
    BY <1>0, <1>2, <2>1, <2>3 DEF Visible, Auth
  <2>4. QED
    BY <2>2, <2>3
<1>3. ASSUME NEW s \in Sessions, Bind(s) PROVE Goal
  <2>1. server # "crashed" /\ server' = server /\ uid[s] \in Names
    BY <1>3 DEF Bind
  <2>2. Online' = [Online EXCEPT ![uid[s]] = @ \cup {s}]
    <3>1. \A j \in Sessions, n \in Names :
            BoundAs(j, n)' <=> BoundAs(j, n) \/ (j = s /\ n = uid[s])
      BY <1>3, <2>1 DEF Bind, NewJid, BoundAs, Bound
    <3>2. QED
      BY <2>1, <3>1, OnlineMore
  <2>3. Visible' = [Visible EXCEPT ![uid[s]] = IF @ = "none" THEN "none" ELSE "up"]
    BY <1>3, <2>1 DEF Bind, Flagged, Visible
  <2>4. QED
    BY <2>1, <2>2, <2>3 DEF Goal, Abstract!Next, Abstract!ReportIn, Abstract!Put
<1>4. ASSUME NEW s \in Sessions, ConnectionLost(s) PROVE Goal
  <2>1. server # "crashed" /\ server' = server /\ Lower(s) /\ uid[s] \in Names \cup {NoName}
    BY <1>4 DEF ConnectionLost, Disconnect
  <2>2. \A j \in Sessions, n \in Names : BoundAs(j, n)' <=> BoundAs(j, n) /\ j # s
    BY <1>4 DEF ConnectionLost, BoundAs, Bound
  <2>3. CASE uid[s] = NoName
    <3>1. Online' = Online
      BY <2>2, <2>3, OnlineKept DEF BoundAs
    <3>2. QED
      BY <1>0, <2>1, <2>3, <3>1 DEF Lower, Visible
  <2>4. CASE uid[s] # NoName
    <3>1. Online' = [Online EXCEPT ![uid[s]] = @ \ {s}]
      BY <2>1, <2>2, <2>4, OnlineLess
    <3>2. Visible' = [Visible EXCEPT ![uid[s]] = IF @ = "none" THEN "none" ELSE "down"]
      BY <2>1, <2>4 DEF Lower, Flagged, Visible
    <3>3. QED
      BY <2>1, <2>4, <3>1, <3>2 DEF Goal, Abstract!Next, Abstract!ReportOut, Abstract!Put
  <2>5. QED
    BY <2>3, <2>4
<1>5. ASSUME NEW s \in Sessions, Leave(s) PROVE Goal
  <2>1. server # "crashed" /\ server' = server /\ Lower(s) /\ uid[s] \in Names \cup {NoName}
    BY <1>5 DEF Leave, Disconnect
  <2>2. Online' = Online
    BY <1>5, OnlineKept DEF Leave, BoundAs, Bound
  <2>3. CASE uid[s] = NoName
    BY <1>0, <2>1, <2>2, <2>3 DEF Lower, Visible
  <2>4. CASE uid[s] # NoName
    <3>1. Visible' = [Visible EXCEPT ![uid[s]] = IF @ = "none" THEN "none" ELSE "down"]
      BY <2>1, <2>4 DEF Lower, Flagged, Visible
    <3>2. QED
      BY <2>1, <2>2, <2>4, <3>1 DEF Goal, Abstract!Next, Abstract!ReportOut, Abstract!Put
  <2>5. QED
    BY <2>3, <2>4
<1>6. ASSUME NEW n \in Names, RemoveRecord(n) PROVE Goal
  <2>1. Online' = Online
    BY <1>6, OnlineKept DEF BoundAs, Bound, RemoveRecord
  <2>2. Visible' = [Visible EXCEPT ![n] = "none"]
    BY <1>6 DEF RemoveRecord, Visible
  <2>3. QED
    BY <2>1, <2>2 DEF Goal, Abstract!Next, Abstract!Forget
<1>7. ASSUME ServerDisconnect PROVE Goal
  <2>1. Online' = Online
    BY <1>7, OnlineKept DEF BoundAs, Bound, ServerDisconnect
  <2>2. \A n \in Names : flag[n] = "up" => Named(n) # {}
    BY <1>7 DEF ServerDisconnect, NoStaleUp
  <2>3. Visible' = [n \in Names |-> IF Visible[n] = "none" THEN "none" ELSE "down"]
    BY <1>7, <2>2 DEF ServerDisconnect, Visible
  <2>4. QED
    BY <2>1, <2>3 DEF Goal, Abstract!Next, Abstract!AllOut, Abstract!Put
<1>8. ASSUME ServerStart PROVE Goal
  BY <1>0, <1>8, OnlineKept DEF ServerStart, BoundAs, Bound, Visible
<1>9. ASSUME Crash PROVE Goal
  <2>1. Online' = [n \in Names |-> {}]
    <3>1. \A n \in Names : {s \in Sessions : BoundAs(s, n)'} = {}
      BY <1>9 DEF Crash, BoundAs
    <3>2. QED
      BY <3>1, OnlineNext
  <2>2. Visible' = [n \in Names |-> IF Visible[n] = "none" THEN "none" ELSE "down"]
    BY <1>9 DEF Crash, Visible
  <2>3. QED
    BY <2>1, <2>2 DEF Goal, Abstract!Next, Abstract!AllOut, Abstract!Put
<1>10. ASSUME Restart PROVE Goal
  <2>1. Online' = Online
    BY <1>10, OnlineKept DEF Restart, BoundAs, Bound
  <2>2. Visible' = Visible
    BY <1>10 DEF Restart, Visible
  <2>3. QED
    BY <1>0, <2>1, <2>2
<1>11. ASSUME UNCHANGED vars PROVE Goal
  BY <1>0, <1>11, OnlineKept DEF vars, BoundAs, Bound, Visible
<1>12. QED
  <2>1. Goal
    BY <1>1, <1>2, <1>3, <1>4, <1>5, <1>6, <1>7, <1>8, <1>9, <1>10, <1>11 DEF Next, Stanza
  <2>2. QED
    BY <2>1 DEF Goal

\* The XMPP side of the records does what Presence says: a bind reports in, the
\* end of a connection reports out, and a stop of the server takes everybody out.
THEOREM XmppImplementsPresence == Safety => ImplementsPresence
<1>1. Safety => []FlagInv
  BY SessionTypes, FlagInit, FlagStep, PTL DEF Safety
<1>2. Init => Abstract!Init
  BY PresenceInit
<1>3. TypeOK /\ FlagInv /\ [Next]_vars => [Abstract!Next]_(Abstract!presenceVars)
  BY PresenceStep
<1>4. QED
  BY <1>1, <1>2, <1>3, SessionTypes, PTL DEF Safety, ImplementsPresence, Abstract!Spec

\* What the specification says of the flags of either server.
AbstractTypes ==
  /\ Visible \in [Names -> {"none", "down", "up"}]
  /\ Online \in [Names -> SUBSET Sessions]

LEMMA PresenceIsBacked ==
  ASSUME AbstractTypes, Abstract!NoStaleUp, [Abstract!Next]_(Abstract!presenceVars)
  PROVE  AbstractTypes' /\ Abstract!NoStaleUp'
<1> HIDE DEF Visible, Online
<1> USE DEF AbstractTypes, Abstract!NoStaleUp, Abstract!Put
<1>1. ASSUME NEW n \in Names, Abstract!Register(n) PROVE AbstractTypes' /\ Abstract!NoStaleUp'
  BY <1>1 DEF Abstract!Register
<1>2. ASSUME NEW n \in Names, Abstract!Forget(n) PROVE AbstractTypes' /\ Abstract!NoStaleUp'
  BY <1>2 DEF Abstract!Forget
<1>3. ASSUME NEW n \in Names, NEW s \in Sessions, Abstract!ReportIn(n, s)
      PROVE  AbstractTypes' /\ Abstract!NoStaleUp'
  BY <1>3 DEF Abstract!ReportIn
<1>4. ASSUME NEW n \in Names, NEW s \in Sessions, Abstract!ReportOut(n, s)
      PROVE  AbstractTypes' /\ Abstract!NoStaleUp'
  BY <1>4 DEF Abstract!ReportOut
<1>5. ASSUME Abstract!AllOut PROVE AbstractTypes' /\ Abstract!NoStaleUp'
  BY <1>5 DEF Abstract!AllOut
<1>6. ASSUME UNCHANGED Abstract!presenceVars PROVE AbstractTypes' /\ Abstract!NoStaleUp'
  BY <1>6 DEF Abstract!presenceVars
<1>7. QED
  BY <1>1, <1>2, <1>3, <1>4, <1>5, <1>6 DEF Abstract!Next

\* A name whose flag is up has a session that reported in and has not left: a
\* consequence of Presence alone, whatever else the server does, and what the device
\* list relies on when it reads the flags.
THEOREM UpIsBacked == ImplementsPresence => []Abstract!NoStaleUp
<1>1. Abstract!Init => AbstractTypes /\ Abstract!NoStaleUp
  BY DEF Abstract!Init, AbstractTypes, Abstract!NoStaleUp
<1>2. AbstractTypes /\ Abstract!NoStaleUp /\ [Abstract!Next]_(Abstract!presenceVars)
        => AbstractTypes' /\ Abstract!NoStaleUp'
  BY PresenceIsBacked
<1>3. QED
  BY <1>1, <1>2, PTL DEF ImplementsPresence, Abstract!Spec
=============================================================================
