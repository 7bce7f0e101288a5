--------------------------- MODULE CleanLogsProof ---------------------------
(***************************************************************************)
(* Theorems about Devices and CleanLogs for any bots, classes, catalogue,   *)
(* cleanings, lengths of the tables and sizes of a page.                    *)
(***************************************************************************)
EXTENDS CleanLogs, FiniteSetTheorems, WellFoundedInduction, TLAPS

-----------------------------------------------------------------------------
(* Sequences                                                                *)

\* Numbers are well-founded: Min is what its name says.
LEMMA MinIsLeast ==
  ASSUME NEW I \in SUBSET Nat, I # {}
  PROVE  Min(I) \in I /\ \A y \in I : Min(I) <= y
<1> DEFINE less == OpToRel(<, Nat)
<1>1. \A x, y \in Nat : x < y => <<x, y>> \in less
  BY DEF OpToRel
<1>2. IsWellFoundedOn(less, Nat)
  BY NatLessThanWellFounded
<1> HIDE DEF less
<1>3. PICK x \in I : \A y \in I : ~(<<y, x>> \in less)
  BY <1>2, WFMin
<1>4. ASSUME NEW y \in I PROVE x <= y
  <2>1. x \in Nat /\ y \in Nat /\ ~(y < x)
    BY <1>1, <1>3
  <2>2. QED
    BY <2>1
<1>5. QED
  BY <1>4 DEF Min

\* What SelectInSeq returns, for the set of places that it chooses from.
LEMMA FirstOf ==
  ASSUME NEW n \in Nat, NEW I \in SUBSET (1 .. n)
  PROVE  LET at == IF I # {} THEN Min(I) ELSE 0
         IN  /\ at = 0 <=> I = {}
             /\ at # 0 => at \in I
<1>1. CASE I = {}
  BY <1>1
<1>2. CASE I # {}
  <2>1. Min(I) \in I
    BY <1>2, MinIsLeast
  <2>2. Min(I) # 0
    BY <2>1
  <2>3. QED
    BY <1>2, <2>1, <2>2
<1>3. QED
  BY <1>1, <1>2

\* RemoveAt closes the gap: what stands where, and what is gone.
LEMMA Removed ==
  ASSUME NEW S, NEW s \in Seq(S), NEW at \in 1 .. Len(s)
  PROVE  /\ RemoveAt(s, at) \in Seq(S)
         /\ Len(RemoveAt(s, at)) = Len(s) - 1
         /\ \A i \in 1 .. Len(s) - 1 :
              RemoveAt(s, at)[i] = s[IF i < at THEN i ELSE i + 1]
<1> DEFINE front == SubSeq(s, 1, at - 1)
           back  == SubSeq(s, at + 1, Len(s))
<1>1. front \in Seq(S) /\ Len(front) = at - 1 /\ \A i \in 1 .. at - 1 : front[i] = s[i]
  OBVIOUS
<1>2. /\ back \in Seq(S) /\ Len(back) = Len(s) - at
      /\ \A i \in 1 .. Len(s) - at : back[i] = s[at + i]
  OBVIOUS
<1>3. RemoveAt(s, at) = front \o back
  BY DEF RemoveAt
<1> HIDE DEF front, back
<1>4. front \o back \in Seq(S) /\ Len(front \o back) = Len(s) - 1
  BY <1>1, <1>2
<1>5. ASSUME NEW i \in 1 .. Len(s) - 1
      PROVE  (front \o back)[i] = s[IF i < at THEN i ELSE i + 1]
  <2>1. CASE i < at
    BY <1>1, <1>2, <2>1
  <2>2. CASE i >= at
    <3>1. (front \o back)[i] = back[i - Len(front)]
      BY <1>1, <1>2, <2>2
    <3>2. i - (at - 1) \in 1 .. Len(s) - at /\ at + (i - (at - 1)) = i + 1
      BY <2>2
    <3>3. QED
      BY <1>1, <1>2, <2>2, <3>1, <3>2
  <2>3. i < at \/ i >= at
    OBVIOUS
  <2>4. QED
    BY <2>1, <2>2, <2>3
<1>6. QED
  BY <1>3, <1>4, <1>5

-----------------------------------------------------------------------------
(* Places of records                                                        *)

LEMMA BotFound ==
  ASSUME DevicesTypeOK, NEW d
  PROVE  /\ BotAt(d) = 0 <=> \A i \in DOMAIN bots : bots[i].did # d
         /\ BotAt(d) # 0 => BotAt(d) \in DOMAIN bots /\ bots[BotAt(d)].did = d
<1> DEFINE I == {i \in 1 .. Len(bots) : bots[i].did = d}
<1>1. BotAt(d) = IF I # {} THEN Min(I) ELSE 0
  BY DEF BotAt, SelectInSeq
<1>2. Len(bots) \in Nat /\ DOMAIN bots = 1 .. Len(bots)
  BY DEF DevicesTypeOK
<1>3. QED
  BY <1>1, <1>2, FirstOf

LEMMA RobotFound ==
  ASSUME DevicesTypeOK, NEW c
  PROVE  /\ RobotByMid(c) = 0 <=> \A i \in DOMAIN robots : robots[i].mid # c
         /\ RobotByGroup(c) # 0 =>
              RobotByGroup(c) \in DOMAIN robots /\ robots[RobotByGroup(c)].group = c
<1> DEFINE I == {i \in 1 .. Len(robots) : robots[i].mid = c}
           J == {i \in 1 .. Len(robots) : robots[i].group = c}
<1>1. RobotByMid(c) = IF I # {} THEN Min(I) ELSE 0
  BY DEF RobotByMid, SelectInSeq
<1>2. RobotByGroup(c) = IF J # {} THEN Min(J) ELSE 0
  BY DEF RobotByGroup, SelectInSeq
<1>3. Len(robots) \in Nat /\ DOMAIN robots = 1 .. Len(robots)
  BY DEF DevicesTypeOK
<1>4. RobotByMid(c) = 0 <=> I = {}
  BY <1>1, <1>3, FirstOf
<1>5. RobotByGroup(c) # 0 => RobotByGroup(c) \in J
  BY <1>2, <1>3, FirstOf
<1>6. QED
  BY <1>3, <1>4, <1>5

-----------------------------------------------------------------------------
(* Bots and catalogue                                                       *)

\* A bot has one record at most; documents without an id may be many.
OneRecord ==
  \A i, j \in DOMAIN bots : bots[i].did = bots[j].did /\ bots[i].did # NoDid => i = j

\* A robot that was sent as a guide keeps the class it got: it has lost its
\* groupName, by which alone it could be taken again.
GuideKept ==
  \A c \in guided : \E i \in DOMAIN robots : robots[i].mid = c /\ robots[i].group = NoValue

DeviceInv == DevicesTypeOK /\ OneRecord /\ GuideKept

LEMMA DeviceInvInit == DevicesInit => DeviceInv
BY RobotsAssumption DEF DevicesInit, DeviceInv, DevicesTypeOK, OneRecord, GuideKept

LEMMA DeviceInvStep ==
  ASSUME DeviceInv, [DevicesNext]_deviceVars
  PROVE  DeviceInv'
<1> USE DEF DeviceInv, DevicesTypeOK
<1>1. ASSUME NEW d \in Dids, NEW c \in Classes, NEW company \in Companies, Add(d, c, company)
      PROVE  DeviceInv'
  <2>1. CASE BotAt(d) # 0
    BY <1>1, <2>1 DEF Add, OneRecord, GuideKept
  <2>2. CASE BotAt(d) = 0
    <3>1. bots' = Append(bots, VacBotDevice(d, c, company))
      BY <1>1, <2>2 DEF Add
    <3>2. \A i \in DOMAIN bots : bots[i].did # d
      BY <2>2, BotFound
    <3>3. DevicesTypeOK'
      BY <1>1, <3>1 DEF Add, VacBotDevice
    <3>4. OneRecord'
      BY <3>1, <3>2 DEF OneRecord, VacBotDevice
    <3>5. QED
      BY <1>1, <3>3, <3>4 DEF Add, GuideKept
  <2>3. QED
    BY <2>1, <2>2
<1>2. ASSUME NEW d \in Dids, SetNick(d) PROVE DeviceInv'
  <2>1. CASE BotAt(d) # 0
    BY <1>2, <2>1 DEF SetNick, OneRecord, GuideKept
  <2>2. CASE BotAt(d) = 0
    <3>1. bots' = Append(bots, Nameless)
      BY <1>2, <2>2 DEF SetNick
    <3>2. DevicesTypeOK'
      BY <1>2, <3>1 DEF SetNick
    <3>3. OneRecord'
      BY <3>1 DEF OneRecord, Nameless, VacBotDevice
    <3>4. QED
      BY <1>2, <3>2, <3>3 DEF SetNick, GuideKept
  <2>3. QED
    BY <2>1, <2>2
<1>3. ASSUME NEW d \in Dids, DeleteOneDevice(d) PROVE DeviceInv'
  <2>1. CASE BotAt(d) = 0
    BY <1>3, <2>1 DEF DeleteOneDevice, OneRecord, GuideKept
  <2>2. CASE BotAt(d) # 0
    <3>1. BotAt(d) \in 1 .. Len(bots)
      BY <2>2, BotFound
    <3> DEFINE at == BotAt(d)
    <3>2. bots' = RemoveAt(bots, at)
      BY <1>3, <2>2 DEF DeleteOneDevice
    <3> HIDE DEF at
    <3>3. at \in 1 .. Len(bots)
      BY <3>1 DEF at
    <3>4. /\ bots' \in Seq([did : Dids, class : Classes, company : Companies] \cup {Nameless})
          /\ Len(bots') = Len(bots) - 1
          /\ \A i \in 1 .. Len(bots) - 1 : bots'[i] = bots[IF i < at THEN i ELSE i + 1]
      BY <3>2, <3>3, Removed
    <3>5. DevicesTypeOK'
      BY <1>3, <3>4 DEF DeleteOneDevice
    <3> DEFINE old(i) == IF i < at THEN i ELSE i + 1
    <3>6. ASSUME NEW i \in DOMAIN bots', NEW j \in DOMAIN bots',
                 bots'[i].did = bots'[j].did, bots'[i].did # NoDid
          PROVE  i = j
      <4>1. i \in 1 .. Len(bots) - 1 /\ j \in 1 .. Len(bots) - 1
        BY <3>4, <3>6
      <4>2. old(i) \in DOMAIN bots /\ old(j) \in DOMAIN bots
        BY <3>3, <4>1
      <4>3. old(i) = old(j)
        BY <3>4, <3>6, <4>1, <4>2 DEF OneRecord
      <4>4. QED
        BY <3>3, <4>1, <4>3
    <3>7. QED
      BY <1>3, <3>5, <3>6 DEF DeleteOneDevice, OneRecord, GuideKept
  <2>3. QED
    BY <2>1, <2>2
<1>4. ASSUME NEW c \in Classes, DecodeQrCode(c) PROVE DeviceInv'
  <2>1. CASE Guide(c) = 0
    BY <1>4, <2>1 DEF DecodeQrCode, OneRecord, GuideKept
  <2>2. CASE Guide(c) # 0
    <3> DEFINE g == Guide(c)
    <3>1. c \in DOMAIN Product /\ g = RobotByGroup(Product[c])
      BY <2>2 DEF Guide
    <3>2. g \in DOMAIN robots /\ robots[g].group = Product[c]
      BY <2>2, <3>1, RobotFound
    <3>3. robots' = Take(c, g) /\ guided' = guided \cup {c} /\ bots' = bots
      BY <1>4, <2>2 DEF DecodeQrCode
    <3> HIDE DEF g
    <3>4. robots[g].group # NoValue
      BY <3>1, <3>2, ProductAssumption, AbsentAssumption
    <3> DEFINE taken == [robots[g] EXCEPT !.mid = c, !.group = NoValue]
    <3>5. robots' = [robots EXCEPT ![g] = taken]
      <4> DEFINE named == [robots EXCEPT ![g].mid = c]
      <4>1. named = [robots EXCEPT ![g] = [robots[g] EXCEPT !.mid = c]]
        OBVIOUS
      <4>2. robots' = [named EXCEPT ![g] = [named[g] EXCEPT !.group = NoValue]]
        BY <3>3 DEF Take
      <4>3. named[g] = [robots[g] EXCEPT !.mid = c]
        BY <3>2, <4>1
      <4>4. QED
        BY <3>2, <4>1, <4>2, <4>3
    <3>6. taken \in RobotRecords /\ taken.mid = c /\ taken.group = NoValue
      <4>1. robots[g] \in RobotRecords
        BY <3>2
      <4> DEFINE r == robots[g]
      <4> HIDE DEF r
      <4>2. LET t == [r EXCEPT !.mid = c, !.group = NoValue]
            IN  t \in RobotRecords /\ t.mid = c /\ t.group = NoValue
        BY <4>1 DEF RobotRecords, r
      <4>3. QED
        BY <4>2 DEF r
    <3> HIDE DEF taken
    <3>7. robots' \in Seq(RobotRecords) /\ DOMAIN robots' = DOMAIN robots
      BY <3>2, <3>5, <3>6
    <3>8. /\ \A i \in DOMAIN robots : i # g => robots'[i] = robots[i]
          /\ robots'[g].mid = c /\ robots'[g].group = NoValue
      BY <3>2, <3>5, <3>6
    <3>9. GuideKept'
      BY <3>2, <3>3, <3>4, <3>7, <3>8 DEF GuideKept
    <3>10. QED
      BY <3>1, <3>3, <3>7, <3>9 DEF OneRecord
  <2>3. QED
    BY <2>1, <2>2
<1>5. ASSUME Restart PROVE DeviceInv'
  BY <1>5, RobotsAssumption DEF Restart, OneRecord, GuideKept
<1>6. ASSUME UNCHANGED deviceVars PROVE DeviceInv'
  BY <1>6 DEF deviceVars, OneRecord, GuideKept
<1>7. QED
  BY <1>1, <1>2, <1>3, <1>4, <1>5, <1>6 DEF DevicesNext

LEMMA SpecIsDevices == Spec => DevicesSpec
<1>1. Init => DevicesInit
  BY DEF Init
<1>2. [Next]_<<deviceVars, logVars>> => [DevicesNext]_deviceVars
  BY DEF Next, Report, Delete, RemoveLog, Clear
<1>3. QED
  BY <1>1, <1>2, PTL DEF Spec, DevicesSpec

LEMMA DeviceInvHolds == DevicesSpec => []DeviceInv
BY DeviceInvInit, DeviceInvStep, PTL DEF DevicesSpec

\* The device list shows each bot once and no document that is no bot: only
\* add() writes a class, for a bot that has no record yet, and what set_nick()
\* leaves for unknown bots has none.
THEOREM EachBotListedOnce == Spec => []ListedOnce
<1>1. ASSUME DeviceInv PROVE ListedOnce
  <2>1. DOMAIN DeviceList = {j \in DOMAIN bots : bots[j].class \in DOMAIN Product}
    BY DEF DeviceList
  <2>2. ASSUME NEW i \in DOMAIN DeviceList
        PROVE  i \in DOMAIN bots /\ DeviceList[i].did = bots[i].did /\ bots[i].did \in Dids
    <3>1. i \in DOMAIN bots /\ bots[i].class \in DOMAIN Product
      BY <2>1
    <3>2. bots[i].class # NoValue
      BY <3>1, AbsentAssumption, ProductAssumption
    <3>3. bots[i] \in [did : Dids, class : Classes, company : Companies]
      BY <1>1, <3>1, <3>2 DEF DeviceInv, DevicesTypeOK, Nameless, VacBotDevice
    <3>4. DeviceList[i] = Entry(bots[i])
      BY <3>1 DEF DeviceList
    <3>5. QED
      BY <3>1, <3>3, <3>4 DEF Entry
  <2>3. QED
    BY <1>1, <2>2, AbsentAssumption DEF ListedOnce, DeviceInv, OneRecord
<1>2. QED
  BY <1>1, SpecIsDevices, DeviceInvHolds, PTL

\* A class that was answered with a guide stays in the cached catalogue until a
\* restart: DecodeQrCode finds a robot by its groupName, takes that away, and so
\* never changes the class of the same robot again.
THEOREM GuidesStay == Spec => []GuidedStaysKnown
<1>1. ASSUME DeviceInv PROVE GuidedStaysKnown
  BY <1>1, RobotFound DEF DeviceInv, GuideKept, GuidedStaysKnown
<1>2. QED
  BY <1>1, SpecIsDevices, DeviceInvHolds, PTL

-----------------------------------------------------------------------------
(* The table of logs                                                        *)

Records == [id : Ids, type : Types, content : Contents]

\* A table has one document for each id and type.
OneLogEach(table) ==
  \A i, j \in DOMAIN table : Key(table[i]) = Key(table[j]) => i = j

\* What was reported last and not deleted is there.
LatestKept ==
  \A k \in Keys : latest[k] # NoValue =>
    \E i \in DOMAIN logs : Key(logs[i]) = k /\ logs[i].content = latest[k]

LogInv == OneLogEach(logs) /\ LatestKept

LEMMA LogFound ==
  ASSUME logs \in Seq(Records), NEW key
  PROVE  /\ LogAt(key) = 0 <=> \A i \in DOMAIN logs : Key(logs[i]) # key
         /\ LogAt(key) # 0 => LogAt(key) \in DOMAIN logs /\ Key(logs[LogAt(key)]) = key
<1> DEFINE I == {i \in 1 .. Len(logs) : Key(logs[i]) = key}
<1>1. LogAt(key) = IF I # {} THEN Min(I) ELSE 0
  BY DEF LogAt, SelectInSeq
<1>2. Len(logs) \in Nat /\ DOMAIN logs = 1 .. Len(logs) /\ I \in SUBSET (1 .. Len(logs))
  OBVIOUS
<1> HIDE DEF I
<1>3. (LogAt(key) = 0 <=> I = {}) /\ (LogAt(key) # 0 => LogAt(key) \in I)
  BY <1>1, <1>2, FirstOf
<1>4. QED
  BY <1>2, <1>3 DEF I

\* One deletion: the table keeps its form, and loses nothing of another id.
LEMMA OneRemoved ==
  ASSUME NEW table \in Seq(Records), OneLogEach(table), NEW id
  PROVE  LET rest == WithoutFirst(table, id)
         IN  /\ rest \in Seq(Records) /\ OneLogEach(rest)
             /\ \A i \in DOMAIN table : table[i].id # id =>
                  \E j \in DOMAIN rest : rest[j] = table[i]
<1> DEFINE I  == {i \in 1 .. Len(table) : table[i].id = id}
           at == SelectInSeq(table, LAMBDA l : l.id = id)
           rest == WithoutFirst(table, id)
<1>1. at = IF I # {} THEN Min(I) ELSE 0
  BY DEF SelectInSeq
<1>2. at # 0 => at \in I
  <2>1. Len(table) \in Nat /\ I \in SUBSET (1 .. Len(table))
    OBVIOUS
  <2> HIDE DEF I, at
  <2>2. QED
    BY <1>1, <2>1, FirstOf
<1>3. rest = IF at = 0 THEN table ELSE RemoveAt(table, at)
  BY DEF WithoutFirst
<1> HIDE DEF at, rest
<1>4. CASE at = 0
  BY <1>3, <1>4 DEF rest
<1>5. CASE at # 0
  <2>1. at \in 1 .. Len(table) /\ table[at].id = id
    BY <1>2, <1>5
  <2>2. /\ rest \in Seq(Records) /\ Len(rest) = Len(table) - 1
        /\ \A i \in 1 .. Len(table) - 1 : rest[i] = table[IF i < at THEN i ELSE i + 1]
    BY <1>3, <1>5, <2>1, Removed
  <2>3. ASSUME NEW i \in DOMAIN rest, NEW j \in DOMAIN rest, Key(rest[i]) = Key(rest[j])
        PROVE  i = j
    <3> DEFINE old(n) == IF n < at THEN n ELSE n + 1
    <3>1. i \in 1 .. Len(table) - 1 /\ j \in 1 .. Len(table) - 1
      BY <2>2
    <3>2. old(i) \in DOMAIN table /\ old(j) \in DOMAIN table
      BY <2>1, <3>1
    <3>3. old(i) = old(j)
      BY <2>2, <2>3, <3>1, <3>2 DEF OneLogEach
    <3>4. QED
      BY <2>1, <3>1, <3>3
  <2>4. ASSUME NEW i \in DOMAIN table, table[i].id # id
        PROVE  \E j \in DOMAIN rest : rest[j] = table[i]
    <3>1. i # at /\ i \in 1 .. Len(table)
      BY <2>1, <2>4
    <3>2. CASE i < at
      <4>1. i \in 1 .. Len(table) - 1
        BY <2>1, <3>1, <3>2
      <4>2. rest[i] = table[i]
        BY <2>2, <3>2, <4>1
      <4>3. QED
        BY <2>2, <4>1, <4>2
    <3>3. CASE i > at
      <4>1. i - 1 \in 1 .. Len(table) - 1 /\ ~(i - 1 < at) /\ (i - 1) + 1 = i
        BY <2>1, <3>1, <3>3
      <4>2. rest[i - 1] = table[i]
        BY <2>2, <4>1
      <4>3. QED
        BY <2>2, <4>1, <4>2
    <3>4. i < at \/ i > at
      BY <2>1, <3>1
    <3>5. QED
      BY <3>2, <3>3, <3>4
  <2>5. QED
    BY <2>2, <2>3, <2>4 DEF OneLogEach, rest
<1>6. QED
  BY <1>4, <1>5

\* Left is what its definition says: such a function exists, step by step.
LEMMA LeftUnfolds ==
  ASSUME NEW ids, Len(ids) \in Nat
  PROVE  \A n \in 0 .. Len(ids) :
           Left(ids)[n] = IF n = 0 THEN logs ELSE WithoutFirst(Left(ids)[n - 1], ids[n])
<1> DEFINE Unfolds(g, m) ==
      g = [n \in 0 .. m |-> IF n = 0 THEN logs ELSE WithoutFirst(g[n - 1], ids[n])]
           stuck == {m \in Nat : ~ \E g : Unfolds(g, m)}
<1>1. stuck = {}
  <2>1. SUFFICES ASSUME stuck # {} PROVE FALSE
    OBVIOUS
  <2> DEFINE m == Min(stuck)
  <2>2. m \in stuck /\ \A y \in stuck : m <= y
    BY <2>1, MinIsLeast
  <2> HIDE DEF m
  <2>3. CASE m = 0
    <3>1. Unfolds([n \in 0 .. 0 |-> logs], 0)
      OBVIOUS
    <3>2. QED
      BY <2>2, <2>3, <3>1
  <2>4. CASE m # 0
    <3>1. m - 1 \in Nat /\ m - 1 \notin stuck
      <4>1. m \in Nat
        BY <2>2
      <4> HIDE DEF stuck
      <4>2. m - 1 \in Nat /\ ~(m <= m - 1)
        BY <2>4, <4>1
      <4>3. QED
        BY <2>2, <4>2
    <3>2. PICK g : Unfolds(g, m - 1)
      BY <3>1
    <3> DEFINE h == [n \in 0 .. m |-> IF n < m THEN g[n] ELSE WithoutFirst(g[m - 1], ids[m])]
    <3>3. ASSUME NEW n \in 0 .. m
          PROVE  h[n] = IF n = 0 THEN logs ELSE WithoutFirst(h[n - 1], ids[n])
      <4>1. n # 0 => n - 1 \in 0 .. m - 1 /\ h[n - 1] = g[n - 1]
        BY <2>2
      <4>2. n < m => n \in 0 .. m - 1 /\ h[n] = g[n]
        BY <2>2
      <4>3. n < m => g[n] = IF n = 0 THEN logs ELSE WithoutFirst(g[n - 1], ids[n])
        BY <3>2, <4>2
      <4>4. ~(n < m) => n = m /\ h[n] = WithoutFirst(g[m - 1], ids[m])
        BY <2>2
      <4>5. QED
        BY <2>4, <4>1, <4>2, <4>3, <4>4
    <3>4. Unfolds(h, m)
      BY <3>3
    <3>5. QED
      BY <2>2, <3>4
  <2>5. QED
    BY <2>3, <2>4
<1>2. \E g : Unfolds(g, Len(ids))
  BY <1>1
<1>3. Left(ids) = CHOOSE g : Unfolds(g, Len(ids))
  BY DEF Left
<1>4. Unfolds(Left(ids), Len(ids))
  BY <1>2, <1>3
<1>5. QED
  BY <1>4

\* All deletions of a request: what has another id than those named is left.
LEMMA AllRemoved ==
  ASSUME logs \in Seq(Records), OneLogEach(logs), NEW ids, Len(ids) \in Nat
  PROVE  LET rest == Left(ids)[Len(ids)]
         IN  /\ rest \in Seq(Records) /\ OneLogEach(rest)
             /\ \A i \in DOMAIN logs : (\A n \in 1 .. Len(ids) : ids[n] # logs[i].id) =>
                  \E j \in DOMAIN rest : rest[j] = logs[i]
<1> DEFINE Good(n) ==
      LET rest == Left(ids)[n]
      IN  /\ rest \in Seq(Records) /\ OneLogEach(rest)
          /\ \A i \in DOMAIN logs : (\A k \in 1 .. n : ids[k] # logs[i].id) =>
               \E j \in DOMAIN rest : rest[j] = logs[i]
           bad == {n \in 0 .. Len(ids) : ~Good(n)}
<1>1. bad = {}
  <2>1. SUFFICES ASSUME bad # {} PROVE FALSE
    OBVIOUS
  <2> DEFINE m == Min(bad)
  <2>2. m \in bad /\ \A y \in bad : m <= y
    <3>1. bad \in SUBSET Nat
      OBVIOUS
    <3> HIDE DEF bad
    <3>2. QED
      BY <2>1, <3>1, MinIsLeast
  <2> HIDE DEF m
  <2>3. m \in 0 .. Len(ids) /\ ~Good(m)
    BY <2>2
  <2>4. CASE m = 0
    <3>1. Left(ids)[0] = logs
      BY LeftUnfolds
    <3>2. Good(0)
      BY <3>1
    <3>3. QED
      BY <2>3, <2>4, <3>2
  <2>5. CASE m # 0
    <3> DEFINE before == Left(ids)[m - 1]
               rest == Left(ids)[m]
    <3>1. Good(m - 1)
      <4>1. m - 1 \in 0 .. Len(ids) /\ ~(m <= m - 1)
        BY <2>3, <2>5
      <4>2. m - 1 \notin bad
        BY <2>2, <4>1
      <4> HIDE DEF Good
      <4>3. QED
        BY <4>1, <4>2
    <3>2. before \in Seq(Records) /\ OneLogEach(before)
      BY <3>1
    <3>3. rest = WithoutFirst(before, ids[m])
      BY <2>3, <2>5, LeftUnfolds
    <3>4. /\ rest \in Seq(Records) /\ OneLogEach(rest)
          /\ \A i \in DOMAIN before : before[i].id # ids[m] =>
               \E j \in DOMAIN rest : rest[j] = before[i]
      <4> HIDE DEF before, rest
      <4>1. QED
        BY <3>2, <3>3, OneRemoved
    <3>5. ASSUME NEW i \in DOMAIN logs, \A k \in 1 .. m : ids[k] # logs[i].id
          PROVE  \E j \in DOMAIN rest : rest[j] = logs[i]
      <4>1. m \in 1 .. m /\ \A k \in 1 .. m - 1 : k \in 1 .. m
        BY <2>3, <2>5
      <4>2. PICK j \in DOMAIN before : before[j] = logs[i]
        BY <3>1, <3>5, <4>1
      <4>3. before[j].id # ids[m]
        BY <3>5, <4>1, <4>2
      <4>4. QED
        BY <3>4, <4>2, <4>3
    <3>6. Good(m)
      BY <3>4, <3>5
    <3>7. QED
      BY <2>3, <3>6
  <2>6. QED
    BY <2>4, <2>5
<1>2. Good(Len(ids))
  <2>1. Len(ids) \in 0 .. Len(ids)
    OBVIOUS
  <2> HIDE DEF Good
  <2>2. QED
    BY <1>1, <2>1
<1>3. QED
  BY <1>2

LEMMA LogTypesInit == Init => TypeOK
BY DeviceInvInit DEF Init, TypeOK, DeviceInv

LEMMA LogTypesStep ==
  ASSUME TypeOK, DeviceInv, LogInv, [Next]_<<deviceVars, logVars>>
  PROVE  TypeOK' /\ LogInv'
<1> USE DEF TypeOK, logVars
<1>1. Records = [id : Ids, type : Types, content : Contents]
  BY DEF Records
<1>2. ASSUME NEW key \in Keys, NEW content \in Contents \cup {NoValue}, Report(key, content)
      PROVE  TypeOK' /\ LogInv'
  <2>1. DevicesTypeOK'
    BY <1>2 DEF Report, deviceVars, DevicesTypeOK
  <2>2. CASE content = NoValue
    BY <1>2, <2>1, <2>2 DEF Report, LogInv, OneLogEach, LatestKept
  <2>3. CASE content # NoValue
    <3> DEFINE log == [id |-> key.id, type |-> key.type, content |-> content]
    <3>1. /\ logs' = Upsert(key, content)
          /\ latest' = [latest EXCEPT ![key] = content]
      BY <1>2, <2>3 DEF Report
    <3>2. log \in Records /\ Key(log) = key /\ log.content = content
      BY <2>3, <1>1 DEF Keys, Key
    <3>3. latest' \in [Keys -> Contents \cup {NoValue}]
      BY <3>1
    <3>4. CASE LogAt(key) = 0
      <4>1. logs' = Append(logs, log)
        BY <3>1, <3>4 DEF Upsert
      <4>2. \A i \in DOMAIN logs : Key(logs[i]) # key
        BY <1>1, <3>4, LogFound
      <4> HIDE DEF log
      <4>3. /\ logs' \in Seq(Records) /\ DOMAIN logs' = 1 .. Len(logs) + 1
            /\ logs'[Len(logs) + 1] = log
            /\ \A i \in DOMAIN logs : i \in DOMAIN logs' /\ logs'[i] = logs[i]
        BY <1>1, <3>2, <4>1
      <4>4. OneLogEach(logs)'
        BY <3>2, <4>2, <4>3 DEF LogInv, OneLogEach
      <4>5. LatestKept'
        <5>1. ASSUME NEW k \in Keys, latest'[k] # NoValue
              PROVE  \E i \in DOMAIN logs' : Key(logs'[i]) = k /\ logs'[i].content = latest'[k]
          <6>1. CASE k = key
            BY <3>1, <3>2, <4>3, <6>1
          <6>2. CASE k # key
            <7>1. latest'[k] = latest[k]
              BY <3>1, <6>2
            <7>2. PICK i \in DOMAIN logs : Key(logs[i]) = k /\ logs[i].content = latest[k]
              BY <5>1, <7>1 DEF LogInv, LatestKept
            <7>3. QED
              BY <4>3, <7>1, <7>2
          <6>3. QED
            BY <6>1, <6>2
        <5>2. QED
          BY <5>1 DEF LatestKept, Key
      <4>6. QED
        BY <1>1, <2>1, <3>3, <4>3, <4>4, <4>5 DEF LogInv
    <3>5. CASE LogAt(key) # 0
      <4> DEFINE at == LogAt(key)
      <4>1. at \in DOMAIN logs /\ Key(logs[at]) = key
        BY <1>1, <3>5, LogFound
      <4>2. logs' = [logs EXCEPT ![at] = log]
        BY <3>1, <3>5 DEF Upsert
      <4> HIDE DEF at, log
      <4>3. /\ logs' \in Seq(Records) /\ DOMAIN logs' = DOMAIN logs /\ logs'[at] = log
            /\ \A i \in DOMAIN logs : i # at => logs'[i] = logs[i]
        BY <1>1, <3>2, <4>1, <4>2
      <4>4. \A i \in DOMAIN logs : Key(logs'[i]) = Key(logs[i])
        BY <3>2, <4>1, <4>3
      <4>5. OneLogEach(logs)'
        BY <4>3, <4>4 DEF LogInv, OneLogEach, Key
      <4>6. LatestKept'
        <5>1. ASSUME NEW k \in Keys, latest'[k] # NoValue
              PROVE  \E i \in DOMAIN logs' : Key(logs'[i]) = k /\ logs'[i].content = latest'[k]
          <6>1. CASE k = key
            BY <3>1, <3>2, <4>1, <4>3, <6>1
          <6>2. CASE k # key
            <7>1. latest'[k] = latest[k]
              BY <3>1, <6>2
            <7>2. PICK i \in DOMAIN logs : Key(logs[i]) = k /\ logs[i].content = latest[k]
              BY <5>1, <7>1 DEF LogInv, LatestKept
            <7>3. i # at
              BY <4>1, <6>2, <7>2
            <7>4. QED
              BY <4>3, <7>1, <7>2, <7>3
          <6>3. QED
            BY <6>1, <6>2
        <5>2. QED
          BY <5>1 DEF LatestKept, Key
      <4>7. QED
        BY <1>1, <2>1, <3>3, <4>3, <4>5, <4>6 DEF LogInv
    <3>6. QED
      BY <3>4, <3>5
  <2>4. QED
    BY <2>2, <2>3
<1>3. ASSUME NEW ids, Len(ids) \in Nat, DOMAIN ids = 1 .. Len(ids), Delete(ids)
      PROVE  TypeOK' /\ LogInv'
  <2>1. DevicesTypeOK'
    BY <1>3 DEF Delete, deviceVars, DevicesTypeOK
  <2>2. /\ logs' \in Seq(Records) /\ OneLogEach(logs')
        /\ \A i \in DOMAIN logs : (\A n \in 1 .. Len(ids) : ids[n] # logs[i].id) =>
             \E j \in DOMAIN logs' : logs'[j] = logs[i]
    <3>1. logs' = Left(ids)[Len(ids)]
      BY <1>3 DEF Delete
    <3>2. QED
      BY <1>1, <1>3, <3>1, AllRemoved DEF LogInv
  <2>3. latest' = [k \in Keys |-> IF k.id \in ToSet(ids) THEN NoValue ELSE latest[k]]
    BY <1>3 DEF Delete
  <2>4. ASSUME NEW k \in Keys, latest'[k] # NoValue
        PROVE  \E i \in DOMAIN logs' : Key(logs'[i]) = k /\ logs'[i].content = latest'[k]
    <3>1. k.id \notin ToSet(ids) /\ latest'[k] = latest[k]
      BY <2>3, <2>4
    <3>2. PICK i \in DOMAIN logs : Key(logs[i]) = k /\ logs[i].content = latest[k]
      BY <2>4, <3>1 DEF LogInv, LatestKept
    <3>3. \A n \in 1 .. Len(ids) : ids[n] # logs[i].id
      BY <1>3, <3>1, <3>2 DEF ToSet, Key
    <3>4. QED
      BY <2>2, <3>1, <3>2, <3>3
  <2>5. latest' \in [Keys -> Contents \cup {NoValue}]
    BY <2>3
  <2>6. QED
    BY <1>1, <2>1, <2>2, <2>4, <2>5 DEF LogInv, LatestKept, OneLogEach, Key
<1>4. ASSUME NEW n \in 0 .. MaxNamed, NEW ids \in [1 .. n -> Ids], Delete(ids)
      PROVE  TypeOK' /\ LogInv'
  <2>1. n \in Nat /\ DOMAIN ids = 1 .. n /\ ids \in Seq(Ids) /\ Len(ids) = n
    BY NamedAssumption
  <2>2. QED
    BY <1>3, <1>4, <2>1
<1>5. ASSUME NEW i \in Ids, RemoveLog(i) PROVE TypeOK' /\ LogInv'
  <2> DEFINE ids == <<i>>
  <2>1. Len(ids) \in Nat /\ DOMAIN ids = 1 .. Len(ids)
    OBVIOUS
  <2>2. Delete(ids)
    BY <1>5 DEF RemoveLog
  <2> HIDE DEF ids
  <2>3. QED
    BY <1>3, <2>1, <2>2
<1>6. ASSUME Clear PROVE TypeOK' /\ LogInv'
  BY <1>6 DEF Clear, deviceVars, DevicesTypeOK, LogInv, OneLogEach, LatestKept
<1>7. ASSUME DevicesNext, UNCHANGED logVars PROVE TypeOK' /\ LogInv'
  <2>1. DevicesTypeOK'
    BY <1>7, DeviceInvStep DEF DeviceInv
  <2>2. QED
    BY <1>7, <2>1 DEF LogInv, OneLogEach, LatestKept, Key
<1>8. ASSUME UNCHANGED <<deviceVars, logVars>> PROVE TypeOK' /\ LogInv'
  BY <1>8 DEF deviceVars, DevicesTypeOK, LogInv, OneLogEach, LatestKept, Key
<1>9. QED
  BY <1>2, <1>4, <1>5, <1>6, <1>7, <1>8 DEF Next

\* Types of the bots, the catalogue and the table of logs, for tables of any length.
THEOREM LogTypes == Spec => []TypeOK
<1>1. Init => TypeOK /\ LogInv
  BY LogTypesInit DEF Init, LogInv, OneLogEach, LatestKept
<1>2. QED
  BY <1>1, LogTypesStep, SpecIsDevices, DeviceInvHolds, PTL DEF Spec

LEMMA LogInvHolds == Spec => [](DeviceInv /\ TypeOK /\ LogInv)
<1>1. Init => TypeOK /\ LogInv
  BY LogTypesInit DEF Init, LogInv, OneLogEach, LatestKept
<1>2. QED
  BY <1>1, LogTypesStep, SpecIsDevices, DeviceInvHolds, PTL DEF Spec

-----------------------------------------------------------------------------
(* Sorting                                                                  *)

\* A strict order in which any two places of a set can be compared.
Orders(order, places) ==
  /\ \A i \in places : <<i, i>> \notin order
  /\ \A i, j \in places : i = j \/ <<i, j>> \in order \/ <<j, i>> \in order
  /\ \A i, j, k \in places : <<i, j>> \in order /\ <<j, k>> \in order => <<i, k>> \in order

\* A finite set can be sorted: a place goes to as many as come before it.
LEMMA CanBeSorted ==
  ASSUME NEW places, IsFiniteSet(places), NEW order, Orders(order, places)
  PROVE  \E f \in [1 .. Cardinality(places) -> places] :
           \A m, n \in DOMAIN f : m < n => <<f[m], f[n]>> \in order
<1> DEFINE N == Cardinality(places)
           upTo(i) == {j \in places : j = i \/ <<j, i>> \in order}
           rank == [i \in places |-> Cardinality(upTo(i))]
<1>1. N \in Nat
  BY FS_CardinalityType
<1>2. ASSUME NEW i \in places PROVE IsFiniteSet(upTo(i)) /\ rank[i] \in 1 .. N
  <2>1. upTo(i) \in SUBSET places /\ i \in upTo(i)
    OBVIOUS
  <2> HIDE DEF upTo
  <2>2. IsFiniteSet(upTo(i)) /\ Cardinality(upTo(i)) <= N
    BY <2>1, FS_Subset
  <2>3. Cardinality(upTo(i)) \in Nat
    BY <2>2, FS_CardinalityType
  <2>4. Cardinality(upTo(i)) # 0
    BY <2>1, <2>2, FS_EmptySet
  <2>5. QED
    BY <1>1, <2>2, <2>3, <2>4
<1>3. ASSUME NEW i \in places, NEW j \in places, <<i, j>> \in order PROVE rank[i] < rank[j]
  <2>1. upTo(i) \in SUBSET upTo(j)
    BY <1>3 DEF Orders
  <2>2. j \in upTo(j) /\ j \notin upTo(i)
    BY <1>3 DEF Orders
  <2>3. IsFiniteSet(upTo(j)) /\ rank[i] \in Nat /\ rank[j] \in Nat
    BY <1>2
  <2> HIDE DEF upTo
  <2>4. Cardinality(upTo(i)) <= Cardinality(upTo(j)) /\ Cardinality(upTo(i)) # Cardinality(upTo(j))
    BY <2>1, <2>2, <2>3, FS_Subset
  <2>5. QED
    BY <2>3, <2>4
<1> HIDE DEF N, upTo, rank
<1>4. rank \in [places -> 1 .. N]
  BY <1>2 DEF rank
<1>5. ASSUME NEW i \in places, NEW j \in places, rank[i] = rank[j] PROVE i = j
  <2>1. rank[i] \in Int /\ rank[j] \in Int
    BY <1>4
  <2>2. <<i, j>> \notin order /\ <<j, i>> \notin order
    BY <1>3, <1>5, <2>1
  <2>3. QED
    BY <2>2 DEF Orders
<1>6. rank \in Injection(places, 1 .. N)
  BY <1>4, <1>5 DEF Injection, IsInjective
<1>7. IsFiniteSet(1 .. N) /\ Cardinality(1 .. N) = N
  BY <1>1, FS_Interval
<1>8. rank \in Surjection(places, 1 .. N)
  BY <1>6, <1>7, FS_Injection DEF N
<1>9. \A n \in 1 .. N : \E i \in places : rank[i] = n
  BY <1>8 DEF Surjection
<1> DEFINE f == [n \in 1 .. N |-> CHOOSE i \in places : rank[i] = n]
<1>10. \A n \in 1 .. N : f[n] \in places /\ rank[f[n]] = n
  BY <1>9
<1> HIDE DEF f
<1>11. f \in [1 .. N -> places]
  BY <1>10 DEF f
<1>12. ASSUME NEW m \in 1 .. N, NEW n \in 1 .. N, m < n PROVE <<f[m], f[n]>> \in order
  <2>1. f[m] \in places /\ f[n] \in places /\ rank[f[m]] = m /\ rank[f[n]] = n
    BY <1>10
  <2>2. f[m] # f[n]
    BY <1>12, <2>1
  <2>3. <<f[n], f[m]>> \notin order
    BY <1>3, <1>12, <2>1
  <2>4. QED
    BY <2>1, <2>2, <2>3 DEF Orders
<1>13. DOMAIN f = 1 .. N
  BY <1>11
<1>14. QED
  BY <1>11, <1>12, <1>13 DEF N

\* What Sorted returns: every place of the set once, in order.
LEMMA SortedIs ==
  ASSUME NEW places, IsFiniteSet(places), NEW order, Orders(order, places)
  PROVE  LET f == Sorted(places, order)
         IN  /\ f \in [1 .. Cardinality(places) -> places]
             /\ Cardinality(places) \in Nat
             /\ \A m, n \in 1 .. Cardinality(places) : m < n => <<f[m], f[n]>> \in order
             /\ \A m, n \in 1 .. Cardinality(places) : f[m] = f[n] => m = n
             /\ \A i \in places : \E n \in 1 .. Cardinality(places) : f[n] = i
<1> DEFINE f == Sorted(places, order)
           N == Cardinality(places)
<1>1. /\ f \in [1 .. N -> places]
      /\ \A m, n \in DOMAIN f : m < n => <<f[m], f[n]>> \in order
  BY CanBeSorted DEF Sorted
<1>2. N \in Nat
  BY FS_CardinalityType
<1> HIDE DEF f
<1>3. DOMAIN f = 1 .. N
  BY <1>1
<1>4. ASSUME NEW m \in 1 .. N, NEW n \in 1 .. N, f[m] = f[n] PROVE m = n
  <2>1. f[m] \in places /\ <<f[m], f[m]>> \notin order
    BY <1>1 DEF Orders
  <2>2. ~(m < n) /\ ~(n < m)
    BY <1>1, <1>3, <1>4, <2>1
  <2>3. QED
    BY <1>2, <2>2
<1>5. f \in Injection(1 .. N, places)
  BY <1>1, <1>4 DEF Injection, IsInjective
<1>6. Cardinality(1 .. N) = N
  BY <1>2, FS_Interval
<1>7. f \in Surjection(1 .. N, places)
  BY <1>5, <1>6, FS_Injection
<1>8. \A i \in places : \E n \in 1 .. N : f[n] = i
  BY <1>7 DEF Surjection
<1>9. QED
  BY <1>1, <1>2, <1>3, <1>4, <1>8 DEF f

-----------------------------------------------------------------------------
(* The lists of the app                                                     *)

LEMMA IdParts ==
  ASSUME TypeOK, NEW i \in DOMAIN logs
  PROVE  /\ i \in 1 .. Len(logs) /\ Len(logs) \in Nat
         /\ Key(logs[i]) \in Keys /\ Start(logs[i]) \in Nat
         /\ logs[i].id[1] \in Nat /\ logs[i].id[2] \in Nat
<1>1. i \in 1 .. Len(logs) /\ Len(logs) \in Nat
  BY DEF TypeOK
<1>2. logs[i] \in Records
  <2>1. logs \in Seq(Records)
    BY DEF TypeOK, Records
  <2>2. QED
    BY <2>1
<1>3. logs[i].id \in Ids /\ logs[i].type \in Types
  BY <1>2 DEF Records
<1>4. logs[i].id[1] \in Nat /\ logs[i].id[2] \in Nat
  BY <1>3, IdsAssumption, DidsAssumption
<1>5. QED
  BY <1>1, <1>3, <1>4 DEF Key, Keys, Start

LEMMA StartOrders ==
  ASSUME TypeOK
  PROVE  Orders(ByStart, DOMAIN logs) /\ Orders(ByStartAndBot, DOMAIN logs)
<1> DEFINE D == DOMAIN logs
           bot(i) == logs[i].id[1]
           start(i) == logs[i].id[2]
<1>1. ASSUME NEW i \in D PROVE i \in Int /\ bot(i) \in Int /\ start(i) \in Int
  BY IdParts
<1>2. ASSUME NEW i \in D, NEW j \in D
      PROVE  <<i, j>> \in ByStart <=> start(i) > start(j) \/ (start(i) = start(j) /\ i < j)
  BY DEF ByStart, Start
<1>3. ASSUME NEW i \in D, NEW j \in D
      PROVE  <<i, j>> \in ByStartAndBot <=>
               \/ start(i) > start(j)
               \/ start(i) = start(j) /\ bot(i) > bot(j)
               \/ start(i) = start(j) /\ bot(i) = bot(j) /\ i < j
  BY DEF ByStartAndBot
<1> HIDE DEF D, bot, start
<1>4. Orders(ByStart, D)
  BY <1>1, <1>2 DEF Orders
<1>5. Orders(ByStartAndBot, D)
  <2>1. \A i \in D : <<i, i>> \notin ByStartAndBot
    BY <1>1, <1>3
  <2>2. ASSUME NEW i \in D, NEW j \in D
        PROVE  i = j \/ <<i, j>> \in ByStartAndBot \/ <<j, i>> \in ByStartAndBot
    <3>1. /\ i \in Int /\ bot(i) \in Int /\ start(i) \in Int
          /\ j \in Int /\ bot(j) \in Int /\ start(j) \in Int
      BY <1>1
    <3>2. QED
      BY <1>3, <3>1
  <2>3. ASSUME NEW i \in D, NEW j \in D, NEW k \in D,
               <<i, j>> \in ByStartAndBot, <<j, k>> \in ByStartAndBot
        PROVE  <<i, k>> \in ByStartAndBot
    <3>1. /\ i \in Int /\ j \in Int /\ k \in Int
          /\ bot(i) \in Int /\ bot(j) \in Int /\ bot(k) \in Int
          /\ start(i) \in Int /\ start(j) \in Int /\ start(k) \in Int
      BY <1>1
    <3>2. \/ start(i) > start(j)
          \/ start(i) = start(j) /\ bot(i) > bot(j)
          \/ start(i) = start(j) /\ bot(i) = bot(j) /\ i < j
      BY <1>3, <2>3
    <3>3. \/ start(j) > start(k)
          \/ start(j) = start(k) /\ bot(j) > bot(k)
          \/ start(j) = start(k) /\ bot(j) = bot(k) /\ j < k
      BY <1>3, <2>3
    <3>4. \/ start(i) > start(k)
          \/ start(i) = start(k) /\ bot(i) > bot(k)
          \/ start(i) = start(k) /\ bot(i) = bot(k) /\ i < k
      BY <3>1, <3>2, <3>3
    <3>5. QED
      BY <1>3, <3>4
  <2>4. QED
    BY <2>1, <2>2, <2>3 DEF Orders
<1>6. QED
  BY <1>4, <1>5 DEF D

\* What the app is shown of a bot: its logs, each once, newest first.
LEMMA ListOfBot ==
  ASSUME TypeOK, NEW d
  PROVE  LET list == At(Sorted(OfBot(d), ByStart))
             f    == Sorted(OfBot(d), ByStart)
         IN  /\ DOMAIN list = DOMAIN f /\ DOMAIN list \subseteq Nat
             /\ \A n \in DOMAIN list : f[n] \in DOMAIN logs /\ list[n] = logs[f[n]]
             /\ \A m, n \in DOMAIN list : m < n => f[m] # f[n] /\ <<f[m], f[n]>> \in ByStart
             /\ \A i \in DOMAIN logs : logs[i].id[1] = d => \E n \in DOMAIN list : f[n] = i
<1> DEFINE places == OfBot(d)
           f == Sorted(places, ByStart)
           list == At(f)
<1>1. places \in SUBSET DOMAIN logs /\ \A i \in DOMAIN logs : logs[i].id[1] = d => i \in places
  BY DEF OfBot
<1>2. IsFiniteSet(places)
  <2>1. DOMAIN logs = 1 .. Len(logs) /\ Len(logs) \in Int
    BY DEF TypeOK
  <2> HIDE DEF places
  <2>2. QED
    BY <1>1, <2>1, FS_Interval, FS_Subset
<1>3. Orders(ByStart, places)
  <2> HIDE DEF places
  <2>1. QED
    BY <1>1, StartOrders DEF Orders
<1> HIDE DEF places
<1> DEFINE N == Cardinality(places)
<1>4. /\ f \in [1 .. N -> places] /\ N \in Nat
      /\ \A m, n \in 1 .. N : m < n => <<f[m], f[n]>> \in ByStart
      /\ \A m, n \in 1 .. N : f[m] = f[n] => m = n
      /\ \A i \in places : \E n \in 1 .. N : f[n] = i
  BY <1>2, <1>3, SortedIs
<1> HIDE DEF f, N
<1>5. DOMAIN list = 1 .. N /\ DOMAIN f = 1 .. N /\ \A n \in 1 .. N : list[n] = logs[f[n]]
  BY <1>4 DEF At
<1> HIDE DEF list
<1>6. /\ \A n \in 1 .. N : f[n] \in DOMAIN logs
      /\ \A m, n \in 1 .. N : m < n => f[m] # f[n]
      /\ \A i \in DOMAIN logs : logs[i].id[1] = d => \E n \in 1 .. N : f[n] = i
  BY <1>1, <1>4
<1>7. 1 .. N \subseteq Nat
  BY <1>4
<1>8. QED
  BY <1>4, <1>5, <1>6, <1>7 DEF list, f, places

\* The app's lists of a bot show each cleaning and type that was reported and
\* not deleted since with its last report, none twice, newest first: the table
\* has one document per key, and a deletion takes no document of another id.
THEOREM AppIsShownLatest == Spec => []AppSeesLatest
<1>1. ASSUME TypeOK, LogInv PROVE AppSeesLatest
  <2>1. SUFFICES ASSUME NEW d \in Dids, Served(d),
                        NEW list \in {CleanResultList(d), LgLog(d)}
                 PROVE  /\ \A i, j \in DOMAIN list : i < j =>
                             Key(list[i]) # Key(list[j]) /\ Start(list[i]) >= Start(list[j])
                        /\ \A k \in Keys : k.id[1] = d /\ latest[k] # NoValue =>
                             \E i \in DOMAIN list : Key(list[i]) = k /\ list[i].content = latest[k]
    BY DEF AppSeesLatest
  <2> DEFINE f == Sorted(OfBot(d), ByStart)
  <2>2. list = At(f)
    BY <2>1 DEF CleanResultList, LgLog
  <2>3. /\ DOMAIN list = DOMAIN f /\ DOMAIN list \subseteq Nat
        /\ \A n \in DOMAIN list : f[n] \in DOMAIN logs /\ list[n] = logs[f[n]]
        /\ \A m, n \in DOMAIN list : m < n => f[m] # f[n] /\ <<f[m], f[n]>> \in ByStart
        /\ \A i \in DOMAIN logs : logs[i].id[1] = d => \E n \in DOMAIN list : f[n] = i
    BY <1>1, <2>2, ListOfBot
  <2> HIDE DEF f
  <2>4. ASSUME NEW i \in DOMAIN list, NEW j \in DOMAIN list, i < j
        PROVE  Key(list[i]) # Key(list[j]) /\ Start(list[i]) >= Start(list[j])
    <3>1. f[i] \in DOMAIN logs /\ f[j] \in DOMAIN logs /\ f[i] # f[j]
      BY <2>3, <2>4
    <3>2. Key(list[i]) # Key(list[j])
      BY <1>1, <2>3, <3>1 DEF LogInv, OneLogEach
    <3>3. Start(logs[f[i]]) >= Start(logs[f[j]])
      <4>1. <<f[i], f[j]>> \in ByStart
        BY <2>3, <2>4
      <4>2. Start(logs[f[i]]) \in Nat /\ Start(logs[f[j]]) \in Nat
        BY <1>1, <3>1, IdParts
      <4>3. QED
        BY <4>1, <4>2 DEF ByStart
    <3>4. QED
      BY <2>3, <3>2, <3>3
  <2>5. ASSUME NEW k \in Keys, k.id[1] = d, latest[k] # NoValue
        PROVE  \E i \in DOMAIN list : Key(list[i]) = k /\ list[i].content = latest[k]
    <3>1. PICK i \in DOMAIN logs : Key(logs[i]) = k /\ logs[i].content = latest[k]
      BY <1>1, <2>5 DEF LogInv, LatestKept
    <3>2. logs[i].id[1] = d
      BY <2>5, <3>1 DEF Key
    <3>3. PICK n \in DOMAIN list : f[n] = i
      BY <2>3, <3>2
    <3>4. QED
      BY <2>3, <3>1, <3>3
  <2>6. QED
    BY <2>4, <2>5
<1>2. QED
  BY <1>1, LogInvHolds, PTL

-----------------------------------------------------------------------------
(* The pages of the web interface                                           *)

\* Multiples of the size of a page.
LEMMA Multiples ==
  ASSUME NEW limit \in Nat \ {0}, NEW m \in Nat, NEW n \in Nat
  PROVE  /\ m * limit \in Nat /\ m <= m * limit
         /\ m # 0 => (m - 1) * limit + limit = m * limit
         /\ m < n => m * limit + limit <= n * limit
<1>1. m * limit \in Nat /\ m <= m * limit
  OBVIOUS
<1>2. (m - 1) * limit + limit = m * limit
  OBVIOUS
<1>3. ASSUME m < n PROVE m * limit + limit <= n * limit
  <2> DEFINE more == n - (m + 1)
  <2>1. more \in Nat /\ n = m + 1 + more
    BY <1>3
  <2> HIDE DEF more
  <2>2. more * limit \in Nat
    BY <2>1
  <2>3. (m + 1 + more) * limit = m * limit + limit + more * limit
    BY <2>1
  <2>4. QED
    BY <1>1, <2>1, <2>2, <2>3
<1>4. QED
  BY <1>1, <1>2, <1>3

\* Every place lies on a page.
LEMMA OnSomePage ==
  ASSUME NEW limit \in Nat \ {0}, NEW k \in Nat
  PROVE  \E n \in Nat : n * limit <= k /\ k < n * limit + limit
<1> DEFINE past == {n \in Nat : k < n * limit + limit}
           n == Min(past)
<1>1. k \in past
  BY Multiples
<1>2. n \in past /\ \A y \in past : n <= y
  <2>1. past \in SUBSET Nat
    OBVIOUS
  <2> HIDE DEF past
  <2>2. QED
    BY <1>1, <2>1, MinIsLeast
<1> HIDE DEF n
<1>3. n \in Nat /\ k < n * limit + limit
  BY <1>2
<1>4. CASE n = 0
  BY <1>3, <1>4
<1>5. CASE n # 0
  <2>1. n - 1 \in Nat /\ ~(n <= n - 1)
    BY <1>3, <1>5
  <2>2. n - 1 \notin past
    <3> HIDE DEF past
    <3>1. QED
      BY <1>2, <2>1
  <2>3. ~(k < (n - 1) * limit + limit)
    BY <2>1, <2>2
  <2>4. (n - 1) * limit + limit = n * limit /\ n * limit \in Nat
    BY <1>3, <1>5, Multiples
  <2>5. QED
    BY <1>3, <2>3, <2>4
<1>6. QED
  BY <1>4, <1>5

\* What the pages are cut from: the whole table, by time and bot.
LEMMA ListingIs ==
  ASSUME TypeOK
  PROVE  LET f == Sorted(DOMAIN logs, ByStartAndBot)
             N == Len(logs)
         IN  /\ N \in Nat /\ Listing \in Seq(Records) /\ Len(Listing) = N
             /\ \A n \in 1 .. N : f[n] \in DOMAIN logs /\ Listing[n] = logs[f[n]]
             /\ \A m, n \in 1 .. N : m < n => <<f[m], f[n]>> \in ByStartAndBot
             /\ \A m, n \in 1 .. N : f[m] = f[n] => m = n
             /\ \A i \in DOMAIN logs : \E n \in 1 .. N : f[n] = i
<1> DEFINE f == Sorted(DOMAIN logs, ByStartAndBot)
           N == Len(logs)
<1>1. N \in Nat /\ DOMAIN logs = 1 .. N /\ \A i \in 1 .. N : logs[i] \in Records
  <2>1. logs \in Seq(Records)
    BY DEF TypeOK, Records
  <2>2. QED
    BY <2>1
<1>2. IsFiniteSet(DOMAIN logs) /\ Cardinality(DOMAIN logs) = N
  BY <1>1, FS_Interval
<1>3. /\ f \in [1 .. N -> DOMAIN logs]
      /\ \A m, n \in 1 .. N : m < n => <<f[m], f[n]>> \in ByStartAndBot
      /\ \A m, n \in 1 .. N : f[m] = f[n] => m = n
      /\ \A i \in DOMAIN logs : \E n \in 1 .. N : f[n] = i
  BY <1>2, StartOrders, SortedIs
<1>4. Listing = [n \in DOMAIN f |-> logs[f[n]]]
  BY DEF Listing, At
<1> HIDE DEF f, N
<1>5. DOMAIN f = 1 .. N /\ \A n \in 1 .. N : f[n] \in DOMAIN logs
  BY <1>3
<1>6. \A n \in 1 .. N : Listing[n] = logs[f[n]] /\ logs[f[n]] \in Records
  BY <1>1, <1>4, <1>5
<1>7. Listing \in [1 .. N -> Records]
  BY <1>4, <1>5, <1>6
<1>8. Listing \in Seq(Records) /\ Len(Listing) = N
  BY <1>1, <1>7
<1>9. QED
  BY <1>1, <1>3, <1>5, <1>6, <1>8 DEF f, N

\* What stands on a page that one comes to.
LEMMA PageIs ==
  ASSUME TypeOK, NEW limit \in Nat \ {0}, NEW n \in Visited(limit)
  PROVE  LET o == n * limit
             N == Len(logs)
         IN  /\ n \in Nat /\ o \in Nat
             /\ DOMAIN Page(o, limit) = 1 .. (IF o + limit < N THEN limit ELSE N - o)
             /\ \A p \in DOMAIN Page(o, limit) :
                  o + p \in 1 .. N /\ Page(o, limit)[p] = Listing[o + p]
<1> DEFINE o == n * limit
           N == Len(logs)
           last == IF o + limit < N THEN o + limit ELSE N
<1>1. N \in Nat /\ Listing \in Seq(Records) /\ Len(Listing) = N
  BY ListingIs
<1>2. n \in Nat /\ (n = 0 \/ (n - 1) * limit + limit < N)
  BY <1>1 DEF Visited, HasNext
<1>3. o \in Nat /\ o <= N
  BY <1>1, <1>2, Multiples
<1>4. Page(o, limit) = SubSeq(Listing, o + 1, last)
  BY <1>1 DEF Page
<1> HIDE DEF o, N
<1>5. last \in Nat /\ o <= last /\ last <= N
  BY <1>1, <1>3
<1> HIDE DEF last
<1>6. DOMAIN SubSeq(Listing, o + 1, last) = 1 .. last - o
  BY <1>1, <1>3, <1>5
<1>7. ASSUME NEW p \in 1 .. last - o
      PROVE  o + p \in 1 .. N /\ SubSeq(Listing, o + 1, last)[p] = Listing[o + p]
  BY <1>1, <1>3, <1>5
<1>8. last - o = IF o + limit < N THEN limit ELSE N - o
  BY <1>1, <1>3 DEF last
<1>9. QED
  BY <1>2, <1>3, <1>4, <1>6, <1>7, <1>8 DEF o, N

\* Going on while there is a next page shows every log of the table at one place
\* of one page, and nothing else, newest first: the offsets are the multiples of
\* the size, each page but the last is full, and a full one has a next.
THEOREM PagesAreComplete == Spec => []PagesShowAll
<1>1. ASSUME TypeOK, LogInv, NEW limit \in Limits
      PROVE  LET page   == [n \in Visited(limit) |-> Page(n * limit, limit)]
                 shown  == UNION {{n} \X DOMAIN page[n] : n \in Visited(limit)}
                 log(s) == page[s[1]][s[2]]
             IN  /\ \A i \in DOMAIN logs : \E s \in shown : log(s) = logs[i]
                 /\ \A s \in shown : \E i \in DOMAIN logs : log(s) = logs[i]
                 /\ \A s, t \in shown : log(s) = log(t) => s = t
                 /\ \A s, t \in shown :
                      s[1] < t[1] \/ (s[1] = t[1] /\ s[2] < t[2])
                        => Start(log(s)) >= Start(log(t))
  <2> DEFINE N == Len(logs)
             V == Visited(limit)
             f == Sorted(DOMAIN logs, ByStartAndBot)
             page == [n \in V |-> Page(n * limit, limit)]
             shown == UNION {{n} \X DOMAIN page[n] : n \in V}
             log(s) == page[s[1]][s[2]]
             pos(s) == s[1] * limit + s[2]
  <2>1. limit \in Nat \ {0}
    BY LimitsAssumption
  <2>2. /\ N \in Nat
        /\ \A n \in 1 .. N : f[n] \in DOMAIN logs /\ Listing[n] = logs[f[n]]
        /\ \A m, n \in 1 .. N : m < n => <<f[m], f[n]>> \in ByStartAndBot
        /\ \A m, n \in 1 .. N : f[m] = f[n] => m = n
        /\ \A i \in DOMAIN logs : \E n \in 1 .. N : f[n] = i
    BY <1>1, ListingIs
  <2> HIDE DEF f
  <2>3. ASSUME NEW s \in shown
        PROVE  /\ s = <<s[1], s[2]>> /\ s[1] \in Nat /\ s[2] \in 1 .. limit
               /\ s[1] * limit \in Nat /\ pos(s) \in 1 .. N /\ log(s) = logs[f[pos(s)]]
    <3>0. PICK n \in V : s \in {n} \X DOMAIN page[n]
      OBVIOUS
    <3>1. PICK p \in DOMAIN page[n] : s = <<n, p>>
      BY <3>0
    <3>2. page[n] = Page(n * limit, limit)
      BY <3>1
    <3> HIDE DEF page
    <3>3. /\ n \in Nat /\ n * limit \in Nat
          /\ DOMAIN page[n] = 1 .. (IF n * limit + limit < N THEN limit ELSE N - n * limit)
          /\ n * limit + p \in 1 .. N /\ page[n][p] = Listing[n * limit + p]
      BY <1>1, <2>1, <3>1, <3>2, PageIs
    <3>4. p \in 1 .. limit
      BY <2>1, <2>2, <3>1, <3>3
    <3>5. QED
      BY <2>2, <3>1, <3>3, <3>4
  <2>4. ASSUME NEW i \in DOMAIN logs PROVE \E s \in shown : log(s) = logs[i]
    <3>1. PICK k \in 1 .. N : f[k] = i
      BY <2>2
    <3>2. k - 1 \in Nat
      BY <2>2
    <3>3. PICK n \in Nat : n * limit <= k - 1 /\ k - 1 < n * limit + limit
      BY <2>1, <3>2, OnSomePage
    <3> DEFINE o == n * limit
               p == k - o
               s == <<n, p>>
    <3>4. n <= o /\ o \in Nat /\ (n # 0 => (n - 1) * limit + limit = o)
      BY <2>1, Multiples
    <3>5. o <= k - 1 /\ k - 1 < o + limit
      BY <3>3
    <3> HIDE DEF o, N
    <3>6. n \in 0 .. N /\ o < N /\ o + p = k
      BY <2>2, <3>1, <3>4, <3>5
    <3>7. p \in 1 .. (IF o + limit < N THEN limit ELSE N - o)
      BY <2>1, <2>2, <3>1, <3>4, <3>5
    <3>8. n \in V
      BY <3>4, <3>6 DEF Visited, HasNext, N
    <3>9. page[n] = Page(o, limit)
      BY <3>8 DEF o
    <3>10. p \in DOMAIN page[n]
      BY <1>1, <2>1, <3>7, <3>8, <3>9, PageIs DEF o, N
    <3>11. s \in shown
      BY <3>8, <3>10
    <3>12. pos(s) = k
      BY <3>6 DEF o
    <3> HIDE DEF s, p, shown, log, pos
    <3>13. log(s) = logs[f[k]]
      BY <2>3, <3>11, <3>12
    <3>14. QED
      BY <3>1, <3>11, <3>13
  <2>5. ASSUME NEW s \in shown PROVE \E i \in DOMAIN logs : log(s) = logs[i]
    <3> HIDE DEF shown, log, pos
    <3>1. QED
      BY <2>2, <2>3
  \* Places of pages are in the order of the places in the listing.
  <2>6. ASSUME NEW s \in shown, NEW t \in shown,
               s[1] < t[1] \/ (s[1] = t[1] /\ s[2] < t[2])
        PROVE  pos(s) < pos(t)
    <3>1. /\ s[1] \in Nat /\ s[2] \in 1 .. limit /\ s[1] * limit \in Nat
          /\ t[1] \in Nat /\ t[2] \in 1 .. limit /\ t[1] * limit \in Nat
      BY <2>3
    <3>2. CASE s[1] < t[1]
      <4>1. s[1] * limit + limit <= t[1] * limit
        BY <2>1, <3>1, <3>2, Multiples
      <4>2. QED
        BY <2>1, <3>1, <4>1
    <3>3. CASE s[1] = t[1] /\ s[2] < t[2]
      BY <2>1, <3>1, <3>3
    <3>4. QED
      BY <2>6, <3>2, <3>3
  <2> HIDE DEF shown, log, pos
  <2>7. ASSUME NEW s \in shown, NEW t \in shown, log(s) = log(t) PROVE s = t
    <3>1. /\ pos(s) \in 1 .. N /\ f[pos(s)] \in DOMAIN logs /\ log(s) = logs[f[pos(s)]]
          /\ pos(t) \in 1 .. N /\ f[pos(t)] \in DOMAIN logs /\ log(t) = logs[f[pos(t)]]
      BY <2>2, <2>3
    <3>2. f[pos(s)] = f[pos(t)]
      BY <1>1, <2>7, <3>1 DEF LogInv, OneLogEach
    <3>3. pos(s) = pos(t)
      BY <2>2, <3>1, <3>2
    <3>4. ~(pos(s) < pos(t)) /\ ~(pos(t) < pos(s))
      BY <2>2, <3>1, <3>3
    <3>5. /\ s = <<s[1], s[2]>> /\ s[1] \in Nat /\ s[2] \in 1 .. limit
          /\ t = <<t[1], t[2]>> /\ t[1] \in Nat /\ t[2] \in 1 .. limit
      BY <2>3
    <3>6. s[1] = t[1]
      BY <2>6, <3>4, <3>5
    <3>7. s[2] = t[2]
      BY <2>1, <2>6, <3>4, <3>5, <3>6
    <3>8. QED
      BY <3>5, <3>6, <3>7
  <2>8. ASSUME NEW s \in shown, NEW t \in shown,
               s[1] < t[1] \/ (s[1] = t[1] /\ s[2] < t[2])
        PROVE  Start(log(s)) >= Start(log(t))
    <3>1. pos(s) < pos(t)
      BY <2>6, <2>8
    <3>2. /\ pos(s) \in 1 .. N /\ f[pos(s)] \in DOMAIN logs /\ log(s) = logs[f[pos(s)]]
          /\ pos(t) \in 1 .. N /\ f[pos(t)] \in DOMAIN logs /\ log(t) = logs[f[pos(t)]]
      BY <2>2, <2>3
    <3>3. <<f[pos(s)], f[pos(t)]>> \in ByStartAndBot
      BY <2>2, <3>1, <3>2
    <3>4. logs[f[pos(s)]].id[2] \in Nat /\ logs[f[pos(t)]].id[2] \in Nat
      BY <1>1, <3>2, IdParts
    <3>5. logs[f[pos(s)]].id[2] >= logs[f[pos(t)]].id[2]
      BY <3>3, <3>4 DEF ByStartAndBot
    <3>6. QED
      BY <3>2, <3>5 DEF Start
  <2>9. QED
    BY <2>4, <2>5, <2>7, <2>8 DEF shown, log
<1>2. TypeOK /\ LogInv => PagesShowAll
  BY <1>1 DEF PagesShowAll
<1>3. QED
  BY <1>2, LogInvHolds, PTL
=============================================================================
