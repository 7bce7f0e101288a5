------------------------------ MODULE Devices ------------------------------
(***************************************************************************)
(* What the app is told about its bots: the records of the bots as a table  *)
(* of documents (bumper/db/bots.py), the product catalogue that is read     *)
(* from files once and then kept and changed in memory                      *)
(* (bumper/web/static_api, bumper/web/plugins/api/appsvr.py), and the       *)
(* device list that is put together from both.  The connection flags of the *)
(* records are in Broker and XmppSession.                                   *)
(***************************************************************************)
EXTENDS Naturals, Sequences, FiniteSets, SequencesExt

CONSTANTS
  Dids,       \* ids of bots, numbers in the order of their texts
  Classes,    \* class ids (mid), known to the product map or not
  Names,      \* names of products and groups of robots
  Categories, \* product categories
  NoDid,      \* the id of a document that has none
  NoValue,    \* a field that is not there
  Product,    \* per class of the product map: the product's name
  Robots,     \* the robots of all config groups in file order: [mid, group, category]
  Prefix,     \* per product name: the category its beginning stands for
  MaxGhosts   \* bound: documents without an id

Companies == {"eco-ng", "eco-legacy"}

RobotRecords ==
  [mid : Classes \cup {NoValue}, group : Names \cup {NoValue}, category : Categories]

ASSUME AbsentAssumption == NoDid \notin Dids /\ NoValue \notin Classes \cup Names
ASSUME ProductAssumption ==
  DOMAIN Product \subseteq Classes /\ Product \in [DOMAIN Product -> Names]
ASSUME RobotsAssumption == Robots \in Seq(RobotRecords)
ASSUME PrefixAssumption == Prefix \in [Names -> Categories]
ASSUME GhostsAssumption == MaxGhosts \in Nat

VARIABLES
  bots,    \* the table of bots, in the order of insertion
  robots,  \* the cached config groups
  guided   \* the classes that were answered with a guide since the start

deviceVars == <<bots, robots, guided>>

DevicesInit ==
  /\ bots = <<>>
  /\ robots = Robots
  /\ guided = {}

-----------------------------------------------------------------------------
(* Records                                                                  *)

\* The place of the record of a bot, 0 if there is none.
BotAt(d) == SelectInSeq(bots, LAMBDA b : b.did = d)
Ghosts   == {i \in DOMAIN bots : bots[i].did = NoDid}

VacBotDevice(d, c, company) == [did |-> d, class |-> c, company |-> company]

\* from_dict() of a document that has a nickname and nothing else.
Nameless == VacBotDevice(NoDid, NoValue, NoValue)

\* add(): a login over MQTT ("eco-ng") or XMPP ("eco-legacy"); what the first
\* login wrote stays.
Add(d, c, company) ==
  /\ bots' = IF BotAt(d) # 0 THEN bots
             ELSE Append(bots, VacBotDevice(d, c, company))
  /\ UNCHANGED <<robots, guided>>

\* SetDeviceNick and AddOneDevice: set_nick() inserts a document with nothing
\* but the nickname, which is not modelled, when the bot is not there.
SetNick(d) ==
  /\ IF BotAt(d) # 0 THEN UNCHANGED bots
     ELSE /\ Cardinality(Ghosts) < MaxGhosts
          /\ bots' = Append(bots, Nameless)
  /\ UNCHANGED <<robots, guided>>

\* DeleteOneDevice, or the bot's remove button.
DeleteOneDevice(d) ==
  /\ bots' = IF BotAt(d) = 0 THEN bots ELSE RemoveAt(bots, BotAt(d))
  /\ UNCHANGED <<robots, guided>>

\* Commands and clean logs are for bots that came over MQTT first.
Served(d) == BotAt(d) # 0 /\ bots[BotAt(d)].company = "eco-ng"

-----------------------------------------------------------------------------
(* Catalogue                                                                *)

\* _get_config_groups_robot(): the first robot with that value, 0 if none.
RobotByMid(c)      == SelectInSeq(robots, LAMBDA r : r.mid = c)
RobotByGroup(name) == SelectInSeq(robots, LAMBDA r : r.group = name)

\* _get_product_category()
Category(name, robot) == IF robot # 0 THEN robots[robot].category ELSE Prefix[name]

\* Faulty: the robot keeps its groupName.
TakeAgain(c, robot) == [robots EXCEPT ![robot].mid = c]

\* What the handler does to the cached robot before it sends it: the scanned
\* class becomes its mid, and groupName is popped.
Take(c, robot) == [robots EXCEPT ![robot].mid = c, ![robot].group = NoValue]

Guide(c) == IF c \in DOMAIN Product THEN RobotByGroup(Product[c]) ELSE 0

\* DecodeQrCode with the class of a bot: the guide is the robot of the
\* product's group, or null.
DecodeQrCode(c) ==
  /\ IF Guide(c) # 0
     THEN robots' = Take(c, Guide(c)) /\ guided' = guided \cup {c}
     ELSE UNCHANGED <<robots, guided>>
  /\ UNCHANGED bots

\* A restart of the process reads the files again.
Restart ==
  /\ robots' = Robots
  /\ guided' = {}
  /\ UNCHANGED bots

\* _include_product_iot_map_info() of a bot whose class is in the product map.
Entry(b) ==
  LET name    == Product[b.class]
      byMid   == RobotByMid(b.class)
  IN  [did |-> b.did,
       category |-> Category(name, IF byMid # 0 THEN byMid ELSE RobotByGroup(name))]

\* Faulty: a bot without a class is listed as well.
EveryDocument ==
  [i \in DOMAIN bots |-> [did |-> bots[i].did, category |-> "UNKNOWN"]]

\* create_device_list(): an entry at the place of every bot it does not leave out.
DeviceList ==
  [i \in {j \in DOMAIN bots : bots[j].class \in DOMAIN Product} |-> Entry(bots[i])]

DevicesNext ==
  \/ \E d \in Dids, c \in Classes, company \in Companies : Add(d, c, company)
  \/ \E d \in Dids : SetNick(d) \/ DeleteOneDevice(d)
  \/ \E c \in Classes : DecodeQrCode(c)
  \/ Restart

DevicesSpec == DevicesInit /\ [][DevicesNext]_deviceVars

-----------------------------------------------------------------------------
(* Properties                                                               *)

\* Type invariant of the table of bots and the cached catalogue.
DevicesTypeOK ==
  /\ bots \in Seq([did : Dids, class : Classes, company : Companies] \cup {Nameless})
  /\ robots \in Seq(RobotRecords)
  /\ guided \subseteq DOMAIN Product

\* The device list shows each bot once, and nothing that is no bot: the
\* documents that set_nick() leaves for unknown bots, which no request can
\* remove, do not show there, whatever the order of logins, names and deletions.
ListedOnce ==
  /\ \A i, j \in DOMAIN DeviceList : DeviceList[i].did = DeviceList[j].did => i = j
  /\ \A i \in DOMAIN DeviceList : DeviceList[i].did \in Dids

\* A class that was answered with a guide is found in the catalogue by its id
\* from then on, so that the device list has its category, although later
\* scans of other classes change the same cached robots.
GuidedStaysKnown == \A c \in guided : RobotByMid(c) # 0
=============================================================================
