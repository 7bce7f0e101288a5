------------------------------ MODULE Startup ------------------------------
(***************************************************************************)
(* start_configuration() (bumper/__init__.py) and what it makes of the      *)
(* files it finds: the certificates (bumper/utils/certs.py), whose authority *)
(* bots download (web/single_paths.py), and the database, whose clean logs   *)
(* it migrates (bumper/db/migration.py).  The process may die between any    *)
(* two writes and be started again.                                         *)
(*                                                                         *)
(* In the old schema a bot has one document with the list of its logs, in   *)
(* the new one every log is a document that names its bot.                  *)
(***************************************************************************)
EXTENDS Naturals, ServerNames

CONSTANTS
  Logs,     \* clean logs
  Bots,     \* bots
  Of,       \* whose log each is
  Domains,  \* the domains the certificate is made for
  Copied,   \* the script's copy of them
  MaxGens   \* bound: generations of certificates

ASSUME OfAssumption == Of \in [Logs -> Bots]
\* A name of the DNS has 127 labels at most.
ASSUME DomainsAssumption == \A d \in Domains : d \in Seq(STRING) /\ Len(d) \in 2 .. 127
ASSUME CopiedAssumption == Copied = Domains
ASSUME GensAssumption == MaxGens \in Nat \ {0}

VARIABLES
  boot,       \* where start_configuration() stands; "off" when no process runs
  file,       \* per certificate file: 0 absent, else the generation it is of, Torn, or Own
  gen,        \* generations so far
  next,       \* the file to be written next
  mixed,      \* whether a crash left old and new files that all exist
  archive,    \* what is in the process's ca-certificates.tar.gz, {} without one
  nested,     \* the bots that have a document in the old schema
  flat,       \* the documents in the new one: log and bot
  entries,    \* new_entries of a migration under way
  version,    \* db_version
  backups,    \* the contents of the table in the backups made
  malformed,  \* whether some old document is not what the migration expects
  known,      \* the logs there were before the first start or came later, less those deleted
  cut         \* whether the process died between truncate() and set_db_version()

fileVars == <<file, gen, next, mixed, archive>>
dbVars   == <<nested, flat, version, backups, malformed, known, cut>>
vars == <<boot, fileVars, dbVars, entries>>

Order == <<"ca_key", "ca_cert", "server_key", "server_cert", "ca_pem">>
Files == {Order[i] : i \in 1 .. Len(Order)}
Required == {"ca_cert", "server_cert", "server_key"}
Torn == MaxGens + 1
Own  == MaxGens + 2   \* of the user's own

Key(of, g)           == [of |-> of, gen |-> g]
CaCertificate(g)     == [key |-> Key("ca", g), signedBy |-> Key("ca", g)]
ServerCertificate(g) == [key |-> Key("server", g), signedBy |-> Key("ca", g)]

\* What the file holds when it is of generation g.
Contents(f, g) ==
  IF g \in {0, Torn} THEN {}
  ELSE (IF f = "ca_key" THEN {Key("ca", g)} ELSE {})
       \cup (IF f \in {"server_key", "ca_pem"} THEN {Key("server", g)} ELSE {})
       \cup (IF f \in {"server_cert", "ca_pem"} THEN {ServerCertificate(g)} ELSE {})
       \cup (IF f \in {"ca_cert", "ca_pem"} THEN {CaCertificate(g)} ELSE {})

OldVersions == {"0.0.0", "0.2.2"}
LogsOf(bots) == {l \in Logs : Of[l] \in bots}
Flattened(bots) == {<<l, Of[l]>> : l \in LogsOf(bots)}

Init ==
  /\ boot = "off"
  /\ \/ file = [f \in Files |-> 0]
     \/ file = [f \in Files |-> IF f \in Required THEN Own ELSE 0]
  /\ gen = 0 /\ next = 1 /\ mixed = FALSE /\ archive = {}
  /\ \/ version \in OldVersions /\ nested \in SUBSET Bots /\ flat = {} /\ malformed \in BOOLEAN
     \/ /\ version \in {"0.2.3", "app"} /\ nested = {} /\ flat \in {{}, Flattened(Bots)}
        /\ malformed = FALSE
  /\ known = LogsOf(nested) \cup {d[1] : d \in flat}
  /\ entries = {} /\ backups = {} /\ cut = FALSE

-----------------------------------------------------------------------------
(* generate_certificates()                                                  *)

\* Faulty: the key is not asked for.
KeepWithoutKey ==
  /\ boot = "off"
  /\ \A f \in Required \ {"server_key"} : file[f] # 0
  /\ boot' = "migrating"
  /\ UNCHANGED <<fileVars, dbVars, entries>>

\* Files that exist are taken as they are, whatever is in them.
KeepCertificates ==
  /\ boot = "off"
  /\ \A f \in Required : file[f] # 0
  /\ boot' = "migrating"
  /\ UNCHANGED <<fileVars, dbVars, entries>>

NewCertificates ==
  /\ boot = "off" /\ gen < MaxGens
  /\ \E f \in Required : file[f] = 0
  /\ boot' = "writing" /\ gen' = gen + 1 /\ next' = 1
  /\ UNCHANGED <<file, mixed, archive, dbVars, entries>>

\* write_bytes() opens a file, which empties it ...
OpenFile ==
  /\ boot = "writing"
  /\ file' = [file EXCEPT ![Order[next]] = Torn]
  /\ boot' = "filling"
  /\ UNCHANGED <<gen, next, mixed, archive, dbVars, entries>>

\* ... and fills it.
FillFile ==
  /\ boot = "filling"
  /\ file' = [file EXCEPT ![Order[next]] = gen]
  /\ IF next = Len(Order)
     THEN boot' = "migrating" /\ next' = 1 /\ mixed' = FALSE
     ELSE boot' = "writing" /\ next' = next + 1 /\ UNCHANGED mixed
  /\ UNCHANGED <<gen, archive, dbVars, entries>>

-----------------------------------------------------------------------------
(* migrate_db()                                                             *)

\* Faulty: no copy is made.
BackupNothing ==
  /\ boot = "migrating" /\ version \in OldVersions
  /\ boot' = "backed_up"
  /\ UNCHANGED <<fileVars, nested, flat, version, backups, malformed, known, cut, entries>>

\* A version that MIGRATIONS names: the database is copied, to a file named by
\* the second; a restart takes longer than that, so no copy replaces another.
Backup ==
  /\ boot = "migrating" /\ version \in OldVersions
  /\ backups' = backups \cup {<<nested, flat>>}
  /\ boot' = "backed_up"
  /\ UNCHANGED <<fileVars, nested, flat, version, malformed, known, cut, entries>>

\* Documents without "logs" are skipped; one that is malformed raises before
\* anything is changed, and Bumper does not start.
Flatten ==
  /\ boot = "backed_up"
  /\ IF malformed /\ nested # {} THEN boot' = "off" /\ UNCHANGED entries
                                 ELSE boot' = "flattened" /\ entries' = Flattened(nested)
  /\ UNCHANGED <<fileVars, dbVars>>

Truncate ==
  /\ boot = "flattened"
  /\ nested' = {} /\ flat' = {}
  /\ boot' = "truncated"
  /\ UNCHANGED <<fileVars, version, backups, malformed, known, cut, entries>>

\* Faulty: every log is put down to the first bot.
InsertForOne ==
  /\ boot = "truncated"
  /\ \E b \in Bots : flat' = flat \cup {<<e[1], b>> : e \in entries}
  /\ boot' = "inserted"
  /\ UNCHANGED <<fileVars, nested, version, backups, malformed, known, cut, entries>>

InsertMultiple ==
  /\ boot = "truncated"
  /\ flat' = flat \cup entries
  /\ boot' = "inserted"
  /\ UNCHANGED <<fileVars, nested, version, backups, malformed, known, cut, entries>>

SetVersion ==
  /\ boot = "inserted"
  /\ version' = "0.2.3" /\ entries' = {}
  /\ boot' = "migrating"
  /\ UNCHANGED <<fileVars, nested, flat, backups, malformed, known, cut>>

\* No migration is left; the version becomes the application's.
Align ==
  /\ boot = "migrating" /\ version \notin OldVersions
  /\ version' = "app" /\ boot' = "serving"
  /\ UNCHANGED <<fileVars, nested, flat, backups, malformed, known, cut, entries>>

-----------------------------------------------------------------------------
(* Afterwards                                                               *)

\* A bot reports a clean log, or the app deletes one.
Report(l) ==
  /\ boot = "serving" /\ flat' = flat \cup {<<l, Of[l]>>} /\ known' = known \cup {l}
  /\ UNCHANGED <<boot, fileVars, nested, version, backups, malformed, cut, entries>>

Delete(l) ==
  /\ boot = "serving" /\ <<l, Of[l]>> \in flat
  /\ flat' = flat \ {<<l, Of[l]>>} /\ known' = known \ {l}
  /\ UNCHANGED <<boot, fileVars, nested, version, backups, malformed, cut, entries>>

\* handle_ca_certificates(): the archive is made once per process, in a
\* directory of its own.
Download ==
  /\ boot = "serving"
  /\ archive' = IF archive = {} THEN Contents("ca_cert", file["ca_cert"]) ELSE archive
  /\ UNCHANGED <<boot, file, gen, next, mixed, dbVars, entries>>

\* The process stops or dies, at any point.
Crash ==
  /\ boot # "off"
  /\ boot' = "off" /\ entries' = {}
  /\ mixed' = (mixed \/ (boot \in {"writing", "filling"} /\ \A f \in Required : file[f] # 0))
  /\ cut' = (cut \/ boot \in {"truncated", "inserted"})
  /\ archive' = {}
  /\ UNCHANGED <<file, gen, next, nested, flat, version, backups, malformed, known>>

\* The user removes a file to have it made again.
RemoveFile(f) ==
  /\ boot = "off" /\ file[f] # 0
  /\ file' = [file EXCEPT ![f] = 0]
  /\ UNCHANGED <<boot, gen, next, mixed, archive, dbVars, entries>>

Next ==
  \/ KeepCertificates \/ NewCertificates \/ OpenFile \/ FillFile
  \/ Backup \/ Flatten \/ Truncate \/ InsertMultiple \/ SetVersion \/ Align
  \/ \E l \in Logs : Report(l) \/ Delete(l)
  \/ Download \/ Crash
  \/ \E f \in Files : RemoveFile(f)

Spec == Init /\ [][Next]_vars

-----------------------------------------------------------------------------
(* Properties                                                               *)

TypeOK ==
  /\ boot \in {"off", "writing", "filling", "migrating", "backed_up", "flattened", "truncated",
               "inserted", "serving"}
  /\ file \in [Files -> 0 .. Own] /\ gen \in 0 .. MaxGens
  /\ next \in 1 .. Len(Order) /\ mixed \in BOOLEAN
  /\ archive \subseteq {CaCertificate(g) : g \in (1 .. MaxGens) \cup {Own}}
  /\ nested \subseteq Bots /\ flat \subseteq Logs \X Bots /\ entries \subseteq Logs \X Bots
  /\ version \in OldVersions \cup {"0.2.3", "app"}
  /\ backups \subseteq (SUBSET Bots) \X (SUBSET (Logs \X Bots))
  /\ malformed \in BOOLEAN /\ known \subseteq Logs /\ cut \in BOOLEAN

\* Who trusts the certificate that Bumper hands out accepts its server: when
\* Bumper serves, the server has the key of its certificate, which ca_cert
\* and the archive that bots download have signed; the CA's key and ca.pem
\* match too where they exist.  So whichever files were removed and wherever a
\* process died, unless it died among files that all existed: those are never
\* looked into again.
ChainHolds ==
  boot = "serving" /\ ~mixed =>
    \E ca \in Contents("ca_cert", file["ca_cert"]),
       server \in Contents("server_cert", file["server_cert"]) :
      /\ server.signedBy = ca.key
      /\ Contents("server_key", file["server_key"]) = {server.key}
      /\ archive \subseteq {ca}
      /\ file["ca_key"] # 0 => Contents("ca_key", file["ca_key"]) = {ca.key}
      /\ file["ca_pem"] # 0 => Contents("ca_pem", file["ca_pem"]) = {server.key, server, ca}

\* Whenever the process dies, no clean log is lost: each that is known and
\* was not deleted is in the table or in a backup.
LogsRecoverable ==
  \A l \in known :
    \/ Of[l] \in nested \/ <<l, Of[l]>> \in flat
    \/ \E b \in backups : Of[l] \in b[1] \/ <<l, Of[l]>> \in b[2]

\* What is served has the new schema, every log under its own bot, and no log
\* is missing unless a migration was cut off between its writes.
Migrated ==
  boot = "serving" =>
    /\ nested = {} /\ \A d \in flat : d[2] = Of[d[1]]
    /\ cut \/ \A l \in known : <<l, Of[l]>> \in flat

\* Every host in the list of domains (_ECOVACS_DOMAINS) is a name in a server
\* certificate that Bumper made, a wildcard standing for one label, and in one
\* made by hand for the names that clean-domains.py prints.  Hosts that Bumper
\* hands out and that are not in the list are not looked at.
Uncovered == {d \in Domains : \A n \in SanList(Domains) : ~Covers(n, d)}
NamedDifferently == SanList(Domains) # ScriptNames(Copied)
HostsAreNamed == file["server_cert"] \in 1 .. gen => Uncovered = {} /\ ~NamedDifferently

=============================================================================
