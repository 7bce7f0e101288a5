---------------------------- MODULE StartupProof ----------------------------
(***************************************************************************)
(* Proofs about Startup, for any logs, bots, domains and number of          *)
(* generations.                                                            *)
(*                                                                         *)
(* The certificates: unless a crash mixed them, files that all exist are of *)
(* one generation (Coherent), since the files are written in one order and  *)
(* until the last of them the process is not past that stage (Written).     *)
(* The clean logs: a copy of the database as it is precedes whatever        *)
(* empties it (CopiedFirst), and what the migration holds in memory is what *)
(* it has emptied (InHand).                                                 *)
(* The names: a node is a suffix of a domain, and a name of the script is   *)
(* one of all that hang on a node, by the one solution of its recursion.    *)
(***************************************************************************)
EXTENDS Startup, WellFoundedInduction, TLAPS

Gens == 1 .. MaxGens

AllPresent == \A f \in Required : file[f] # 0

OneGeneration(g) ==
  /\ \A f \in Required : file[f] = g
  /\ \A f \in Files \ Required : file[f] \in {0, g}

Coherent == \E g \in Gens \cup {Own} : OneGeneration(g)

Written ==
  /\ boot \in {"writing", "filling"} =>
       gen \in Gens /\ \A i \in 1 .. Len(Order) : i < next => file[Order[i]] = gen
  /\ boot \notin {"off", "writing", "filling"} => AllPresent
  /\ ~mixed /\ boot \notin {"writing", "filling"} /\ AllPresent => Coherent

Served ==
  /\ boot # "serving" => archive = {}
  /\ archive \subseteq Contents("ca_cert", file["ca_cert"])

CertInv == Written /\ Served

CopiedFirst == boot \in {"backed_up", "flattened"} => <<nested, flat>> \in backups

Schema ==
  /\ \A d \in flat \cup entries : d[2] = Of[d[1]]
  /\ version \notin OldVersions \/ boot \in {"truncated", "inserted"} => nested = {}
  /\ boot \in {"backed_up", "flattened", "truncated", "inserted"} => version \in OldVersions
  /\ boot = "serving" => version \notin OldVersions

Here(l) ==
  IF boot = "truncated" THEN <<l, Of[l]>> \in entries
  ELSE IF boot = "inserted" \/ version \notin OldVersions THEN <<l, Of[l]>> \in flat
  ELSE Of[l] \in nested

InHand ==
  /\ boot = "flattened" => \A l \in Logs : Of[l] \in nested => <<l, Of[l]>> \in entries
  /\ ~cut => \A l \in known : Here(l)

LogInv == CopiedFirst /\ LogsRecoverable /\ Schema /\ InHand

-----------------------------------------------------------------------------
(* Facts about the operators                                                *)

\* The order of the files, and the files by name.
LEMMA OrderFacts ==
  /\ Len(Order) = 5
  /\ \A i \in 1 .. 5 : Order[i] \in Files
  /\ \A f \in Files : \E i \in 1 .. 5 : Order[i] = f
  /\ Files = {"ca_key", "ca_cert", "server_key", "server_cert", "ca_pem"}
  /\ Required \subseteq Files
<1>1. Len(Order) = 5
  BY DEF Order
<1>2. 1 .. Len(Order) = {1, 2, 3, 4, 5}
  BY <1>1
<1>3. /\ Order[1] = "ca_key" /\ Order[2] = "ca_cert" /\ Order[3] = "server_key"
      /\ Order[4] = "server_cert" /\ Order[5] = "ca_pem"
  BY DEF Order
<1> HIDE DEF Order
<1>4. Files = {"ca_key", "ca_cert", "server_key", "server_cert", "ca_pem"}
  BY <1>2, <1>3 DEF Files
<1>5. \A i \in 1 .. 5 : Order[i] \in Files
  BY <1>1, <1>2, <1>3, <1>4
<1> QED BY <1>1, <1>3, <1>4, <1>5 DEF Required

\* ca_cert holds the authority's own certificate, if it holds one.
LEMMA CaCertHolds ==
  ASSUME NEW g \in 0 .. Own
  PROVE  /\ Contents("ca_cert", g) \subseteq {CaCertificate(h) : h \in (1 .. MaxGens) \cup {Own}}
         /\ Contents("ca_cert", g) \subseteq {CaCertificate(g)}
<1> USE GensAssumption
<1>1. g \notin {0, Torn} => g \in (1 .. MaxGens) \cup {Own}
  BY DEF Own, Torn
<1>2. Contents("ca_cert", g) = IF g \in {0, Torn} THEN {} ELSE {CaCertificate(g)}
  BY DEF Contents
<1> QED BY <1>1, <1>2

-----------------------------------------------------------------------------
(* Steps                                                                    *)

\* A step leaves the variables in their types.
LEMMA TypeStep ==
  ASSUME TypeOK, [Next]_vars
  PROVE  TypeOK'
<1> USE OfAssumption, GensAssumption DEF TypeOK, vars, fileVars, dbVars
<1>1. ASSUME KeepCertificates PROVE TypeOK'
  BY <1>1 DEF KeepCertificates
<1>2. ASSUME NewCertificates PROVE TypeOK'
  BY <1>2 DEF NewCertificates
<1>3. ASSUME OpenFile PROVE TypeOK'
  <2>1. Order[next] \in Files /\ Torn \in 0 .. Own
    BY OrderFacts DEF Torn, Own
  <2>2. file' \in [Files -> 0 .. Own]
    BY <1>3, <2>1 DEF OpenFile
  <2> QED BY <1>3, <2>2 DEF OpenFile
<1>4. ASSUME FillFile PROVE TypeOK'
  <2>1. Order[next] \in Files /\ gen \in 0 .. Own /\ Len(Order) = 5
    BY OrderFacts DEF Own
  <2>2. file' \in [Files -> 0 .. Own]
    BY <1>4, <2>1 DEF FillFile
  <2>3. next' \in 1 .. Len(Order)
    BY <1>4, <2>1 DEF FillFile
  <2> QED BY <1>4, <2>2, <2>3 DEF FillFile
<1>5. ASSUME Backup PROVE TypeOK'
  BY <1>5 DEF Backup
<1>6. ASSUME Flatten PROVE TypeOK'
  <2>1. Flattened(nested) \subseteq Logs \X Bots
    BY DEF Flattened, LogsOf
  <2> QED BY <1>6, <2>1 DEF Flatten
<1>7. ASSUME Truncate PROVE TypeOK'
  BY <1>7 DEF Truncate
<1>8. ASSUME InsertMultiple PROVE TypeOK'
  BY <1>8 DEF InsertMultiple
<1>9. ASSUME SetVersion PROVE TypeOK'
  BY <1>9 DEF SetVersion
<1>10. ASSUME Align PROVE TypeOK'
  BY <1>10 DEF Align
<1>11. ASSUME NEW l \in Logs, Report(l) PROVE TypeOK'
  BY <1>11 DEF Report
<1>12. ASSUME NEW l \in Logs, Delete(l) PROVE TypeOK'
  BY <1>12 DEF Delete
<1>13. ASSUME Download PROVE TypeOK'
  <2>1. file["ca_cert"] \in 0 .. Own
    BY OrderFacts
  <2>2. archive' \subseteq {CaCertificate(h) : h \in (1 .. MaxGens) \cup {Own}}
    BY <1>13, <2>1, CaCertHolds DEF Download
  <2> QED BY <1>13, <2>2 DEF Download
<1>14. ASSUME Crash PROVE TypeOK'
  BY <1>14 DEF Crash
<1>15. ASSUME NEW f \in Files, RemoveFile(f) PROVE TypeOK'
  <2>1. 0 \in 0 .. Own
    BY DEF Own
  <2>2. file' \in [Files -> 0 .. Own]
    BY <1>15, <2>1 DEF RemoveFile
  <2> QED BY <1>15, <2>2 DEF RemoveFile
<1>16. ASSUME UNCHANGED vars PROVE TypeOK'
  BY <1>16
<1> QED BY <1>1, <1>2, <1>3, <1>4, <1>5, <1>6, <1>7, <1>8, <1>9, <1>10, <1>11, <1>12, <1>13, <1>14, <1>15, <1>16 DEF Next

\* A step keeps the clean logs where the invariant has them.
LEMMA LogStep ==
  ASSUME TypeOK, TypeOK', LogInv, [Next]_vars
  PROVE  LogInv'
<1> USE OfAssumption, GensAssumption DEF TypeOK, LogInv, CopiedFirst, LogsRecoverable, Schema, InHand, Here, Flattened, LogsOf, OldVersions, vars, fileVars, dbVars
<1>1. ASSUME KeepCertificates PROVE LogInv'
  BY <1>1 DEF KeepCertificates
<1>2. ASSUME NewCertificates PROVE LogInv'
  BY <1>2 DEF NewCertificates
<1>3. ASSUME OpenFile PROVE LogInv'
  BY <1>3 DEF OpenFile
<1>4. ASSUME FillFile PROVE LogInv'
  BY <1>4 DEF FillFile
<1>5. ASSUME Backup PROVE LogInv'
  BY <1>5 DEF Backup
<1>6. ASSUME Flatten PROVE LogInv'
  BY <1>6 DEF Flatten
<1>7. ASSUME Truncate PROVE LogInv'
  BY <1>7 DEF Truncate
<1>8. ASSUME InsertMultiple PROVE LogInv'
  BY <1>8 DEF InsertMultiple
<1>9. ASSUME SetVersion PROVE LogInv'
  BY <1>9 DEF SetVersion
<1>10. ASSUME Align PROVE LogInv'
  BY <1>10 DEF Align
<1>11. ASSUME NEW l \in Logs, Report(l) PROVE LogInv'
  BY <1>11 DEF Report
<1>12. ASSUME NEW l \in Logs, Delete(l) PROVE LogInv'
  BY <1>12 DEF Delete
<1>13. ASSUME Download PROVE LogInv'
  BY <1>13 DEF Download
<1>14. ASSUME Crash PROVE LogInv'
  BY <1>14 DEF Crash
<1>15. ASSUME NEW f \in Files, RemoveFile(f) PROVE LogInv'
  BY <1>15 DEF RemoveFile
<1>16. ASSUME UNCHANGED vars PROVE LogInv'
  BY <1>16
<1> QED BY <1>1, <1>2, <1>3, <1>4, <1>5, <1>6, <1>7, <1>8, <1>9, <1>10, <1>11, <1>12, <1>13, <1>14, <1>15, <1>16 DEF Next

\* A step keeps files that all exist of one generation.
LEMMA CertStep ==
  ASSUME TypeOK, TypeOK', CertInv, [Next]_vars
  PROVE  CertInv'
<1> USE OfAssumption, GensAssumption DEF TypeOK, CertInv, Written, Served, Coherent, AllPresent, OneGeneration, Gens, vars, fileVars, dbVars
<1>1. ASSUME KeepCertificates PROVE CertInv'
  BY <1>1 DEF KeepCertificates
<1>2. ASSUME NewCertificates PROVE CertInv'
  BY OrderFacts, <1>2 DEF NewCertificates
<1>3. ASSUME OpenFile PROVE CertInv'
  BY OrderFacts, <1>3 DEF OpenFile
<1>4. ASSUME FillFile PROVE CertInv'
  BY OrderFacts, <1>4 DEF FillFile
<1>5. ASSUME Backup PROVE CertInv'
  BY <1>5 DEF Backup
<1>6. ASSUME Flatten PROVE CertInv'
  BY <1>6 DEF Flatten
<1>7. ASSUME Truncate PROVE CertInv'
  BY <1>7 DEF Truncate
<1>8. ASSUME InsertMultiple PROVE CertInv'
  BY <1>8 DEF InsertMultiple
<1>9. ASSUME SetVersion PROVE CertInv'
  BY <1>9 DEF SetVersion
<1>10. ASSUME Align PROVE CertInv'
  BY <1>10 DEF Align
<1>11. ASSUME NEW l \in Logs, Report(l) PROVE CertInv'
  BY <1>11 DEF Report
<1>12. ASSUME NEW l \in Logs, Delete(l) PROVE CertInv'
  BY <1>12 DEF Delete
<1>13. ASSUME Download PROVE CertInv'
  BY <1>13 DEF Download
<1>14. ASSUME Crash PROVE CertInv'
  BY <1>14 DEF Crash
<1>15. ASSUME NEW f \in Files, RemoveFile(f) PROVE CertInv'
  BY OrderFacts, <1>15 DEF RemoveFile
<1>16. ASSUME UNCHANGED vars PROVE CertInv'
  BY <1>16
<1> QED BY <1>1, <1>2, <1>3, <1>4, <1>5, <1>6, <1>7, <1>8, <1>9, <1>10, <1>11, <1>12, <1>13, <1>14, <1>15, <1>16 DEF Next

-----------------------------------------------------------------------------
(* Theorems                                                                 *)

LEMMA InitTypes ==
  Init => TypeOK
<1> SUFFICES ASSUME Init PROVE TypeOK
  OBVIOUS
<1> USE OfAssumption, GensAssumption DEF Init
<1>1. file \in [Files -> 0 .. Own]
  BY DEF Own
<1>2. gen \in 0 .. MaxGens /\ next \in 1 .. Len(Order)
  BY OrderFacts
<1>3. nested \subseteq Bots /\ flat \subseteq Logs \X Bots /\ known \subseteq Logs
  BY DEF Flattened, LogsOf
<1> QED BY <1>1, <1>2, <1>3 DEF TypeOK

LEMMA InitCertificates ==
  Init => CertInv
<1> SUFFICES ASSUME Init PROVE CertInv
  OBVIOUS
<1> USE GensAssumption DEF Init
<1>1. AllPresent => Coherent
  <2>1. CASE file = [f \in Files |-> 0]
    BY <2>1, OrderFacts DEF AllPresent, Required
  <2>2. CASE file = [f \in Files |-> IF f \in Required THEN Own ELSE 0]
    <3>1. OneGeneration(Own)
      BY <2>2, OrderFacts DEF OneGeneration
    <3> QED BY <3>1 DEF Coherent
  <2> QED BY <2>1, <2>2
<1> QED BY <1>1 DEF CertInv, Written, Served

LEMMA InitLogs ==
  Init => LogInv
<1> SUFFICES ASSUME Init PROVE LogInv
  OBVIOUS
<1> USE OfAssumption DEF Init, OldVersions
<1>1. \A l \in known : IF version \in OldVersions THEN Of[l] \in nested ELSE <<l, Of[l]>> \in flat
  BY DEF Flattened, LogsOf
<1>2. CopiedFirst /\ LogsRecoverable
  BY <1>1 DEF CopiedFirst, LogsRecoverable
<1>3. Schema
  BY DEF Schema, Flattened, LogsOf
<1>4. InHand
  BY <1>1 DEF InHand, Here
<1> QED BY <1>2, <1>3, <1>4 DEF LogInv

\* Every variable of the start of Bumper keeps its type: the stage, the
\* certificate files and the clean logs' documents.
THEOREM StartupTypes ==
  Spec => []TypeOK
<1>1. TypeOK /\ [Next]_vars => TypeOK'
  BY TypeStep
<1> QED BY <1>1, InitTypes, PTL DEF Spec

\* Wherever the process dies in its migration, and however often, each clean
\* log that was not deleted is in the table or in a backup of it.
THEOREM NoLogIsLost ==
  Spec => []LogsRecoverable
<1>1. TypeOK /\ LogInv /\ [Next]_vars => LogInv'
  BY TypeStep, LogStep
<1>2. LogInv => LogsRecoverable
  BY DEF LogInv
<1> QED BY <1>1, <1>2, InitLogs, StartupTypes, PTL DEF Spec

\* What a serving Bumper shows of the clean logs is of the new schema, each
\* log under its own bot, and complete if no migration was cut off between the
\* truncation of the table and the new version's mark.
THEOREM MigrationIsComplete ==
  Spec => []Migrated
<1>1. TypeOK /\ LogInv /\ [Next]_vars => LogInv'
  BY TypeStep, LogStep
<1>2. LogInv => Migrated
  BY DEF LogInv, Schema, InHand, Here, Migrated
<1> QED BY <1>1, <1>2, InitLogs, StartupTypes, PTL DEF Spec

\* What files of one generation hold.
LEMMA OneGenerationHolds ==
  ASSUME TypeOK, NEW g \in Gens \cup {Own}, OneGeneration(g)
  PROVE  /\ Contents("ca_cert", file["ca_cert"]) = {CaCertificate(g)}
         /\ Contents("server_cert", file["server_cert"]) = {ServerCertificate(g)}
         /\ Contents("server_key", file["server_key"]) = {Key("server", g)}
         /\ file["ca_key"] # 0 => Contents("ca_key", file["ca_key"]) = {Key("ca", g)}
         /\ file["ca_pem"] # 0 => Contents("ca_pem", file["ca_pem"]) =
              {Key("server", g), ServerCertificate(g), CaCertificate(g)}
<1>1. g \notin {0, Torn}
  BY GensAssumption DEF Gens, Own, Torn
<1>2. /\ file["ca_cert"] = g /\ file["server_cert"] = g /\ file["server_key"] = g
      /\ file["ca_key"] \in {0, g} /\ file["ca_pem"] \in {0, g}
  BY OrderFacts DEF OneGeneration, Required
<1> QED BY <1>1, <1>2 DEF Contents

\* A serving Bumper has the key of its certificate, and the authority that its
\* robots download has signed it: whichever files were removed before, and
\* wherever a process died, unless it died among files that all existed.
THEOREM CertificatesMatch ==
  Spec => []ChainHolds
<1>1. TypeOK /\ CertInv /\ [Next]_vars => CertInv'
  BY TypeStep, CertStep
<1>2. TypeOK /\ CertInv => ChainHolds
  <2> SUFFICES ASSUME TypeOK, CertInv, boot = "serving", ~mixed
               PROVE  ChainHolds
    BY DEF ChainHolds
  <2>1. PICK g \in Gens \cup {Own} : OneGeneration(g)
    BY DEF CertInv, Written, Coherent
  <2>2. archive \subseteq {CaCertificate(g)}
    BY <2>1, OneGenerationHolds DEF CertInv, Served
  <2>3. /\ ServerCertificate(g).signedBy = CaCertificate(g).key
        /\ ServerCertificate(g).key = Key("server", g)
        /\ CaCertificate(g).key = Key("ca", g)
    BY DEF ServerCertificate, CaCertificate
  <2> QED BY <2>1, <2>2, <2>3, OneGenerationHolds DEF ChainHolds
<1> QED BY <1>1, <1>2, InitCertificates, StartupTypes, PTL DEF Spec
-----------------------------------------------------------------------------
(* Names in the certificate                                                 *)

Suffix(d, i) == SubSeq(d, i, Len(d))

\* Numbers are well-founded.
LEMMA LeastOf ==
  ASSUME NEW I \in SUBSET Nat, I # {}
  PROVE  \E x \in I : \A y \in I : x <= y
<1> DEFINE less == OpToRel(<, Nat)
<1>1. \A x, y \in Nat : x < y => <<x, y>> \in less
  BY DEF OpToRel
<1>2. IsWellFoundedOn(less, Nat)
  BY NatLessThanWellFounded
<1> HIDE DEF less
<1>3. PICK x \in I : \A y \in I : ~(<<y, x>> \in less)
  BY <1>2, WFMin
<1>4. ASSUME NEW y \in I PROVE x <= y
  <2>1. x \in Nat /\ y \in Nat /\ ~(y < x)
    BY <1>1, <1>3
  <2>2. QED
    BY <2>1
<1>5. QED
  BY <1>4

\* Suffixes of a sequence, entry by entry.
LEMMA SuffixIs ==
  ASSUME NEW L, NEW d \in Seq(L), NEW i \in 1 .. Len(d)
  PROVE  /\ Suffix(d, i) \in Seq(L) /\ Len(Suffix(d, i)) = Len(d) - i + 1
         /\ \A k \in 1 .. Len(d) - i + 1 : Suffix(d, i)[k] = d[i + k - 1]
<1>1. Len(d) \in Nat
  OBVIOUS
<1>2. QED
  BY <1>1 DEF Suffix

\* Sequences with the same entries are the same.
LEMMA SameEntries ==
  ASSUME NEW L, NEW a \in Seq(L), NEW b \in Seq(L), Len(a) = Len(b),
         \A k \in 1 .. Len(a) : a[k] = b[k]
  PROVE  a = b
OBVIOUS

\* The suffix of a suffix is one.
LEMMA SuffixOfSuffix ==
  ASSUME NEW L, NEW d \in Seq(L), NEW i \in 1 .. Len(d), NEW j \in 1 .. Len(d) - i + 1
  PROVE  Suffix(Suffix(d, i), j) = Suffix(d, i + j - 1)
<1> DEFINE s == Suffix(d, i)
           a == Suffix(s, j)
           b == Suffix(d, i + j - 1)
<1>1. Len(d) \in Nat /\ i + j - 1 \in 1 .. Len(d)
  OBVIOUS
<1>2. s \in Seq(L) /\ Len(s) = Len(d) - i + 1 /\ \A k \in 1 .. Len(s) : s[k] = d[i + k - 1]
  BY SuffixIs
<1>3. /\ b \in Seq(L) /\ Len(b) = Len(d) - (i + j - 1) + 1
      /\ \A k \in 1 .. Len(d) - (i + j - 1) + 1 : b[k] = d[(i + j - 1) + k - 1]
  BY <1>1, SuffixIs
<1> HIDE DEF s, b
<1>4. /\ a \in Seq(L) /\ Len(a) = Len(s) - j + 1
      /\ \A k \in 1 .. Len(s) - j + 1 : a[k] = s[j + k - 1]
  <2>1. j \in 1 .. Len(s)
    BY <1>1, <1>2
  <2>2. QED
    BY <1>2, <2>1, SuffixIs
<1> HIDE DEF a
<1>5. Len(a) = Len(b) /\ Len(a) \in Nat /\ Len(a) = Len(d) - i - j + 2
  <2>1. Len(a) = Len(s) - j + 1 /\ Len(b) = Len(d) - (i + j - 1) + 1 /\ Len(s) = Len(d) - i + 1
    BY <1>2, <1>3, <1>4
  <2>2. Len(d) \in Int /\ i \in Int /\ j \in Int /\ j <= Len(d) - i + 1
    BY <1>1
  <2>3. QED
    BY <2>1, <2>2
<1>6. ASSUME NEW k \in 1 .. Len(a) PROVE a[k] = b[k]
  <2>1. j + k - 1 \in 1 .. Len(s) /\ i + (j + k - 1) - 1 = (i + j - 1) + k - 1
    BY <1>1, <1>2, <1>5
  <2>2. k \in 1 .. Len(s) - j + 1 /\ k \in 1 .. Len(d) - (i + j - 1) + 1
    BY <1>1, <1>2, <1>5
  <2>3. a[k] = s[j + k - 1] /\ b[k] = d[(i + j - 1) + k - 1]
    BY <1>3, <1>4, <2>2
  <2>4. s[j + k - 1] = d[i + (j + k - 1) - 1]
    BY <1>2, <2>1
  <2>5. QED
    BY <2>1, <2>3, <2>4
<1>7. a = b
  BY <1>3, <1>4, <1>5, <1>6, SameEntries
<1>8. QED
  BY <1>7 DEF a, b, s

\* A sequence is a suffix of itself, and its tail is the next.
LEMMA FirstSuffixes ==
  ASSUME NEW L, NEW d \in Seq(L), Len(d) >= 2
  PROVE  Suffix(d, 1) = d /\ Suffix(d, 2) = Tail(d)
<1>1. Len(d) \in Nat /\ 1 \in 1 .. Len(d) /\ 2 \in 1 .. Len(d)
  OBVIOUS
<1>2. Suffix(d, 1) = d
  <2>1. /\ Suffix(d, 1) \in Seq(L) /\ Len(Suffix(d, 1)) = Len(d)
        /\ \A k \in 1 .. Len(d) : Suffix(d, 1)[k] = d[k]
    BY <1>1, SuffixIs
  <2>2. QED
    BY <2>1, SameEntries
<1>3. Suffix(d, 2) = Tail(d)
  <2>1. /\ Suffix(d, 2) \in Seq(L) /\ Len(Suffix(d, 2)) = Len(d) - 1
        /\ \A k \in 1 .. Len(d) - 1 : Suffix(d, 2)[k] = d[k + 1]
    BY <1>1, SuffixIs
  <2>2. /\ Tail(d) \in Seq(L) /\ Len(Tail(d)) = Len(d) - 1
        /\ \A k \in 1 .. Len(d) - 1 : Tail(d)[k] = d[k + 1]
    BY <1>1
  <2>3. QED
    BY <2>1, <2>2, SameEntries
<1>4. QED
  BY <1>2, <1>3

\* The nodes of a list of domains: the suffixes of two labels or more.
LEMMA NodesAre ==
  ASSUME NEW domains, NEW n
  PROVE  n \in Nodes(domains)
           <=> \E d \in domains : Len(d) >= 2 /\ \E i \in 1 .. Len(d) - 1 : n = Suffix(d, i)
<1> DEFINE S == {{SubSeq(d, i, Len(d)) : i \in 1 .. Len(d) - 1} :
                   d \in {e \in domains : Len(e) >= 2}}
<1>1. n \in Nodes(domains) <=> \E s \in S : n \in s
  BY DEF Nodes
<1>2. ASSUME NEW s \in S, n \in s
      PROVE  \E d \in domains : Len(d) >= 2 /\ \E i \in 1 .. Len(d) - 1 : n = Suffix(d, i)
  <2>1. PICK d \in domains : Len(d) >= 2 /\ s = {SubSeq(d, i, Len(d)) : i \in 1 .. Len(d) - 1}
    OBVIOUS
  <2>2. QED
    BY <1>2, <2>1 DEF Suffix
<1>3. ASSUME NEW d \in domains, Len(d) >= 2, NEW i \in 1 .. Len(d) - 1, n = Suffix(d, i)
      PROVE  \E s \in S : n \in s
  <2> DEFINE s == {SubSeq(d, k, Len(d)) : k \in 1 .. Len(d) - 1}
  <2>1. s \in S /\ n \in s
    BY <1>3 DEF Suffix
  <2>2. QED
    BY <2>1
<1>4. QED
  BY <1>1, <1>2, <1>3

\* They are no longer than the domains, and a suffix of a node is a node.
LEMMA NodesEnd ==
  ASSUME NEW L, NEW domains \in SUBSET Seq(L), NEW n \in Nodes(domains)
  PROVE  /\ n \in Seq(L) /\ Len(n) \in Nat /\ Len(n) >= 2
         /\ \E d \in domains : Len(n) <= Len(d)
         /\ \A j \in 1 .. Len(n) - 1 : Suffix(n, j) \in Nodes(domains)
<1>1. PICK d \in domains : Len(d) >= 2 /\ \E i \in 1 .. Len(d) - 1 : n = Suffix(d, i)
  BY NodesAre
<1>2. PICK i \in 1 .. Len(d) - 1 : n = Suffix(d, i)
  BY <1>1
<1>3. d \in Seq(L) /\ Len(d) \in Nat /\ i \in 1 .. Len(d)
  BY <1>1
<1>4. n \in Seq(L) /\ Len(n) = Len(d) - i + 1
  BY <1>2, <1>3, SuffixIs
<1>5. ASSUME NEW j \in 1 .. Len(n) - 1 PROVE Suffix(n, j) \in Nodes(domains)
  <2>1. j \in 1 .. Len(d) - i + 1 /\ i + j - 1 \in 1 .. Len(d) - 1
    BY <1>3, <1>4
  <2>2. Suffix(n, j) = Suffix(d, i + j - 1)
    BY <1>2, <1>3, <2>1, SuffixOfSuffix
  <2>3. QED
    BY <1>1, <2>1, <2>2, NodesAre
<1>6. QED
  BY <1>3, <1>4, <1>5

\* A domain is a node, and its tail is one unless it is a root.
LEMMA DomainNodes ==
  ASSUME NEW L, NEW domains \in SUBSET Seq(L), NEW d \in domains, Len(d) >= 2
  PROVE  d \in Nodes(domains) /\ (Len(d) > 2 => Tail(d) \in Nodes(domains))
<1>1. d \in Seq(L) /\ Len(d) \in Nat
  OBVIOUS
<1>2. Suffix(d, 1) = d /\ Suffix(d, 2) = Tail(d)
  BY FirstSuffixes
<1>3. 1 \in 1 .. Len(d) - 1 /\ (Len(d) > 2 => 2 \in 1 .. Len(d) - 1)
  BY <1>1
<1>4. QED
  BY <1>2, <1>3, NodesAre

\* Whatever the list of domains, each domain of two labels or more has a name in
\* the certificate: the root itself, or the wildcard of the node it hangs on.
THEOREM EveryDomainIsCovered ==
  ASSUME NEW L, NEW domains \in SUBSET Seq(L), NEW d \in domains, Len(d) >= 2
  PROVE  \E n \in SanList(domains) : Covers(n, d)
<1>1. d \in Seq(L) /\ Len(d) \in Nat
  OBVIOUS
<1>2. CASE Len(d) = 2
  BY <1>2, DomainNodes DEF SanList, Roots, Covers
<1>3. CASE Len(d) > 2
  <2> DEFINE t == Tail(d)
             w == <<"*">> \o t
  <2>1. t \in Nodes(domains)
    BY <1>3, DomainNodes
  <2>2. t \in Seq(L) /\ Len(t) = Len(d) - 1
    BY <1>1, <1>3
  <2>3. w \in SanList(domains)
    BY <2>1 DEF SanList, Wildcards
  <2> HIDE DEF t
  <2>4. t \in Seq(L \cup {"*"}) /\ <<"*">> \in Seq(L \cup {"*"}) /\ Len(<<"*">>) = 1
    BY <2>2
  <2>5. w \in Seq(L \cup {"*"}) /\ Len(w) = Len(d) /\ w[1] = "*"
    BY <1>1, <2>2, <2>4
  <2>6. Tail(w) = t
    <3>1. \A k \in 1 .. Len(t) : w[k + 1] = t[k]
      BY <2>2, <2>4
    <3>2. Tail(w) \in Seq(L \cup {"*"}) /\ Len(Tail(w)) = Len(t)
      BY <1>1, <2>2, <2>5
    <3>3. \A k \in 1 .. Len(Tail(w)) : Tail(w)[k] = t[k]
      BY <2>5, <3>1, <3>2
    <3>4. QED
      BY <2>4, <3>2, <3>3, SameEntries
  <2>7. Covers(w, d)
    BY <2>5, <2>6 DEF Covers, t
  <2>8. QED
    BY <2>3, <2>7
<1>4. Len(d) = 2 \/ Len(d) > 2
  <2>1. \A m \in Nat : m >= 2 => m = 2 \/ m > 2
    OBVIOUS
  <2>2. QED
    BY <1>1, <2>1
<1>5. QED
  BY <1>2, <1>3, <1>4

\* Named is what its recursion says, with the names of all that hang on a node.
LEMMA NamedIs ==
  ASSUME NEW L, NEW domains \in SUBSET Seq(L), NEW M \in Nat,
         \A d \in domains : Len(d) <= M
  PROVE  LET nodes == Nodes(domains)
             hang(n) == {k \in nodes : \E i \in 1 .. Len(k) : n = Suffix(k, i)}
         IN  \A n \in nodes : Named(nodes)[n] = {<<"*">> \o k : k \in hang(n)}
<1> DEFINE nodes == Nodes(domains)
           hang(n) == {k \in nodes : \E i \in 1 .. Len(k) : n = Suffix(k, i)}
           children(n) == {k \in nodes : Tail(k) = n}
           names(n) == {<<"*">> \o k : k \in hang(n)}
           Unfolds(g) == g = [n \in nodes |-> {<<"*">> \o n} \cup UNION {g[k] : k \in children(n)}]
           f == Named(nodes)
<1>1. ASSUME NEW n \in nodes
      PROVE  /\ n \in Seq(L) /\ Len(n) \in Nat /\ Len(n) >= 2 /\ Len(n) <= M
             /\ \A j \in 1 .. Len(n) - 1 : Suffix(n, j) \in nodes
             /\ Suffix(n, 1) = n
  <2>1. /\ n \in Seq(L) /\ Len(n) \in Nat /\ Len(n) >= 2
        /\ \A j \in 1 .. Len(n) - 1 : Suffix(n, j) \in nodes
    BY NodesEnd
  <2>2. PICK d \in domains : Len(n) <= Len(d)
    BY NodesEnd
  <2>3. Len(d) \in Nat /\ Len(d) <= M
    OBVIOUS
  <2>4. Suffix(n, 1) = n
    BY <2>1, FirstSuffixes
  <2>5. QED
    BY <2>1, <2>2, <2>3, <2>4
<1> HIDE DEF nodes
<1>2. ASSUME NEW n \in nodes, NEW k \in children(n)
      PROVE  /\ Len(k) = Len(n) + 1
             /\ \A h \in hang(k) : h \in hang(n)
  <2>1. /\ k \in nodes /\ Tail(k) = n /\ k \in Seq(L) /\ Len(k) \in Nat /\ Len(k) >= 2
    BY <1>1
  <2>2. Len(k) = Len(n) + 1
    BY <2>1
  <2>3. ASSUME NEW h \in hang(k) PROVE h \in hang(n)
    <3>1. PICK i \in 1 .. Len(h) : k = Suffix(h, i)
      OBVIOUS
    <3>2. h \in nodes /\ h \in Seq(L) /\ Len(h) \in Nat
      BY <1>1
    <3>3. Len(k) = Len(h) - i + 1
      BY <3>1, <3>2, SuffixIs
    <3>4. 2 \in 1 .. Len(h) - i + 1 /\ i + 1 \in 1 .. Len(h) /\ i + 2 - 1 = i + 1
      BY <2>1, <3>2, <3>3
    <3>5. Suffix(k, 2) = Suffix(h, i + 1)
      BY <3>1, <3>2, <3>4, SuffixOfSuffix
    <3>6. Suffix(k, 2) = n
      BY <2>1, FirstSuffixes
    <3>7. QED
      BY <3>2, <3>4, <3>5, <3>6
  <2>4. QED
    BY <2>2, <2>3
<1>3. ASSUME NEW n \in nodes, NEW h \in hang(n), h # n
      PROVE  \E k \in children(n) : h \in hang(k)
  <2>1. PICK i \in 1 .. Len(h) : n = Suffix(h, i)
    OBVIOUS
  <2>2. h \in nodes /\ h \in Seq(L) /\ Len(h) \in Nat /\ Suffix(h, 1) = h
    BY <1>1
  <2>3. i # 1 /\ Len(n) = Len(h) - i + 1 /\ Len(n) >= 2
    BY <1>1, <1>3, <2>1, <2>2, SuffixIs
  <2> DEFINE k == Suffix(h, i - 1)
  <2>4. i - 1 \in 1 .. Len(h) - 1 /\ i - 1 \in 1 .. Len(h) /\ 2 \in 1 .. Len(h) - (i - 1) + 1
        /\ (i - 1) + 2 - 1 = i
    BY <2>1, <2>2, <2>3
  <2>5. k \in nodes
    BY <1>1, <2>2, <2>4
  <2>6. Suffix(k, 2) = n
    BY <2>1, <2>2, <2>4, SuffixOfSuffix
  <2>7. h \in hang(k)
    BY <2>2, <2>4
  <2> HIDE DEF k
  <2>8. Tail(k) = n
    BY <1>1, <2>5, <2>6, FirstSuffixes
  <2>9. QED
    BY <2>5, <2>7, <2>8
<1>4. ASSUME NEW n \in nodes
      PROVE  names(n) = {<<"*">> \o n} \cup UNION {names(k) : k \in children(n)}
  <2>1. n \in hang(n)
    <3>1. 1 \in 1 .. Len(n) /\ n = Suffix(n, 1)
      BY <1>1
    <3>2. QED
      BY <3>1
  <2> HIDE DEF hang, children
  <2>2. ASSUME NEW w \in names(n)
        PROVE  w \in {<<"*">> \o n} \cup UNION {names(k) : k \in children(n)}
    <3>1. PICK h \in hang(n) : w = <<"*">> \o h
      OBVIOUS
    <3>2. CASE h = n
      BY <3>1, <3>2
    <3>3. CASE h # n
      <4>1. PICK k \in children(n) : h \in hang(k)
        BY <1>3, <3>3
      <4>2. w \in names(k)
        BY <3>1, <4>1
      <4>3. QED
        BY <4>1, <4>2
    <3>4. QED
      BY <3>2, <3>3
  <2>3. <<"*">> \o n \in names(n)
    BY <2>1
  <2>4. ASSUME NEW k \in children(n), NEW w \in names(k) PROVE w \in names(n)
    <3>1. PICK h \in hang(k) : w = <<"*">> \o h
      OBVIOUS
    <3>2. h \in hang(n)
      BY <1>2
    <3>3. QED
      BY <3>1, <3>2
  <2> HIDE DEF names
  <2>5. QED
    BY <2>2, <2>3, <2>4
<1> HIDE DEF hang, names
<1>5. Unfolds([n \in nodes |-> names(n)])
  <2> DEFINE g == [n \in nodes |-> names(n)]
             r == [n \in nodes |-> {<<"*">> \o n} \cup UNION {g[k] : k \in children(n)}]
  <2>1. ASSUME NEW n \in nodes
        PROVE  g[n] = {<<"*">> \o n} \cup UNION {g[k] : k \in children(n)}
    <3>1. \A k \in children(n) : g[k] = names(k)
      OBVIOUS
    <3>2. {g[k] : k \in children(n)} = {names(k) : k \in children(n)}
      BY <3>1
    <3>3. QED
      BY <1>4, <3>2
  <2>2. \A n \in nodes : g[n] = r[n]
    BY <2>1
  <2>3. g = r
    BY <2>2
  <2>4. QED
    BY <2>3
<1>6. Unfolds(f)
  <2>1. f = CHOOSE g : Unfolds(g)
    BY DEF Named
  <2> HIDE DEF f
  <2>2. \E g : Unfolds(g)
    BY <1>5
  <2> HIDE DEF Unfolds
  <2>3. QED
    BY <2>1, <2>2
<1> HIDE DEF f
<1>7. \A n \in nodes : f[n] = names(n)
  <2> DEFINE bad == {n \in nodes : f[n] # names(n)}
             depths == {M - Len(n) : n \in bad}
  <2>1. SUFFICES ASSUME bad # {} PROVE FALSE
    OBVIOUS
  <2>2. depths \in SUBSET Nat /\ depths # {}
    BY <1>1, <2>1
  <2>3. PICK m \in depths : \A y \in depths : m <= y
    <3> HIDE DEF depths
    <3>1. QED
      BY <2>2, LeastOf
  <2>4. PICK n \in bad : m = M - Len(n)
    BY <2>3
  <2>5. ASSUME NEW k \in children(n) PROVE f[k] = names(k)
    <3>1. k \in nodes /\ Len(k) = Len(n) + 1 /\ Len(n) \in Nat
      BY <1>1, <1>2, <2>4
    <3>2. ~(m <= M - Len(k))
      BY <2>4, <3>1
    <3>3. M - Len(k) \notin depths
      BY <2>3, <3>2
    <3>4. QED
      BY <3>1, <3>3
  <2>6. f[n] = {<<"*">> \o n} \cup UNION {f[k] : k \in children(n)}
    BY <1>6, <2>4
  <2>7. {f[k] : k \in children(n)} = {names(k) : k \in children(n)}
    BY <2>5
  <2>8. f[n] = names(n)
    BY <1>4, <2>4, <2>6, <2>7
  <2>9. QED
    BY <2>4, <2>8
<1>8. QED
  BY <1>7 DEF f, nodes, names, hang

\* On any list of domains the certificate made by Bumper and the one made by
\* hand with the script's names agree.
THEOREM ScriptAgrees ==
  ASSUME NEW L, NEW domains \in SUBSET Seq(L), NEW M \in Nat,
         \A d \in domains : Len(d) <= M
  PROVE  SanList(domains) = ScriptNames(domains)
<1> DEFINE nodes == Nodes(domains)
           roots == Roots(domains)
           hang(n) == {k \in nodes : \E i \in 1 .. Len(k) : n = Suffix(k, i)}
           named == Named(nodes)
<1>1. \A n \in nodes : named[n] = {<<"*">> \o k : k \in hang(n)}
  BY NamedIs
<1>2. roots \subseteq nodes
  BY DEF Roots
<1>3. ASSUME NEW k \in nodes PROVE \E r \in roots : k \in hang(r)
  <2>1. /\ k \in Seq(L) /\ Len(k) \in Nat /\ Len(k) >= 2
        /\ \A j \in 1 .. Len(k) - 1 : Suffix(k, j) \in nodes
    BY NodesEnd
  <2>2. Len(k) - 1 \in 1 .. Len(k) - 1 /\ Len(k) - 1 \in 1 .. Len(k)
    BY <2>1
  <2>3. Suffix(k, Len(k) - 1) \in nodes /\ Len(Suffix(k, Len(k) - 1)) = Len(k) - (Len(k) - 1) + 1
    BY <2>1, <2>2, SuffixIs
  <2>4. Len(Suffix(k, Len(k) - 1)) = 2
    BY <2>1, <2>3
  <2>5. QED
    BY <2>2, <2>3, <2>4 DEF Roots
<1> HIDE DEF nodes, roots, named
<1>4. ASSUME NEW w \in SanList(domains) PROVE w \in ScriptNames(domains)
  <2>1. CASE w \in roots
    BY <2>1 DEF ScriptNames, roots
  <2>2. CASE w \notin roots
    <3>1. PICK k \in nodes : w = <<"*">> \o k
      BY <2>2 DEF SanList, Wildcards, roots, nodes
    <3>2. PICK r \in roots : k \in hang(r)
      BY <1>3
    <3>3. w \in named[r]
      <4> HIDE DEF hang
      <4>1. named[r] = {<<"*">> \o h : h \in hang(r)}
        BY <1>1, <1>2, <3>2
      <4>2. QED
        BY <3>1, <3>2, <4>1
    <3>4. QED
      BY <3>2, <3>3 DEF ScriptNames, roots, named, nodes
  <2>3. QED
    BY <2>1, <2>2
<1>5. ASSUME NEW w \in ScriptNames(domains) PROVE w \in SanList(domains)
  <2>1. PICK r \in roots : w = r \/ w \in named[r]
    BY DEF ScriptNames, roots, named, nodes
  <2>2. CASE w = r
    BY <2>2 DEF SanList, roots
  <2>3. CASE w \in named[r]
    <3>1. PICK k \in nodes : w = <<"*">> \o k
      BY <1>1, <1>2, <2>3
    <3>2. QED
      BY <3>1 DEF SanList, Wildcards, nodes
  <2>4. QED
    BY <2>1, <2>2, <2>3
<1>6. QED
  BY <1>4, <1>5

\* Every host has a name in a certificate of Bumper's, and the same in one made
\* by hand, whatever the list of the hosts.
THEOREM HostsNamed == Spec => []HostsAreNamed
<1>1. Domains \in SUBSET Seq(STRING)
  BY DomainsAssumption
<1>2. \A d \in Domains : Len(d) >= 2 /\ Len(d) <= 127
  <2>1. \A m \in 2 .. 127 : m >= 2 /\ m <= 127
    OBVIOUS
  <2>2. QED
    BY <2>1, DomainsAssumption
<1>3. Uncovered = {}
  <2>1. ASSUME NEW d \in Domains PROVE \E n \in SanList(Domains) : Covers(n, d)
    BY <1>1, <1>2, EveryDomainIsCovered
  <2>2. QED
    BY <2>1 DEF Uncovered
<1>4. ~NamedDifferently
  <2>1. SanList(Domains) = ScriptNames(Domains)
    <3>1. 127 \in Nat
      OBVIOUS
    <3>2. QED
      BY <1>1, <1>2, <3>1, ScriptAgrees
  <2>2. QED
    BY <2>1, CopiedAssumption DEF NamedDifferently
<1>5. HostsAreNamed
  BY <1>3, <1>4 DEF HostsAreNamed
<1>6. QED
  BY <1>5, PTL
=============================================================================
