----------------------------- MODULE CleanLogs -----------------------------
(***************************************************************************)
(* The clean logs: what the helper bot stores of a bot's statistics         *)
(* (bumper/mqtt/handle_atr.py, bumper/db/clean_logs.py), the list the app   *)
(* gets and deletes from (bumper/web/plugins/app/dln.py, api/lg.py), and    *)
(* the pages of the web interface (bumper/web/web_paths.py).  A list is     *)
(* only given for a bot that is in the registry.                            *)
(***************************************************************************)
EXTENDS Devices

CONSTANTS
  Ids,       \* clean_log_ids, "did@start@rid": bot, time, and the id statistics come with
  Types,     \* types of cleaning
  Contents,  \* the rest of a report
  MaxLogs,   \* bound: documents in the table
  MaxNamed,  \* bound: ids in a request to delete
  Limits     \* sizes of a page

Keys == [id : Ids, type : Types]

ASSUME IdsAssumption == \A i \in Ids : Len(i) = 3 /\ i[1] \in Dids /\ i[2] \in Nat
ASSUME DidsAssumption == Dids \subseteq Nat
ASSUME NamedAssumption == MaxNamed \in Nat
ASSUME LimitsAssumption == Limits \subseteq Nat \ {0}

VARIABLES
  logs,    \* the table of clean logs, in the order of insertion
  latest   \* per key: the last report, NoValue if there was none or it was deleted since

logVars == <<logs, latest>>

Key(log) == [id |-> log.id, type |-> log.type]
Start(log) == log.id[2]

-----------------------------------------------------------------------------
(* The table                                                                *)

\* Faulty: a log is looked up by its id alone.
LogAtId(key) == SelectInSeq(logs, LAMBDA l : l.id = key.id)

LogAt(key) == SelectInSeq(logs, LAMBDA l : Key(l) = key)

\* add_or_update(): the document with that id and type is overwritten.
Upsert(key, content) ==
  LET log == [id |-> key.id, type |-> key.type, content |-> content]
  IN  IF LogAt(key) # 0 THEN [logs EXCEPT ![LogAt(key)] = log] ELSE Append(logs, log)

\* remove_by_id(): only the first document with that id goes.
WithoutFirst(table, id) ==
  LET at == SelectInSeq(table, LAMBDA l : l.id = id)
  IN  IF at = 0 THEN table ELSE RemoveAt(table, at)

-----------------------------------------------------------------------------
(* Operations                                                               *)

\* clean_log() of onStats or reportStats.  Without a cid or a start, or with
\* the cid "111", nothing is stored: NoValue stands for such a content.
Report(key, content) ==
  /\ IF content # NoValue
     THEN /\ LogAt(key) = 0 => Len(logs) < MaxLogs
          /\ logs' = Upsert(key, content)
          /\ latest' = [latest EXCEPT ![key] = content]
     ELSE UNCHANGED logVars
  /\ UNCHANGED deviceVars

\* What is left in the table after each id of a list.
Left(ids) ==
  LET left[n \in 0 .. Len(ids)] ==
        IF n = 0 THEN logs ELSE WithoutFirst(left[n - 1], ids[n])
  IN  left

\* The app deletes a list of ids, one after the other.
Delete(ids) ==
  /\ logs' = Left(ids)[Len(ids)]
  /\ latest' = [k \in Keys |-> IF k.id \in ToSet(ids) THEN NoValue ELSE latest[k]]
  /\ UNCHANGED deviceVars

\* The remove button of a log.
RemoveLog(i) == Delete(<<i>>)

\* clear()
Clear ==
  /\ logs' = <<>>
  /\ latest' = [k \in Keys |-> NoValue]
  /\ UNCHANGED deviceVars

-----------------------------------------------------------------------------
(* Lists                                                                    *)

\* The orders of sorted(..., reverse=True), on places in the table: by time,
\* or by time and then by bot, both falling; what ties stays in its order.
ByStart ==
  {p \in (DOMAIN logs) \X (DOMAIN logs) :
     LET a == Start(logs[p[1]])
         b == Start(logs[p[2]])
     IN  a > b \/ (a = b /\ p[1] < p[2])}

ByStartAndBot ==
  {p \in (DOMAIN logs) \X (DOMAIN logs) :
     LET a == logs[p[1]].id
         b == logs[p[2]].id
     IN  \/ a[2] > b[2]
         \/ a[2] = b[2] /\ a[1] > b[1]
         \/ a[2] = b[2] /\ a[1] = b[1] /\ p[1] < p[2]}

\* sorted(): the places of a set in an order.
Sorted(places, order) ==
  CHOOSE f \in [1 .. Cardinality(places) -> places] :
    \A m, n \in DOMAIN f : m < n => <<f[m], f[n]>> \in order

At(list) == [n \in DOMAIN list |-> logs[list[n]]]

\* list_by_did()
OfBot(d) == {i \in DOMAIN logs : logs[i].id[1] = d}

\* _handle_clean_result_list() of dln, _handle_lg_log() of lg.
CleanResultList(d) == IF Served(d) THEN At(Sorted(OfBot(d), ByStart)) ELSE <<>>
LgLog(d)           == IF Served(d) THEN At(Sorted(OfBot(d), ByStart)) ELSE <<>>

\* What the web interface cuts its pages from.
Listing == At(Sorted(DOMAIN logs, ByStartAndBot))

\* Faulty: the page ends one too early.
PageShort(offset, limit) ==
  LET all == Listing
  IN  SubSeq(all, offset + 1, IF offset + limit < Len(all) THEN offset + limit - 1 ELSE Len(all))

\* A page of the web interface, and whether it has a button to the next one.
Page(offset, limit) ==
  LET all == Listing
  IN  SubSeq(all, offset + 1, IF offset + limit < Len(all) THEN offset + limit ELSE Len(all))
HasNext(offset, limit) == offset + limit < Len(logs)

-----------------------------------------------------------------------------
Init ==
  /\ DevicesInit
  /\ logs = <<>>
  /\ latest = [k \in Keys |-> NoValue]

Next ==
  \/ \E k \in Keys, content \in Contents \cup {NoValue} : Report(k, content)
  \/ \E n \in 0 .. MaxNamed : \E ids \in [1 .. n -> Ids] : Delete(ids)
  \/ \E i \in Ids : RemoveLog(i)
  \/ Clear
  \/ DevicesNext /\ UNCHANGED logVars

Spec == Init /\ [][Next]_<<deviceVars, logVars>>

-----------------------------------------------------------------------------
(* Properties                                                               *)

\* Type invariant of the table of clean logs.
TypeOK ==
  /\ DevicesTypeOK
  /\ logs \in Seq([id : Ids, type : Types, content : Contents])
  /\ latest \in [Keys -> Contents \cup {NoValue}]

\* The app's lists of a bot have one log for each cleaning and type that was
\* reported and not deleted since, newest first, and say what was reported
\* last: statistics that come again, in between deletions or for another type
\* of the same cleaning, neither double a log nor overwrite another one.
AppSeesLatest ==
  \A d \in {e \in Dids : Served(e)} : \A list \in {CleanResultList(d), LgLog(d)} :
    /\ \A i, j \in DOMAIN list : i < j =>
         Key(list[i]) # Key(list[j]) /\ Start(list[i]) >= Start(list[j])
    /\ \A k \in Keys : k.id[1] = d /\ latest[k] # NoValue =>
         \E i \in DOMAIN list : Key(list[i]) = k /\ list[i].content = latest[k]

\* The pages that one sees who goes on while there is a next one.
Visited(limit) == {n \in 0 .. Len(logs) : n = 0 \/ HasNext((n - 1) * limit, limit)}

\* Going from page to page while there is a next one shows every log at one
\* place of one page and nothing else, newest first, for every size of a page.
PagesShowAll ==
  \A limit \in Limits :
    LET page   == [n \in Visited(limit) |-> Page(n * limit, limit)]
        shown  == UNION {{n} \X DOMAIN page[n] : n \in Visited(limit)}
        log(s) == page[s[1]][s[2]]
    IN  /\ \A i \in DOMAIN logs : \E s \in shown : log(s) = logs[i]
        /\ \A s \in shown : \E i \in DOMAIN logs : log(s) = logs[i]
        /\ \A s, t \in shown : log(s) = log(t) => s = t
        /\ \A s, t \in shown :
             s[1] < t[1] \/ (s[1] = t[1] /\ s[2] < t[2]) => Start(log(s)) >= Start(log(t))
=============================================================================
