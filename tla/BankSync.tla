------------------------------ MODULE BankSync ------------------------------
(***************************************************************************)
(* One bank account mirrored into the Transaction table by SyncService     *)
(* (src/backend/src/sync/sync.service.ts): the daily statement fetch with  *)
(* its upserts, the change detection that edits, moves or deletes mirrored *)
(* rows, and the cascades into the OplataKv ledger that hangs off them.    *)
(*                                                                         *)
(* Three callers run the code: the minute cron and the back-fill (both     *)
(* through syncAccount, under the per-account lock) and the operator's     *)
(* "check changes" button (manualCheckChanges, which takes no lock).  Each *)
(* awaited database or bank call is one action, so callers interleave at   *)
(* exactly the points where the single-threaded server yields.             *)
(*                                                                         *)
(* A bank document is a member of Docs and stands for its statement key    *)
(* general_id + num; amount stands for amount, direction and description.  *)
(***************************************************************************)
EXTENDS Integers, FiniteSets, Sequences

CONSTANTS
  Docs,           \* bank documents of the account (general_id + num)
  Gen,            \* [Docs -> general_id]; sub-rows of one document share it
  B2Docs,         \* the documents for which the bank sends a b2_id
  Prefixed,       \* TRUE for IP_ / HB_ composites, FALSE for Kapitalbank
  Amounts,        \* the amounts a document may carry
  LastDay,        \* calendar days 1 .. LastDay
  Today,          \* the current day
  DaysBack,       \* TXN_SYNC_DAYS_BACK: days re-read by every cron pass
  MinDay,         \* Setting syncMinDate; 0 when it is not set
  VERIFY_DAYS,    \* half-width of the window searched before a deletion
  SHIFT_DAYS,     \* half-width of the date-shift search in upsertOne
  MAX_CANDIDATES, \* more missing rows than this and nothing is deleted
  Callers,        \* which of "cron", "backfill", "manual" run
  InitLedgers,    \* the statements the bank may start with
  InitTxs,        \* the rows mirrored so far, each with its OplataKv row
  QuietPass,      \* TRUE: the bank edits its ledger only between passes
  VerifyGlitch,   \* TRUE: verification reads may also come back empty
  Limit           \* bounds on bank edits, failed bank reads, failed cascades,
                  \* crashes and user-started passes

Days == 1 .. LastDay
BankStates == {2, 3, 6}                  \* approved, proved, deleted
Statuses == {"PENDING", "COMPLETED", "CANCELLED"}
NoDoc == "none"
NoItem == [doc |-> NoDoc]
NoTx == [id |-> 0]

\* A statement line, and the composite externalId makeCompositeId derives.
Item == [doc : Docs, day : Days, amt : Amounts, state : BankStates]
ExtId == [doc : Docs, day : Days, amt : Amounts]
Tx == [id : Nat \ {0}, ext : ExtId, b2 : Docs \cup {NoDoc}, day : Days,
       amt : Amounts, st : Statuses]
KvRow == [id : ExtId, src : ExtId, date : Days, amt : Amounts]
LogEntry == [type : {"EDITED", "MOVED", "DELETED"}, id : Nat \ {0},
             ext : ExtId, day : Days, amt : Amounts]
Kinds == {"bank", "fault", "dbfault", "crash", "pass"}

ASSUME CalendarAssumption ==
  /\ LastDay \in Nat /\ Today \in Days /\ MinDay \in Days \cup {0}
  /\ DaysBack \in Nat \ {0}
  /\ VERIFY_DAYS \in Nat /\ SHIFT_DAYS \in Nat /\ MAX_CANDIDATES \in Nat

ASSUME BankAssumption ==
  /\ B2Docs \subseteq Docs /\ NoDoc \notin Docs
  /\ Callers \subseteq {"cron", "backfill", "manual"}
  /\ InitLedgers \subseteq [Docs -> Item \cup {NoItem}]
  /\ \A l \in InitLedgers, d \in Docs : l[d] # NoItem => l[d].doc = d
  /\ QuietPass \in BOOLEAN /\ VerifyGlitch \in BOOLEAN /\ Prefixed \in BOOLEAN
  /\ Limit \in [Kinds -> Nat]

ASSUME MirrorAssumption ==
  /\ InitTxs \subseteq Tx /\ IsFiniteSet(InitTxs)
  /\ \A t, u \in InitTxs : t.id = u.id \/ t.ext = u.ext => t = u
  /\ \A t \in InitTxs : t.id <= Cardinality(InitTxs)

VARIABLES
  ledger,   \* the bank: [Docs -> Item or NoItem]
  txs,      \* Transaction rows of this account with source SYNC
  nextId,   \* next cuid
  log,      \* TransactionChangeLog
  kv,       \* OplataKv rows derived from transactions
  syncing,  \* this account is in syncingAccounts
  syncLog,  \* status of each caller's last SyncLog row
  pc,       \* where each caller stands
  cur,      \* the Transaction row a caller has in hand, as it read it
  hit,      \* the statement line a caller has in hand
  scan,     \* fetch loop: days to do, items seen, days answered, upserts due
  check,    \* change detection: rows read, candidates, days to verify
  spent     \* how much of each bound is used

bank == <<ledger, spent>>
db == <<txs, nextId, log, kv>>
lock == <<syncing, syncLog>>
hand == <<cur, hit>>
vars == <<ledger, txs, nextId, log, kv, syncing, syncLog, pc, cur, hit, scan,
          check, spent>>

-----------------------------------------------------------------------------
(* Operators the handlers share *)

Spend(k) == /\ spent[k] < Limit[k]
            /\ spent' = [spent EXCEPT ![k] = @ + 1]

Nothing == [d \in Docs |-> NoItem]
EmptyScan == [todo |-> <<>>, items |-> Nothing, days |-> {}, queue |-> {},
              errors |-> FALSE]
EmptyCheck == [rows |-> {}, cand |-> {}, need |-> {}, extra |-> Nothing,
               ok |-> {}]

\* What getDoc1C answers for a day: the documents the ledger dates on it.
Statement(d) == {x \in Docs : ledger[x] # NoItem /\ ledger[x].day = d}

\* Map.set over an answer: the line read last wins.
Indexed(map, answer) ==
  [x \in Docs |-> IF x \in answer THEN ledger[x] ELSE map[x]]

CompositeId(it) == [doc |-> it.doc, day |-> it.day, amt |-> it.amt]

\* FIX (B#11): only state 3 is COMPLETED.
StatusOf(it) == CASE it.state = 3 -> "COMPLETED"
                  [] it.state = 6 -> "CANCELLED"
                  [] OTHER -> "PENDING"

Within(d, e, n) == d - n <= e /\ e <= d + n
WindowOfOneDay(d) == {d}                  \* slip: the neighbours are forgotten
Window(d) == {e \in Days : Within(d, e, VERIFY_DAYS)}

\* The rows upsertOne's findFirst may return for a line.  Kapitalbank
\* composites begin with the general_id, so "contains _<general_id>_" finds
\* prefixed composites only.
ExistingByComposite(it) == {t \in txs : t.ext = CompositeId(it)}     \* slip
ExistingByDayAndAmount(it) ==                                       \* slip
  {t \in txs : t.ext.day = it.day /\ t.ext.amt = it.amt}
Existing(it) ==
  {t \in txs : \/ t.ext = CompositeId(it)
               \/ it.doc \in B2Docs /\ t.b2 = it.doc
               \/ /\ Prefixed /\ Gen[t.ext.doc] = Gen[it.doc]
                  /\ Within(it.day, t.day, SHIFT_DAYS)}

\* detectChanges and the verification look a row up by general_id + num,
\* then by b2_id.
Lookup(map, t) ==
  IF map[t.ext.doc] # NoItem THEN map[t.ext.doc]
  ELSE IF t.b2 # NoDoc THEN map[t.b2] ELSE NoItem

Stored(t) == \E u \in txs : u.id = t.id
Taken(ext, t) == \E u \in txs : u.ext = ext /\ u.id # t.id

LogOf(type, t, day, amt) ==
  [type |-> type, id |-> t.id, ext |-> t.ext, day |-> day, amt |-> amt]

\* The dates clampDatesAgainstMin keeps, which lie after syncMinDate: cron reads
\* today first, a back-fill and the manual check read oldest first.
Later(a, b) == IF a > b THEN a ELSE b
Ascending(a, b) == [i \in 1 .. (b - a + 1) |-> a + i - 1]
CronDaysUnclamped == [i \in 1 .. (Today + 1) |-> Today - i + 1]      \* slip
CronDays == [i \in 1 .. (Today - Later(MinDay, Today - DaysBack)) |-> Today - i + 1]

Goto(p, l) == pc' = [pc EXCEPT ![p] = l]
Take(p, t, it) == /\ cur' = [cur EXCEPT ![p] = t]
                  /\ hit' = [hit EXCEPT ![p] = it]
Drop(p) == Take(p, NoTx, NoItem)

Init ==
  /\ ledger \in InitLedgers
  /\ txs = InitTxs
  /\ nextId = 1 + Cardinality(InitTxs)
  /\ log = {}
  /\ kv = {[id |-> t.ext, src |-> t.ext, date |-> t.day, amt |-> t.amt]
             : t \in InitTxs}
  /\ syncing = FALSE
  /\ syncLog = [p \in Callers |-> "none"]
  /\ pc = [p \in Callers |-> "idle"]
  /\ cur = [p \in Callers |-> NoTx]
  /\ hit = [p \in Callers |-> NoItem]
  /\ scan = [p \in Callers |-> EmptyScan]
  /\ check = [p \in Callers |-> EmptyCheck]
  /\ spent = [k \in Kinds |-> 0]

-----------------------------------------------------------------------------
(* Starting a pass *)

\* syncAccount skips without a trace while the account is in syncingAccounts,
\* and when clampDatesAgainstMin leaves no date.
EnterUnlocked(p, dates) ==                                          \* slip
  /\ dates # <<>> /\ syncing' = TRUE
  /\ syncLog' = [syncLog EXCEPT ![p] = "RUNNING"]
Enter(p, dates) ==
  /\ ~syncing /\ dates # <<>>
  /\ syncing' = TRUE
  /\ syncLog' = [syncLog EXCEPT ![p] = "RUNNING"]

Begin(p, dates) ==
  /\ pc[p] = "idle"
  /\ Goto(p, "fetch")
  /\ scan' = [scan EXCEPT ![p] = [EmptyScan EXCEPT !.todo = dates]]
  /\ UNCHANGED <<ledger, db, hand, check>>

StartCron(p) == /\ p = "cron"
                /\ Begin(p, CronDays) /\ Enter(p, CronDays)
                /\ UNCHANGED spent

StartBackfill(p) ==
  /\ p = "backfill" /\ Spend("pass")
  /\ \E a, b \in Days : /\ a <= b
                        /\ LET dates == Ascending(Later(a, MinDay + 1), b)
                           IN Begin(p, dates) /\ Enter(p, dates)

\* manualCheckChanges refuses a range that begins before syncMinDate; it
\* neither takes the lock nor writes a SyncLog row.
StartManual(p) ==
  /\ p = "manual" /\ Spend("pass")
  /\ \E a, b \in Days : MinDay <= a /\ a <= b /\ Begin(p, Ascending(a, b))
  /\ UNCHANGED lock

-----------------------------------------------------------------------------
(* The fetch loop: one getDoc1C call per day, then the day's upserts *)

Fetching(p) == pc[p] = "fetch" /\ scan[p].queue = {} /\ scan[p].todo # <<>>

\* FIX (B#1): a day counts as fetched only when at least one line came back.
Answer(p, lines) ==
  LET d == Head(scan[p].todo) IN
  scan' = [scan EXCEPT ![p] =
             [scan[p] EXCEPT !.todo = Tail(@),
                       !.items = Indexed(@, lines),
                       !.days = IF lines = {} THEN @ ELSE @ \cup {d},
                       !.queue = IF p = "manual" THEN {}
                                 ELSE {ledger[x] : x \in lines}]]

FetchDay(p) == /\ Fetching(p)
               /\ Answer(p, Statement(Head(scan[p].todo)))
               /\ UNCHANGED <<ledger, db, lock, pc, hand, check, spent>>

\* A defective bank answer: status 200 with an empty list.
FetchEmpty(p) == /\ Fetching(p) /\ Statement(Head(scan[p].todo)) # {}
                 /\ Spend("fault")
                 /\ Answer(p, {})
                 /\ UNCHANGED <<ledger, db, lock, pc, hand, check>>

FetchError(p) ==
  /\ Fetching(p) /\ Spend("fault")
  /\ scan' = [scan EXCEPT ![p] = [scan[p] EXCEPT !.todo = Tail(@), !.errors = TRUE]]
  /\ UNCHANGED <<ledger, db, lock, pc, hand, check>>

\* upsertOne: the findFirst.  Several rows may match; the query has no order.
UpsertLookup(p) ==
  /\ pc[p] = "fetch"
  /\ \E it \in scan[p].queue :
       /\ scan' = [scan EXCEPT ![p].queue = @ \ {it}]
       /\ \/ /\ Existing(it) = {}
             /\ Goto(p, "create") /\ Take(p, NoTx, it)
          \/ \E t \in Existing(it) :
               IF t.day = it.day /\ t.ext = CompositeId(it)
               THEN UNCHANGED <<pc, hand>>
               ELSE Goto(p, "shift") /\ Take(p, t, it)
  /\ UNCHANGED <<ledger, db, lock, check, spent>>

\* create; P2002 on the unique externalId means "already there".
UpsertCreate(p) ==
  LET it == hit[p]
      row == [id |-> nextId, ext |-> CompositeId(it),
              b2 |-> IF it.doc \in B2Docs THEN it.doc ELSE NoDoc,
              day |-> it.day, amt |-> it.amt, st |-> StatusOf(it)] IN
  /\ pc[p] = "create"
  /\ IF \E t \in txs : t.ext = row.ext
     THEN UNCHANGED <<txs, nextId>>
     ELSE txs' = txs \cup {row} /\ nextId' = nextId + 1
  /\ Goto(p, "fetch") /\ Drop(p)
  /\ UNCHANGED <<ledger, log, kv, lock, scan, check, spent>>

\* DATE-SHIFT: the row takes the line's composite and day; a failed update
\* (row gone, composite taken) is logged and the line is given up.
UpsertShift(p) ==
  LET t == cur[p]
      it == hit[p]
      moved == {IF u.id = t.id
                THEN [u EXCEPT !.ext = CompositeId(it), !.day = it.day,
                               !.b2 = IF it.doc \in B2Docs THEN it.doc ELSE @]
                ELSE u : u \in txs} IN
  /\ pc[p] = "shift"
  /\ IF Stored(t) /\ ~Taken(CompositeId(it), t)
     THEN /\ txs' = moved /\ UNCHANGED hand
          /\ Goto(p, IF t.ext # CompositeId(it) THEN "relink" ELSE "audit")
     ELSE Goto(p, "fetch") /\ Drop(p) /\ UNCHANGED txs
  /\ UNCHANGED <<ledger, nextId, log, kv, lock, scan, check, spent>>

UpsertRedateOnly(p) ==                                              \* slip
  /\ pc[p] = "relink"
  /\ kv' = {IF k.src = cur[p].ext THEN [k EXCEPT !.date = hit[p].day] ELSE k
              : k \in kv}
  /\ Goto(p, "fetch") /\ Drop(p)
  /\ UNCHANGED <<ledger, txs, nextId, log, lock, scan, check, spent>>

\* The OplataKv link follows the composite; a unique violation on
\* source_tx_id is swallowed and leaves the link where it was.
UpsertRelink(p) ==
  LET old == cur[p].ext
      new == CompositeId(hit[p]) IN
  /\ pc[p] = "relink"
  /\ kv' = IF \E k \in kv : k.src = new THEN kv
           ELSE {IF k.src = old THEN [k EXCEPT !.src = new, !.date = hit[p].day]
                 ELSE k : k \in kv}
  /\ IF cur[p].day # hit[p].day
     THEN Goto(p, "audit") /\ UNCHANGED hand
     ELSE Goto(p, "fetch") /\ Drop(p)
  /\ UNCHANGED <<ledger, txs, nextId, log, lock, scan, check, spent>>

UpsertAudit(p) ==
  /\ pc[p] = "audit"
  /\ log' = log \cup {[LogOf("EDITED", cur[p], hit[p].day, cur[p].amt)
                         EXCEPT !.ext = CompositeId(hit[p])]}
  /\ Goto(p, "fetch") /\ Drop(p)
  /\ UNCHANGED <<ledger, txs, nextId, kv, lock, scan, check, spent>>

\* After the last day: a back-fill never looks for changes, and neither does
\* a pass in which no day was answered.
DetectRead(p) ==
  /\ pc[p] = "fetch" /\ scan[p].queue = {} /\ scan[p].todo = <<>>
  /\ IF p = "backfill" \/ scan[p].days = {}
     THEN Goto(p, "finish") /\ UNCHANGED check
     ELSE /\ Goto(p, "detect")
          /\ check' = [check EXCEPT ![p] =
               [EmptyCheck EXCEPT !.rows = {t \in txs : t.day \in scan[p].days}]]
  /\ UNCHANGED <<ledger, db, lock, hand, scan, spent>>

-----------------------------------------------------------------------------
(* detectChanges: compare the rows read with the lines read *)

StatusAmended(t, it) == t.st # StatusOf(it) /\ StatusOf(it) = "CANCELLED"  \* slip
Amended(t, it) == \/ t.amt # it.amt
                  \/ t.st # StatusOf(it) /\ StatusOf(it) = "CANCELLED"

\* One row of the snapshot: not among the lines (a candidate for deletion),
\* amended by the bank, or at most silently moved between PENDING and
\* COMPLETED.
Compare(p) ==
  /\ pc[p] = "detect"
  /\ \E t \in check[p].rows :
       LET it == Lookup(scan[p].items, t) IN
       \/ /\ it = NoItem
          /\ check' = [check EXCEPT ![p] =
                         [check[p] EXCEPT !.rows = @ \ {t}, !.cand = @ \cup {t}]]
          /\ UNCHANGED <<pc, hand, txs>>
       \/ /\ it # NoItem /\ Amended(t, it)
          /\ check' = [check EXCEPT ![p].rows = @ \ {t}]
          /\ Goto(p, "editLog") /\ Take(p, t, it) /\ UNCHANGED txs
       \/ /\ it # NoItem /\ ~Amended(t, it)
          /\ check' = [check EXCEPT ![p].rows = @ \ {t}]
          /\ txs' = IF t.st = StatusOf(it) THEN txs
                    ELSE {IF u.id = t.id THEN [u EXCEPT !.st = StatusOf(it)]
                          ELSE u : u \in txs}
          /\ UNCHANGED <<pc, hand>>
  /\ UNCHANGED <<ledger, nextId, log, kv, lock, scan, spent>>

EditLogOldAmount(p) ==                                              \* slip
  /\ pc[p] = "editLog"
  /\ log' = log \cup {LogOf("EDITED", cur[p], cur[p].day, cur[p].amt)}
  /\ Goto(p, "editTx")
  /\ UNCHANGED <<ledger, txs, nextId, kv, lock, hand, scan, check, spent>>

EditLog(p) ==
  /\ pc[p] = "editLog"
  /\ log' = log \cup {LogOf("EDITED", cur[p], cur[p].day, hit[p].amt)}
  /\ Goto(p, "editTx")
  /\ UNCHANGED <<ledger, txs, nextId, kv, lock, hand, scan, check, spent>>

EditTx(p) ==
  /\ pc[p] = "editTx"
  /\ txs' = {IF u.id = cur[p].id
             THEN [u EXCEPT !.amt = hit[p].amt, !.st = StatusOf(hit[p])]
             ELSE u : u \in txs}
  /\ IF Stored(cur[p]) /\ cur[p].amt # hit[p].amt
     THEN Goto(p, "editKv") /\ UNCHANGED hand
     ELSE Goto(p, "detect") /\ Drop(p)
  /\ UNCHANGED <<ledger, nextId, log, kv, lock, scan, check, spent>>

\* cascadeOplataKvEdit finds the row by the composite read with the snapshot;
\* whatever goes wrong in it is logged and forgotten.
EditKv(p) ==
  /\ pc[p] = "editKv"
  /\ \/ /\ kv' = {IF k.src = cur[p].ext THEN [k EXCEPT !.amt = hit[p].amt]
                  ELSE k : k \in kv}
        /\ UNCHANGED spent
     \/ Spend("dbfault") /\ UNCHANGED kv
  /\ Goto(p, "detect") /\ Drop(p)
  /\ UNCHANGED <<ledger, txs, nextId, log, lock, scan, check>>

\* With no candidate, or too many, the pass ends; otherwise the days around
\* the candidates that this pass has not fetched yet are read.
Triage(p) ==
  LET c == check[p].cand IN
  /\ pc[p] = "detect" /\ check[p].rows = {}
  /\ IF c = {} \/ Cardinality(c) > MAX_CANDIDATES
     THEN Goto(p, "finish") /\ UNCHANGED check
     ELSE /\ Goto(p, "verify")
          /\ check' = [check EXCEPT ![p] =
               [check[p] EXCEPT !.need = UNION {Window(t.day) : t \in c} \ scan[p].days,
                         !.ok = scan[p].days]]
  /\ UNCHANGED <<ledger, db, lock, hand, scan, spent>>

VerifyDay(p) ==
  /\ pc[p] = "verify"
  /\ \E d \in check[p].need :
       \/ /\ check' = [check EXCEPT ![p] =
               [check[p] EXCEPT !.need = @ \ {d}, !.ok = @ \cup {d},
                         !.extra = Indexed(@, Statement(d))]]
          /\ UNCHANGED spent
       \/ /\ VerifyGlitch /\ Statement(d) # {} /\ Spend("fault")
          /\ check' = [check EXCEPT ![p] =
               [check[p] EXCEPT !.need = @ \ {d}, !.ok = @ \cup {d}]]
       \/ /\ Spend("fault")
          /\ check' = [check EXCEPT ![p].need = @ \ {d}]
  /\ UNCHANGED <<ledger, db, lock, pc, hand, scan>>

\* A candidate found on another day has moved; one found nowhere is deleted,
\* provided every day of its window was answered.
Resolve(p) ==
  /\ pc[p] = "verify" /\ check[p].need = {}
  /\ \E t \in check[p].cand :
       LET it == Lookup(check[p].extra, t) IN
       /\ check' = [check EXCEPT ![p].cand = @ \ {t}]
       /\ \/ it # NoItem /\ Goto(p, "moveLog") /\ Take(p, t, it)
          \/ /\ it = NoItem /\ Window(t.day) \subseteq check[p].ok
             /\ Goto(p, "deleteLog") /\ Take(p, t, NoItem)
          \/ /\ it = NoItem /\ ~(Window(t.day) \subseteq check[p].ok)
             /\ UNCHANGED <<pc, hand>>
  /\ UNCHANGED <<ledger, db, lock, scan, spent>>

VerifyDone(p) == /\ pc[p] = "verify" /\ check[p].need = {} /\ check[p].cand = {}
                 /\ Goto(p, "finish")
                 /\ UNCHANGED <<ledger, db, lock, hand, scan, check, spent>>

-----------------------------------------------------------------------------
(* applyMovedChange and applyDeletedChange: three separate awaits each *)

MoveLog(p) ==
  /\ pc[p] = "moveLog"
  /\ log' = log \cup {LogOf("MOVED", cur[p], hit[p].day, cur[p].amt)}
  /\ Goto(p, "moveTx")
  /\ UNCHANGED <<ledger, txs, nextId, kv, lock, hand, scan, check, spent>>

\* The composite keeps the old date: only txnDate is updated.
MoveTx(p) ==
  /\ pc[p] = "moveTx"
  /\ txs' = {IF u.id = cur[p].id THEN [u EXCEPT !.day = hit[p].day] ELSE u
               : u \in txs}
  /\ IF Stored(cur[p]) THEN Goto(p, "moveKv") /\ UNCHANGED hand
                       ELSE Goto(p, "verify") /\ Drop(p)
  /\ UNCHANGED <<ledger, nextId, log, kv, lock, scan, check, spent>>

MoveKv(p) ==
  /\ pc[p] = "moveKv"
  /\ \/ /\ kv' = {IF k.src = cur[p].ext THEN [k EXCEPT !.date = hit[p].day]
                  ELSE k : k \in kv}
        /\ UNCHANGED spent
     \/ Spend("dbfault") /\ UNCHANGED kv
  /\ Goto(p, "verify") /\ Drop(p)
  /\ UNCHANGED <<ledger, txs, nextId, log, lock, scan, check>>

DeleteUnlogged(p) ==                                                \* slip
  /\ pc[p] = "deleteLog" /\ Goto(p, "deleteKv")
  /\ UNCHANGED <<ledger, db, lock, hand, scan, check, spent>>

DeleteLog(p) ==
  /\ pc[p] = "deleteLog"
  /\ log' = log \cup {LogOf("DELETED", cur[p], cur[p].day, cur[p].amt)}
  /\ Goto(p, "deleteKv")
  /\ UNCHANGED <<ledger, txs, nextId, kv, lock, hand, scan, check, spent>>

DeleteKv(p) ==
  /\ pc[p] = "deleteKv"
  /\ \/ kv' = {k \in kv : k.src # cur[p].ext} /\ UNCHANGED spent
     \/ Spend("dbfault") /\ UNCHANGED kv
  /\ Goto(p, "deleteTx")
  /\ UNCHANGED <<ledger, txs, nextId, log, lock, hand, scan, check>>

DeleteTx(p) ==
  /\ pc[p] = "deleteTx"
  /\ txs' = {u \in txs : u.id # cur[p].id}
  /\ Goto(p, "verify") /\ Drop(p)
  /\ UNCHANGED <<ledger, nextId, log, kv, lock, scan, check, spent>>

-----------------------------------------------------------------------------
(* The end of a pass, a crash of the server, and the bank *)

\* The finally block of syncAccount gives the lock back.
Finish(p) ==
  /\ pc[p] = "finish"
  /\ Goto(p, "idle")
  /\ IF p = "manual" THEN UNCHANGED lock
     ELSE /\ syncing' = FALSE
          /\ syncLog' = [syncLog EXCEPT ![p] =
                           IF scan[p].errors THEN "PARTIAL" ELSE "SUCCESS"]
  /\ scan' = [scan EXCEPT ![p] = EmptyScan]
  /\ check' = [check EXCEPT ![p] = EmptyCheck]
  /\ UNCHANGED <<ledger, db, hand, spent>>

\* Everything the process holds in memory is lost; rows stay as they are.
Crash == /\ \E p \in Callers : pc[p] # "idle"
         /\ Spend("crash")
         /\ syncing' = FALSE
         /\ pc' = [p \in Callers |-> "idle"]
         /\ cur' = [p \in Callers |-> NoTx]
         /\ hit' = [p \in Callers |-> NoItem]
         /\ scan' = [p \in Callers |-> EmptyScan]
         /\ check' = [p \in Callers |-> EmptyCheck]
         /\ UNCHANGED <<ledger, db, syncLog>>

\* A document is posted today, re-dated, re-amounted, proved, cancelled or
\* withdrawn.
Book(d, it) == /\ Spend("bank")
               /\ QuietPass => \A p \in Callers : pc[p] = "idle"
               /\ ledger' = [ledger EXCEPT ![d] = it]
               /\ UNCHANGED <<db, lock, pc, hand, scan, check>>

Post(d) == /\ ledger[d] = NoItem
           /\ \E a \in Amounts : Book(d, [doc |-> d, day |-> Today, amt |-> a,
                                          state |-> 2])
Redate(d) == /\ ledger[d] # NoItem
             /\ \E e \in Days \ {ledger[d].day} :
                  Book(d, [ledger[d] EXCEPT !.day = e])
Reamount(d) == /\ ledger[d] # NoItem
               /\ \E a \in Amounts \ {ledger[d].amt} :
                    Book(d, [ledger[d] EXCEPT !.amt = a])
Restate(d) == /\ ledger[d] # NoItem /\ ledger[d].state # 6
              /\ \E s \in BankStates \ {2, ledger[d].state} :
                   Book(d, [ledger[d] EXCEPT !.state = s])
Withdraw(d) == ledger[d] # NoItem /\ Book(d, NoItem)

-----------------------------------------------------------------------------
Fetch(p) == FetchDay(p) \/ FetchEmpty(p) \/ FetchError(p)
Upsert(p) == \/ UpsertLookup(p) \/ UpsertCreate(p) \/ UpsertShift(p)
             \/ UpsertRelink(p) \/ UpsertAudit(p)
Detect(p) == \/ DetectRead(p) \/ Compare(p) \/ EditLog(p) \/ EditTx(p)
             \/ EditKv(p) \/ Triage(p)
Verify(p) == \/ VerifyDay(p) \/ Resolve(p) \/ VerifyDone(p)
             \/ MoveLog(p) \/ MoveTx(p) \/ MoveKv(p)
             \/ DeleteLog(p) \/ DeleteKv(p) \/ DeleteTx(p)
Work(p) == Fetch(p) \/ Upsert(p) \/ Detect(p) \/ Verify(p) \/ Finish(p)
Start(p) == StartCron(p) \/ StartBackfill(p) \/ StartManual(p)
BankStep == \E d \in Docs : \/ Post(d) \/ Redate(d) \/ Reamount(d)
                            \/ Restate(d) \/ Withdraw(d)

Next == \/ \E p \in Callers : Start(p) \/ Work(p)
        \/ Crash
        \/ BankStep

Spec == Init /\ [][Next]_vars

\* The cron fires every minute and every awaited call returns.
FairSpec == Spec /\ \A p \in Callers : WF_vars(Work(p)) /\ WF_vars(StartCron(p))

-----------------------------------------------------------------------------
PCs == {"idle", "fetch", "create", "shift", "relink", "audit", "detect",
        "editLog", "editTx", "editKv", "verify", "moveLog", "moveTx", "moveKv",
        "deleteLog", "deleteKv", "deleteTx", "finish"}

Ledgers == [Docs -> Item \cup {NoItem}]
Scans == [todo : Seq(Days), items : Ledgers, days : SUBSET Days,
          queue : SUBSET Item, errors : BOOLEAN]
Checks == [rows : SUBSET Tx, cand : SUBSET Tx, need : SUBSET Days,
           extra : Ledgers, ok : SUBSET Days]

TypeOK ==
  /\ ledger \in Ledgers
  /\ txs \subseteq Tx /\ nextId \in Nat \ {0}
  /\ log \subseteq LogEntry /\ kv \subseteq KvRow
  /\ syncing \in BOOLEAN
  /\ syncLog \in [Callers -> {"none", "RUNNING", "PARTIAL", "SUCCESS"}]
  /\ pc \in [Callers -> PCs]
  /\ cur \in [Callers -> Tx \cup {NoTx}]
  /\ hit \in [Callers -> Item \cup {NoItem}]
  /\ scan \in [Callers -> Scans] /\ check \in [Callers -> Checks]
  /\ spent \in [Kinds -> Nat]

\* syncAccount runs at most once per account, and the account is in
\* syncingAccounts exactly while it does (FIX B#4).
Lockers == {p \in Callers : p # "manual" /\ pc[p] # "idle"}
SyncExclusive == /\ \A p, q \in Lockers : p = q
                 /\ syncing <=> Lockers # {}

\* A bank document with a b2_id is never mirrored by two rows, whatever the bank
\* re-dates or re-amounts, wherever callers interleave and the server crashes:
\* the findFirst of upsertOne recognises it.  One without a b2_id is mirrored
\* again when it is re-dated beyond the window of the general_id search.
OneRowPerDocument ==
  \A t, u \in txs :
    t.ext.doc = u.ext.doc /\ t.ext.doc \in B2Docs => t = u

\* When a syncAccount pass ends, every line it fetched has a row of its own
\* (upsertOne over the day's lines, FIX B#13: sub-rows are not confused).
LinesMirrored ==
  \A p \in Callers \ {"manual"} : pc[p] = "finish" =>
    \A x \in Docs : scan[p].items[x] # NoItem =>
      \E t \in txs : t.ext.doc = x

\* A Transaction row disappears only after its snapshot is in the change log,
\* so that restoreDeletedLog can bring it back (applyDeletedChange).
RowLossRecorded ==
  [][\A t \in txs : (\A u \in txs' : u.id # t.id) =>
        \E l \in log : l.type = "DELETED" /\ l.id = t.id]_vars

\* A row is deleted only when the bank dates its document on no day of the
\* verified window around the row (detectChanges).
DeleteOnlyAbsent ==
  [][\A t \in txs : (\A u \in txs' : u.id # t.id) =>
        LET it == ledger[t.ext.doc] IN
        it = NoItem \/ ~Within(it.day, t.day, VERIFY_DAYS)]_vars

\* The amount of a mirrored row changes only after an EDITED entry announced
\* the new amount (detectChanges).
AmendmentRecorded ==
  [][\A t \in txs, u \in txs' : t.id = u.id /\ t.amt # u.amt =>
        \E l \in log : l.type = "EDITED" /\ l.id = t.id /\ l.amt = u.amt]_vars

\* Every OplataKv row is linked to a Transaction row by its composite, except
\* while upsertOne is between re-dating the row and moving the link.
KvLinked ==
  \A k \in kv : \/ \E t \in txs : t.ext = k.src
               \/ \E p \in Callers : pc[p] = "relink" /\ cur[p].ext = k.src

\* Once the bank and its connection settle, the cron brings the mirror in
\* line: every line of the cron's days has its row with the bank's day,
\* amount and status, and a row whose document is gone from a day that still
\* has lines is removed (tick, syncAccount, detectChanges).
CronDay(d) == \E i \in DOMAIN CronDays : CronDays[i] = d
Faithful ==
  /\ \A x \in Docs : ledger[x] # NoItem /\ CronDay(ledger[x].day) =>
       \E t \in txs : /\ t.ext.doc = x /\ t.day = ledger[x].day
                     /\ t.amt = ledger[x].amt /\ t.st = StatusOf(ledger[x])
  /\ \A t \in txs : CronDay(t.day) /\ ledger[t.ext.doc] = NoItem =>
       Statement(t.day) = {}
MirrorSettles == <>[]Faithful
=============================================================================
