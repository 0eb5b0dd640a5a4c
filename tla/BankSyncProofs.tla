--------------------------- MODULE BankSyncProofs ---------------------------
(* Theorems about BankSync, for every value of its constants. *)
EXTENDS BankSync, FiniteSetTheorems, TLAPS

-----------------------------------------------------------------------------
(* Typing of the data the handlers build *)

LEMMA KvTypes ==
  ASSUME NEW k \in KvRow
  PROVE  /\ \A e \in ExtId, d \in Days : [k EXCEPT !.src = e, !.date = d] \in KvRow
         /\ \A a \in Amounts : [k EXCEPT !.amt = a] \in KvRow
         /\ \A d \in Days : [k EXCEPT !.date = d] \in KvRow
BY DEF KvRow

LEMMA ItemTypes ==
  ASSUME NEW it \in Item
  PROVE  /\ CompositeId(it) \in ExtId /\ StatusOf(it) \in Statuses
         /\ it.doc \in Docs /\ it.day \in Days /\ it.amt \in Amounts
BY DEF Item, ExtId, CompositeId, StatusOf, Statuses, BankStates

LEMMA LookupType ==
  ASSUME NEW map \in Ledgers, NEW t \in Tx
  PROVE  Lookup(map, t) \in Item \cup {NoItem}
BY DEF Ledgers, Tx, ExtId, Lookup

LEMMA IndexedType ==
  ASSUME ledger \in Ledgers, NEW map \in Ledgers, NEW d \in Days
  PROVE  /\ Indexed(map, Statement(d)) \in Ledgers /\ Indexed(map, {}) \in Ledgers
         /\ {ledger[x] : x \in Statement(d)} \subseteq Item
BY DEF Ledgers, Indexed, Statement

LEMMA DatesType ==
  /\ CronDays \in Seq(Days)
  /\ \A a \in Nat \ {0}, b \in Days : Ascending(a, b) \in Seq(Days)
  /\ \A a \in Days : Later(a, MinDay + 1) \in Nat \ {0} /\ a \in Nat \ {0}
BY CalendarAssumption, SMTT(30) DEF CronDays, Ascending, Later, Days

LEMMA NothingType == Nothing \in Ledgers
BY DEF Nothing, Ledgers

LEMMA ScanTypes ==
  ASSUME NEW s \in Scans
  PROVE  /\ \A todo \in Seq(Days), items \in Ledgers, days \in SUBSET Days,
              queue \in SUBSET Item :
              [s EXCEPT !.todo = todo, !.items = items, !.days = days,
                        !.queue = queue] \in Scans
         /\ \A todo \in Seq(Days) :
              [s EXCEPT !.todo = todo, !.errors = TRUE] \in Scans
         /\ \A queue \in SUBSET Item : [s EXCEPT !.queue = queue] \in Scans
         /\ s.todo \in Seq(Days) /\ s.items \in Ledgers
         /\ s.days \subseteq Days /\ s.queue \subseteq Item
BY DEF Scans

LEMMA CheckTypes ==
  ASSUME NEW c \in Checks
  PROVE  /\ \A rows \in SUBSET Tx, cand \in SUBSET Tx :
              [c EXCEPT !.rows = rows, !.cand = cand] \in Checks
         /\ \A rows \in SUBSET Tx : [c EXCEPT !.rows = rows] \in Checks
         /\ \A cand \in SUBSET Tx : [c EXCEPT !.cand = cand] \in Checks
         /\ \A need \in SUBSET Days : [c EXCEPT !.need = need] \in Checks
         /\ \A need \in SUBSET Days, ok \in SUBSET Days :
              [c EXCEPT !.need = need, !.ok = ok] \in Checks
         /\ \A need \in SUBSET Days, ok \in SUBSET Days, extra \in Ledgers :
              [c EXCEPT !.need = need, !.ok = ok, !.extra = extra] \in Checks
         /\ c.rows \subseteq Tx /\ c.cand \subseteq Tx
         /\ c.need \subseteq Days /\ c.ok \subseteq Days /\ c.extra \in Ledgers
BY DEF Checks

LEMMA EmptyTypes == EmptyScan \in Scans /\ EmptyCheck \in Checks
BY NothingType DEF EmptyScan, EmptyCheck, Scans, Checks

LEMMA SpendType ==
  ASSUME spent \in [Kinds -> Nat], NEW k \in Kinds, Spend(k)
  PROVE  spent' \in [Kinds -> Nat]
BY DEF Spend

LEMMA KindNames == {"bank", "fault", "dbfault", "crash", "pass"} \subseteq Kinds
BY DEF Kinds


-----------------------------------------------------------------------------
(* The type invariant.  It is inductive only together with HandOK: a caller  *)
(* that is about to write holds the row and the line the write is made of.   *)

NeedsItem == {"create", "shift", "relink", "audit", "editLog", "editTx",
              "editKv", "moveLog", "moveTx", "moveKv"}
NeedsTx == (NeedsItem \ {"create"}) \cup {"deleteLog", "deleteKv", "deleteTx"}
HandOK == \A p \in Callers : /\ pc[p] \in NeedsItem => hit[p] \in Item
                             /\ pc[p] \in NeedsTx => cur[p] \in Tx
TypeInv == TypeOK /\ HandOK

LEMMA TypeInit == Init => TypeInv
<1> SUFFICES ASSUME Init PROVE TypeInv
  OBVIOUS
<1>1. ledger \in Ledgers
  BY BankAssumption DEF Init, Ledgers
<1>2. txs \subseteq Tx /\ kv \subseteq KvRow /\ log \subseteq LogEntry
  BY MirrorAssumption DEF Init, Tx, KvRow
<1>3. nextId \in Nat \ {0}
  BY MirrorAssumption, FS_CardinalityType DEF Init
<1> QED
  BY <1>1, <1>2, <1>3, EmptyTypes
  DEF Init, TypeInv, TypeOK, HandOK, NeedsItem, NeedsTx, PCs, Kinds

LEMMA TypeStart ==
  ASSUME TypeInv, NEW p \in Callers, Start(p) PROVE TypeInv'
<1> USE DEF TypeInv, TypeOK, HandOK, Goto, db, hand, lock
<1>1. ASSUME NEW dates \in Seq(Days), Begin(p, dates),
             syncing' \in BOOLEAN, spent' \in [Kinds -> Nat],
             syncLog' \in [Callers -> {"none", "RUNNING", "PARTIAL", "SUCCESS"}]
      PROVE  TypeInv'
  <2>1. [EmptyScan EXCEPT !.todo = dates] \in Scans
    BY EmptyTypes DEF Scans
  <2> QED
    BY <1>1, <2>1 DEF Begin, PCs, NeedsItem, NeedsTx
<1>2. ASSUME StartCron(p) PROVE TypeInv'
  BY <1>1, <1>2, DatesType DEF StartCron, Enter
<1>3. ASSUME StartBackfill(p) PROVE TypeInv'
  <2>1. PICK a \in Days, b \in Days :
               /\ Begin(p, Ascending(Later(a, MinDay + 1), b))
               /\ Enter(p, Ascending(Later(a, MinDay + 1), b))
    BY <1>3 DEF StartBackfill
  <2>2. Ascending(Later(a, MinDay + 1), b) \in Seq(Days)
    BY DatesType
  <2> QED
    BY <1>1, <1>3, <2>1, <2>2, SpendType, KindNames DEF StartBackfill, Enter
<1>4. ASSUME StartManual(p) PROVE TypeInv'
  <2>1. PICK a \in Days, b \in Days : Begin(p, Ascending(a, b))
    BY <1>4 DEF StartManual
  <2>2. Ascending(a, b) \in Seq(Days)
    BY DatesType
  <2> QED
    BY <1>1, <1>4, <2>1, <2>2, SpendType, KindNames DEF StartManual
<1> QED
  BY <1>2, <1>3, <1>4 DEF Start

LEMMA TypeFetch ==
  ASSUME TypeInv, NEW p \in Callers, Fetch(p) PROVE TypeInv'
<1> USE DEF TypeInv, TypeOK, HandOK, db, hand, lock
<1>1. PICK d \in Days : d = Head(scan[p].todo) /\ Tail(scan[p].todo) \in Seq(Days)
  <2>1. scan[p].todo \in Seq(Days) /\ scan[p].todo # <<>>
    BY ScanTypes DEF Fetch, FetchDay, FetchEmpty, FetchError, Fetching
  <2> QED
    BY <2>1
<1>2. ASSUME NEW lines, lines = Statement(d) \/ lines = {}, Answer(p, lines)
      PROVE  scan' \in [Callers -> Scans]
  <2>1. /\ Indexed(scan[p].items, lines) \in Ledgers
        /\ {ledger[x] : x \in lines} \subseteq Item
    BY <1>2, IndexedType, ScanTypes
  <2> DEFINE days == IF lines = {} THEN scan[p].days ELSE scan[p].days \cup {d}
             queue == IF p = "manual" THEN {} ELSE {ledger[x] : x \in lines}
             s == [scan[p] EXCEPT !.todo = Tail(@), !.items = Indexed(@, lines),
                                  !.days = IF lines = {} THEN @ ELSE @ \cup {d},
                                  !.queue = queue]
  <2>2. days \in SUBSET Days /\ queue \in SUBSET Item
    BY <2>1, ScanTypes
  <2>3. s \in Scans
    BY <1>1, <2>1, <2>2, ZenonT(60) DEF Scans
  <2>4. scan' = [scan EXCEPT ![p] = s]
    BY <1>1, <1>2, Zenon DEF Answer
  <2> HIDE DEF s
  <2> QED
    BY <2>3, <2>4
<1>3. ASSUME FetchDay(p) PROVE TypeInv'
  BY <1>1, <1>2, <1>3 DEF FetchDay
<1>4. ASSUME FetchEmpty(p) PROVE TypeInv'
  BY <1>1, <1>2, <1>4, SpendType, KindNames DEF FetchEmpty
<1>5. ASSUME FetchError(p) PROVE TypeInv'
  <2>1. [scan[p] EXCEPT !.todo = Tail(@), !.errors = TRUE] \in Scans
    BY <1>1 DEF Scans
  <2> QED
    BY <1>5, <2>1, SpendType, KindNames DEF FetchError
<1> QED
  BY <1>3, <1>4, <1>5 DEF Fetch

LEMMA TypeUpsert ==
  ASSUME TypeInv, NEW p \in Callers, Upsert(p) PROVE TypeInv'
<1> USE DEF TypeInv, TypeOK, HandOK, Goto, Take, Drop, db, hand, lock
<1>1. ASSUME UpsertLookup(p) PROVE TypeInv'
  <2>1. PICK it \in scan[p].queue :
          /\ scan' = [scan EXCEPT ![p].queue = @ \ {it}]
          /\ \/ Goto(p, "create") /\ Take(p, NoTx, it)
             \/ UNCHANGED <<pc, hand>>
             \/ \E t \in Existing(it) : Goto(p, "shift") /\ Take(p, t, it)
    BY <1>1 DEF UpsertLookup
  <2>2. it \in Item /\ scan[p].queue \subseteq Item
    BY ScanTypes
  <2>3. [scan[p] EXCEPT !.queue = @ \ {it}] \in Scans
    BY <2>2 DEF Scans
  <2>4. scan' \in [Callers -> Scans]
    BY <2>1, <2>3
  <2> QED
    BY <1>1, <2>1, <2>2, <2>4
    DEF UpsertLookup, Existing, PCs, NeedsItem, NeedsTx
<1>2. ASSUME UpsertCreate(p) PROVE TypeInv'
  <2> DEFINE it == hit[p]
             row == [id |-> nextId, ext |-> CompositeId(it),
                     b2 |-> IF it.doc \in B2Docs THEN it.doc ELSE NoDoc,
                     day |-> it.day, amt |-> it.amt, st |-> StatusOf(it)]
  <2>1. it \in Item
    BY <1>2 DEF UpsertCreate, NeedsItem
  <2>2. row \in Tx
    BY <2>1, ItemTypes DEF Tx
  <2>3. txs' = txs \/ txs' = txs \cup {row}
    BY <1>2 DEF UpsertCreate
  <2> HIDE DEF row, it
  <2> QED
    BY <1>2, <2>2, <2>3 DEF UpsertCreate, PCs, NeedsItem, NeedsTx
<1>3. ASSUME UpsertShift(p) PROVE TypeInv'
  <2>1. hit[p] \in Item /\ cur[p] \in Tx
    BY <1>3 DEF UpsertShift, NeedsItem, NeedsTx
  <2> DEFINE b2(u) == IF hit[p].doc \in B2Docs THEN hit[p].doc ELSE u.b2
             row(u) == [u EXCEPT !.ext = CompositeId(hit[p]), !.day = hit[p].day,
                                 !.b2 = b2(u)]
  <2>2. ASSUME NEW u \in Tx PROVE row(u) \in Tx
    <3>1. u.b2 \in Docs \cup {NoDoc} /\ b2(u) \in Docs \cup {NoDoc}
      BY <2>1, ItemTypes DEF Tx
    <3> HIDE DEF b2
    <3> QED
      BY <2>1, <3>1, ItemTypes DEF Tx
  <2>3. /\ \/ txs' = txs
           \/ txs' = {IF u.id = cur[p].id THEN row(u) ELSE u : u \in txs}
        /\ \/ pc' = [pc EXCEPT ![p] = "relink"] /\ UNCHANGED hand
           \/ pc' = [pc EXCEPT ![p] = "audit"] /\ UNCHANGED hand
           \/ pc' = [pc EXCEPT ![p] = "fetch"] /\ Drop(p)
        /\ UNCHANGED <<ledger, nextId, log, kv, lock, scan, check, spent>>
    BY <1>3 DEF UpsertShift
  <2> HIDE DEF row
  <2>4. txs' \subseteq Tx
    BY <2>2, <2>3
  <2> QED
    BY <2>1, <2>3, <2>4 DEF PCs, NeedsItem, NeedsTx
<1>4. ASSUME UpsertRelink(p) PROVE TypeInv'
  <2>1. hit[p] \in Item /\ cur[p] \in Tx
    BY <1>4 DEF UpsertRelink, NeedsItem, NeedsTx
  <2> DEFINE row(k) == [k EXCEPT !.src = CompositeId(hit[p]), !.date = hit[p].day]
  <2>2. ASSUME NEW k \in KvRow PROVE row(k) \in KvRow
    BY <2>1, ItemTypes DEF KvRow
  <2>3. \/ kv' = kv
        \/ kv' = {IF k.src = cur[p].ext THEN row(k) ELSE k : k \in kv}
    BY <1>4 DEF UpsertRelink
  <2>4. kv' \subseteq KvRow
    <3> HIDE DEF row
    <3> QED
      BY <2>2, <2>3
  <2>5. /\ \/ pc' = [pc EXCEPT ![p] = "audit"] /\ UNCHANGED hand
           \/ pc' = [pc EXCEPT ![p] = "fetch"] /\ Drop(p)
        /\ UNCHANGED <<ledger, txs, nextId, log, lock, scan, check, spent>>
    BY <1>4 DEF UpsertRelink
  <2> HIDE DEF row
  <2> QED
    BY <2>1, <2>4, <2>5 DEF PCs, NeedsItem, NeedsTx
<1>5. ASSUME UpsertAudit(p) PROVE TypeInv'
  <2>1. hit[p] \in Item /\ cur[p] \in Tx
    BY <1>5 DEF UpsertAudit, NeedsItem, NeedsTx
  <2>2. [LogOf("EDITED", cur[p], hit[p].day, cur[p].amt)
           EXCEPT !.ext = CompositeId(hit[p])] \in LogEntry
    BY <2>1, ItemTypes DEF LogOf, LogEntry, Tx
  <2> QED
    BY <1>5, <2>1, <2>2 DEF UpsertAudit, PCs, NeedsItem, NeedsTx
<1> QED
  BY <1>1, <1>2, <1>3, <1>4, <1>5 DEF Upsert

LEMMA TypeDetect ==
  ASSUME TypeInv, NEW p \in Callers, Detect(p) PROVE TypeInv'
<1> USE DEF TypeInv, TypeOK, HandOK, Goto, Take, Drop, db, hand, lock
<1>1. ASSUME DetectRead(p) PROVE TypeInv'
  <2> DEFINE c == [EmptyCheck EXCEPT !.rows = {t \in txs : t.day \in scan[p].days}]
  <2>1. c \in Checks
    BY EmptyTypes DEF Checks
  <2>2. /\ check' = check \/ check' = [check EXCEPT ![p] = c]
        /\ \E l \in {"finish", "detect"} : pc' = [pc EXCEPT ![p] = l]
        /\ UNCHANGED <<ledger, db, lock, hand, scan, spent>>
    BY <1>1 DEF DetectRead
  <2> HIDE DEF c
  <2>3. check' \in [Callers -> Checks]
    BY <2>1, <2>2
  <2>4. pc' \in [Callers -> PCs] /\ HandOK'
    BY <2>2 DEF PCs, NeedsItem, NeedsTx
  <2> QED
    BY <2>2, <2>3, <2>4
<1>2. ASSUME Compare(p) PROVE TypeInv'
  <2>1. PICK t \in check[p].rows :
          LET it == Lookup(scan[p].items, t) IN
          /\ \/ check' = [check EXCEPT ![p] = [check[p] EXCEPT
                            !.rows = @ \ {t}, !.cand = @ \cup {t}]]
             \/ check' = [check EXCEPT ![p].rows = @ \ {t}]
          /\ \/ UNCHANGED <<pc, hand>>
             \/ it # NoItem /\ Goto(p, "editLog") /\ Take(p, t, it)
          /\ \/ txs' = txs
             \/ it # NoItem /\ txs' = {IF u.id = t.id
                     THEN [u EXCEPT !.st = StatusOf(it)] ELSE u : u \in txs}
    BY <1>2 DEF Compare
  <2>2. /\ t \in Tx /\ check[p].rows \subseteq Tx /\ check[p].cand \subseteq Tx
        /\ Lookup(scan[p].items, t) \in Item \cup {NoItem}
    BY ScanTypes, CheckTypes, LookupType
  <2>3. check' \in [Callers -> Checks]
    <3>1. /\ [check[p] EXCEPT !.rows = @ \ {t}, !.cand = @ \cup {t}] \in Checks
          /\ [check[p] EXCEPT !.rows = @ \ {t}] \in Checks
      BY <2>2 DEF Checks
    <3> QED
      BY <2>1, <3>1
  <2>4. txs' \subseteq Tx
    <3> DEFINE row(u) == [u EXCEPT !.st = StatusOf(Lookup(scan[p].items, t))]
    <3>1. \/ txs' = txs
          \/ /\ Lookup(scan[p].items, t) \in Item
             /\ txs' = {IF u.id = t.id THEN row(u) ELSE u : u \in txs}
      BY <2>1, <2>2
    <3>2. ASSUME NEW u \in Tx, Lookup(scan[p].items, t) \in Item
          PROVE  row(u) \in Tx
      BY <3>2, ItemTypes DEF Tx
    <3> HIDE DEF row
    <3> QED
      BY <3>1, <3>2
  <2> QED
    BY <1>2, <2>1, <2>2, <2>3, <2>4 DEF Compare, PCs, NeedsItem, NeedsTx
<1>3. ASSUME EditLog(p) PROVE TypeInv'
  <2>1. hit[p] \in Item /\ cur[p] \in Tx
    BY <1>3 DEF EditLog, NeedsItem, NeedsTx
  <2>2. LogOf("EDITED", cur[p], cur[p].day, hit[p].amt) \in LogEntry
    BY <2>1, ItemTypes DEF LogOf, LogEntry, Tx
  <2> QED
    BY <1>3, <2>1, <2>2 DEF EditLog, PCs, NeedsItem, NeedsTx
<1>4. ASSUME EditTx(p) PROVE TypeInv'
  <2>1. hit[p] \in Item /\ cur[p] \in Tx
    BY <1>4 DEF EditTx, NeedsItem, NeedsTx
  <2>2. txs' \subseteq Tx
    <3> DEFINE row(u) == [u EXCEPT !.amt = hit[p].amt, !.st = StatusOf(hit[p])]
    <3>1. txs' = {IF u.id = cur[p].id THEN row(u) ELSE u : u \in txs}
      BY <1>4 DEF EditTx
    <3>2. ASSUME NEW u \in Tx PROVE row(u) \in Tx
      BY <2>1, ItemTypes DEF Tx
    <3> HIDE DEF row
    <3> QED
      BY <3>1, <3>2
  <2>3. /\ \/ pc' = [pc EXCEPT ![p] = "editKv"] /\ UNCHANGED hand
           \/ pc' = [pc EXCEPT ![p] = "detect"] /\ Drop(p)
        /\ UNCHANGED <<ledger, nextId, log, kv, lock, scan, check, spent>>
    BY <1>4 DEF EditTx
  <2> QED
    BY <2>1, <2>2, <2>3 DEF PCs, NeedsItem, NeedsTx
<1>5. ASSUME EditKv(p) PROVE TypeInv'
  <2>1. hit[p] \in Item
    BY <1>5 DEF EditKv, NeedsItem
  <2>2. kv' \subseteq KvRow /\ spent' \in [Kinds -> Nat]
    BY <1>5, <2>1, ItemTypes, KvTypes, SpendType, KindNames, ZenonT(60) DEF EditKv
  <2> QED
    BY <1>5, <2>2 DEF EditKv, PCs, NeedsItem, NeedsTx
<1>6. ASSUME Triage(p) PROVE TypeInv'
  <2> DEFINE need == UNION {Window(t.day) : t \in check[p].cand} \ scan[p].days
  <2>1. [check[p] EXCEPT !.need = need, !.ok = scan[p].days] \in Checks
    <3>1. need \in SUBSET Days /\ scan[p].days \in SUBSET Days
      BY ScanTypes DEF Window
    <3> HIDE DEF need
    <3> QED
      BY <3>1, ZenonT(60) DEF Checks
  <2>2. check' \in [Callers -> Checks]
    BY <1>6, <2>1 DEF Triage
  <2> QED
    BY <1>6, <2>2 DEF Triage, PCs, NeedsItem, NeedsTx
<1> QED
  BY <1>1, <1>2, <1>3, <1>4, <1>5, <1>6 DEF Detect

LEMMA TypeVerify ==
  ASSUME TypeInv, NEW p \in Callers, Verify(p) PROVE TypeInv'
<1> USE DEF TypeInv, TypeOK, HandOK, Goto, Take, Drop, db, hand, lock
<1>1. ASSUME VerifyDay(p) PROVE TypeInv'
  <2>1. PICK d \in check[p].need :
          /\ \/ check' = [check EXCEPT ![p] =
                  [check[p] EXCEPT !.need = @ \ {d}, !.ok = @ \cup {d},
                                   !.extra = Indexed(@, Statement(d))]]
             \/ check' = [check EXCEPT ![p] =
                  [check[p] EXCEPT !.need = @ \ {d}, !.ok = @ \cup {d}]]
             \/ check' = [check EXCEPT ![p].need = @ \ {d}]
          /\ spent' = spent \/ Spend("fault")
    BY <1>1 DEF VerifyDay
  <2>2. /\ check[p].need \subseteq Days /\ check[p].ok \subseteq Days
        /\ d \in Days /\ Indexed(check[p].extra, Statement(d)) \in Ledgers
    BY CheckTypes, IndexedType
  <2>3. /\ [check[p] EXCEPT !.need = @ \ {d}, !.ok = @ \cup {d},
                           !.extra = Indexed(@, Statement(d))] \in Checks
        /\ [check[p] EXCEPT !.need = @ \ {d}, !.ok = @ \cup {d}] \in Checks
        /\ [check[p] EXCEPT !.need = @ \ {d}] \in Checks
    BY <2>2 DEF Checks
  <2>4. check' \in [Callers -> Checks] /\ spent' \in [Kinds -> Nat]
    BY <2>1, <2>3, SpendType, KindNames, ZenonT(60)
  <2> QED
    BY <1>1, <2>4 DEF VerifyDay
<1>2. ASSUME Resolve(p) PROVE TypeInv'
  <2>1. PICK t \in check[p].cand :
          LET it == Lookup(check[p].extra, t) IN
          /\ check' = [check EXCEPT ![p].cand = @ \ {t}]
          /\ \/ it # NoItem /\ Goto(p, "moveLog") /\ Take(p, t, it)
             \/ Goto(p, "deleteLog") /\ Take(p, t, NoItem)
             \/ UNCHANGED <<pc, hand>>
    BY <1>2 DEF Resolve
  <2>2. /\ t \in Tx /\ check[p].cand \subseteq Tx
        /\ Lookup(check[p].extra, t) \in Item \cup {NoItem}
    BY CheckTypes, LookupType
  <2>3. [check[p] EXCEPT !.cand = @ \ {t}] \in Checks
    BY <2>2, ZenonT(60) DEF Checks
  <2>4. check' \in [Callers -> Checks]
    BY <2>1, <2>3
  <2> QED
    BY <1>2, <2>1, <2>2, <2>4 DEF Resolve, PCs, NeedsItem, NeedsTx
<1>3. ASSUME VerifyDone(p) PROVE TypeInv'
  BY <1>3 DEF VerifyDone, PCs, NeedsItem, NeedsTx
<1>4. ASSUME MoveLog(p) PROVE TypeInv'
  <2>1. hit[p] \in Item /\ cur[p] \in Tx
    BY <1>4 DEF MoveLog, NeedsItem, NeedsTx
  <2>2. LogOf("MOVED", cur[p], hit[p].day, cur[p].amt) \in LogEntry
    BY <2>1, ItemTypes DEF LogOf, LogEntry, Tx
  <2> QED
    BY <1>4, <2>1, <2>2 DEF MoveLog, PCs, NeedsItem, NeedsTx
<1>5. ASSUME MoveTx(p) PROVE TypeInv'
  <2>1. hit[p] \in Item /\ cur[p] \in Tx
    BY <1>5 DEF MoveTx, NeedsItem, NeedsTx
  <2>2. txs' \subseteq Tx
    <3> DEFINE row(u) == [u EXCEPT !.day = hit[p].day]
    <3>1. txs' = {IF u.id = cur[p].id THEN row(u) ELSE u : u \in txs}
      BY <1>5 DEF MoveTx
    <3>2. ASSUME NEW u \in Tx PROVE row(u) \in Tx
      BY <2>1, ItemTypes DEF Tx
    <3> HIDE DEF row
    <3> QED
      BY <3>1, <3>2
  <2>3. /\ \/ pc' = [pc EXCEPT ![p] = "moveKv"] /\ UNCHANGED hand
           \/ pc' = [pc EXCEPT ![p] = "verify"] /\ Drop(p)
        /\ UNCHANGED <<ledger, nextId, log, kv, lock, scan, check, spent>>
    BY <1>5 DEF MoveTx
  <2> QED
    BY <2>1, <2>2, <2>3 DEF PCs, NeedsItem, NeedsTx
<1>6. ASSUME MoveKv(p) PROVE TypeInv'
  <2>1. hit[p] \in Item
    BY <1>6 DEF MoveKv, NeedsItem
  <2>2. kv' \subseteq KvRow /\ spent' \in [Kinds -> Nat]
    BY <1>6, <2>1, ItemTypes, KvTypes, SpendType, KindNames, ZenonT(60) DEF MoveKv
  <2> QED
    BY <1>6, <2>2 DEF MoveKv, PCs, NeedsItem, NeedsTx
<1>7. ASSUME DeleteLog(p) PROVE TypeInv'
  <2>1. cur[p] \in Tx
    BY <1>7 DEF DeleteLog, NeedsItem, NeedsTx
  <2>2. LogOf("DELETED", cur[p], cur[p].day, cur[p].amt) \in LogEntry
    BY <2>1 DEF LogOf, LogEntry, Tx
  <2> QED
    BY <1>7, <2>1, <2>2 DEF DeleteLog, PCs, NeedsItem, NeedsTx
<1>8. ASSUME DeleteKv(p) PROVE TypeInv'
  <2>1. cur[p] \in Tx
    BY <1>8 DEF DeleteKv, NeedsItem, NeedsTx
  <2>2. kv' \subseteq KvRow /\ spent' \in [Kinds -> Nat]
    BY <1>8, SpendType, KindNames DEF DeleteKv
  <2> QED
    BY <1>8, <2>1, <2>2 DEF DeleteKv, PCs, NeedsItem, NeedsTx
<1>9. ASSUME DeleteTx(p) PROVE TypeInv'
  BY <1>9 DEF DeleteTx, PCs, NeedsItem, NeedsTx
<1> QED
  BY <1>1, <1>2, <1>3, <1>4, <1>5, <1>6, <1>7, <1>8, <1>9 DEF Verify

LEMMA TypeFinish ==
  ASSUME TypeInv, NEW p \in Callers, Finish(p) PROVE TypeInv'
BY EmptyTypes
DEF TypeInv, TypeOK, HandOK, Goto, db, hand, lock, Finish, PCs, NeedsItem, NeedsTx

LEMMA TypeCrash ==
  ASSUME TypeInv, Crash PROVE TypeInv'
BY EmptyTypes, SpendType, KindNames
DEF TypeInv, TypeOK, HandOK, db, Crash, PCs, NeedsItem, NeedsTx

LEMMA TypeBank ==
  ASSUME TypeInv, BankStep PROVE TypeInv'
<1> USE DEF TypeInv, TypeOK, HandOK, db, hand, lock
<1>1. ASSUME NEW d \in Docs, NEW it \in Item \cup {NoItem}, Book(d, it)
      PROVE  TypeInv'
  <2>1. [ledger EXCEPT ![d] = it] \in Ledgers
    BY DEF Ledgers
  <2> QED
    BY <1>1, <2>1, SpendType, KindNames DEF Book
<1>2. PICK d \in Docs : \/ Post(d) \/ Redate(d) \/ Reamount(d)
                        \/ Restate(d) \/ Withdraw(d)
  BY DEF BankStep
<1>3. ledger[d] = NoItem \/ ledger[d] \in Item
  BY DEF Ledgers
<1>4. ASSUME Post(d) PROVE TypeInv'
  BY <1>1, <1>4, CalendarAssumption DEF Post, Item, BankStates
<1>5. ASSUME Redate(d) PROVE TypeInv'
  BY <1>1, <1>3, <1>5 DEF Redate, Item
<1>6. ASSUME Reamount(d) PROVE TypeInv'
  BY <1>1, <1>3, <1>6 DEF Reamount, Item
<1>7. ASSUME Restate(d) PROVE TypeInv'
  BY <1>1, <1>3, <1>7 DEF Restate, Item
<1>8. ASSUME Withdraw(d) PROVE TypeInv'
  BY <1>1, <1>8 DEF Withdraw
<1> QED
  BY <1>2, <1>4, <1>5, <1>6, <1>7, <1>8

LEMMA TypeStep == TypeInv /\ [Next]_vars => TypeInv'
<1> SUFFICES ASSUME TypeInv, [Next]_vars PROVE TypeInv'
  OBVIOUS
<1>1. CASE UNCHANGED vars
  BY <1>1 DEF vars, TypeInv, TypeOK, HandOK
<1>2. CASE Next
  BY <1>2, TypeStart, TypeFetch, TypeUpsert, TypeDetect, TypeVerify, TypeFinish,
     TypeCrash, TypeBank DEF Next, Work
<1> QED
  BY <1>1, <1>2

\* Every variable of every reachable state has its type, and a caller about to
\* write holds a whole row and a whole line: no handler of syncAccount,
\* detectChanges or the cascades works on a missing record.
THEOREM TypeCorrect == Spec => []TypeOK
<1>1. TypeInv => TypeOK
  BY DEF TypeInv
<1> QED
  BY TypeInit, TypeStep, <1>1, PTL DEF Spec
=============================================================================
