--------------------------- MODULE BankSyncSafety ---------------------------
(* The safety theorems of BankSync, for every value of its constants.  They *)
(* rest on TypeInv (BankSyncProofs) and on what a caller relies on between  *)
(* two awaits: the lock, the identity of the row in hand, the audit entry   *)
(* written before the row is touched, the days that were answered, and the  *)
(* rows it has read.                                                        *)
EXTENDS BankSyncProofs

-----------------------------------------------------------------------------
(* What one step of a caller may do *)

\* A working caller is not idle, moves only itself, and leaves the lock alone.
LEMMA WorkStep ==
  ASSUME TypeInv, NEW p \in Callers,
         Fetch(p) \/ Upsert(p) \/ Detect(p) \/ Verify(p)
  PROVE  /\ pc[p] # "idle" /\ UNCHANGED lock
         /\ \E l \in PCs \ {"idle"} : pc' = [pc EXCEPT ![p] = l]
         /\ \E t, it : Take(p, t, it)
<1> USE DEF Goto, Take, Drop, hand, lock, db
<1>0. /\ pc \in [Callers -> PCs] /\ pc = [pc EXCEPT ![p] = pc[p]]
      /\ cur = [cur EXCEPT ![p] = cur[p]] /\ hit = [hit EXCEPT ![p] = hit[p]]
  BY DEF TypeInv, TypeOK
<1>1. CASE Fetch(p)
  BY <1>0, <1>1 DEF Fetch, FetchDay, FetchEmpty, FetchError, Fetching
<1>2. CASE Upsert(p)
  <2>1. CASE UpsertLookup(p)
    <3>1. \/ UNCHANGED <<pc, hand>>
          \/ \E t, it : pc' = [pc EXCEPT ![p] = "create"] /\ Take(p, t, it)
          \/ \E t, it : pc' = [pc EXCEPT ![p] = "shift"] /\ Take(p, t, it)
      BY <2>1 DEF UpsertLookup
    <3> QED
      BY <1>0, <2>1, <3>1 DEF UpsertLookup, PCs
  <2>2. CASE UpsertCreate(p)
    BY <2>2 DEF UpsertCreate, PCs
  <2>3. CASE UpsertShift(p)
    <3>1. /\ \/ pc' = [pc EXCEPT ![p] = "relink"] /\ UNCHANGED hand
             \/ pc' = [pc EXCEPT ![p] = "audit"] /\ UNCHANGED hand
             \/ pc' = [pc EXCEPT ![p] = "fetch"] /\ Drop(p)
          /\ pc[p] # "idle" /\ UNCHANGED lock
      BY <2>3 DEF UpsertShift
    <3> QED
      BY <1>0, <3>1 DEF PCs
  <2>4. CASE UpsertRelink(p)
    <3>1. /\ \/ pc' = [pc EXCEPT ![p] = "audit"] /\ UNCHANGED hand
             \/ pc' = [pc EXCEPT ![p] = "fetch"] /\ Drop(p)
          /\ pc[p] # "idle" /\ UNCHANGED lock
      BY <2>4 DEF UpsertRelink
    <3> QED
      BY <1>0, <3>1 DEF PCs
  <2>5. CASE UpsertAudit(p)
    BY <2>5 DEF UpsertAudit, PCs
  <2> QED
    BY <1>2, <2>1, <2>2, <2>3, <2>4, <2>5 DEF Upsert
<1>3. CASE Detect(p)
  <2>1. CASE DetectRead(p)
    BY <1>0, <2>1 DEF DetectRead, PCs
  <2>2. CASE Compare(p)
    BY <1>0, <2>2 DEF Compare, PCs
  <2>3. CASE EditLog(p)
    BY <1>0, <2>3 DEF EditLog, PCs
  <2>4. CASE EditTx(p)
    <3>1. /\ \/ pc' = [pc EXCEPT ![p] = "editKv"] /\ UNCHANGED hand
             \/ pc' = [pc EXCEPT ![p] = "detect"] /\ Drop(p)
          /\ pc[p] # "idle" /\ UNCHANGED lock
      BY <2>4 DEF EditTx
    <3> QED
      BY <1>0, <3>1 DEF PCs
  <2>5. CASE EditKv(p)
    BY <2>5 DEF EditKv, PCs
  <2>6. CASE Triage(p)
    BY <1>0, <2>6 DEF Triage, PCs
  <2> QED
    BY <1>3, <2>1, <2>2, <2>3, <2>4, <2>5, <2>6 DEF Detect
<1>4. CASE Verify(p)
  <2>1. CASE VerifyDay(p)
    BY <1>0, <2>1 DEF VerifyDay, PCs
  <2>2. CASE Resolve(p)
    BY <1>0, <2>2 DEF Resolve, PCs
  <2>3. CASE VerifyDone(p) \/ MoveLog(p) \/ DeleteLog(p) \/ DeleteKv(p)
    BY <1>0, <2>3 DEF VerifyDone, MoveLog, DeleteLog, DeleteKv, PCs
  <2>4. CASE MoveTx(p)
    BY <1>0, <2>4 DEF MoveTx, PCs
  <2>5. CASE MoveKv(p) \/ DeleteTx(p)
    BY <2>5 DEF MoveKv, DeleteTx, PCs
  <2> QED
    BY <1>4, <2>1, <2>2, <2>3, <2>4, <2>5 DEF Verify
<1> QED
  BY <1>1, <1>2, <1>3, <1>4

\* Starting and finishing a pass, seen from pc and the hands.
LEMMA PassEnds ==
  ASSUME TypeInv, NEW p \in Callers, Start(p) \/ Finish(p)
  PROVE  /\ UNCHANGED <<txs, nextId, log, kv, hand>>
         /\ \/ pc' = [pc EXCEPT ![p] = "fetch"] /\ pc[p] = "idle"
            \/ pc' = [pc EXCEPT ![p] = "idle"] /\ pc[p] = "finish"
BY DEF Start, StartCron, StartBackfill, StartManual, Begin, Finish, Goto, db, hand

-----------------------------------------------------------------------------
(* The lock of syncAccount *)

LEMMA LockInit == Init => SyncExclusive
BY DEF Init, SyncExclusive, Lockers

LEMMA LockStep == TypeInv /\ SyncExclusive /\ [Next]_vars => SyncExclusive'
<1> SUFFICES ASSUME TypeInv, SyncExclusive, [Next]_vars PROVE SyncExclusive'
  OBVIOUS
<1> USE DEF SyncExclusive, Lockers
<1>0. pc \in [Callers -> PCs]
  BY DEF TypeInv, TypeOK
<1>1. ASSUME NEW p \in Callers, Start(p) PROVE SyncExclusive'
  <2>1. pc[p] = "idle" /\ pc' = [pc EXCEPT ![p] = "fetch"]
    BY <1>1 DEF Start, StartCron, StartBackfill, StartManual, Begin, Goto
  <2>2. \/ p = "manual" /\ UNCHANGED syncing
        \/ p # "manual" /\ ~syncing /\ syncing'
    BY <1>1 DEF Start, StartCron, StartBackfill, StartManual, Enter, lock
  <2> QED
    BY <1>0, <2>1, <2>2
<1>2. ASSUME NEW p \in Callers, Fetch(p) \/ Upsert(p) \/ Detect(p) \/ Verify(p)
      PROVE  SyncExclusive'
  <2>1. PICK l \in PCs \ {"idle"} : pc' = [pc EXCEPT ![p] = l]
    BY <1>2, WorkStep
  <2>2. Lockers' = Lockers /\ syncing' = syncing
    BY <1>0, <1>2, <2>1, WorkStep DEF lock
  <2> QED
    BY <2>2
<1>3. ASSUME NEW p \in Callers, Finish(p) PROVE SyncExclusive'
  <2>1. /\ pc[p] = "finish" /\ pc' = [pc EXCEPT ![p] = "idle"]
        /\ IF p = "manual" THEN syncing' = syncing ELSE syncing' = FALSE
    BY <1>3 DEF Finish, Goto, lock
  <2> QED
    BY <1>0, <2>1
<1>4. ASSUME Crash PROVE SyncExclusive'
  BY <1>4 DEF Crash
<1>5. ASSUME BankStep PROVE SyncExclusive'
  BY <1>5 DEF BankStep, Post, Redate, Reamount, Restate, Withdraw, Book, lock
<1>6. CASE UNCHANGED vars
  BY <1>6 DEF vars
<1> QED
  BY <1>1, <1>2, <1>3, <1>4, <1>5, <1>6 DEF Next, Work

\* Whatever the cron, a back-fill and the operator do, however passes end or
\* the server crashes, two syncAccount runs of one account never overlap and
\* the account is in syncingAccounts exactly while one runs.
THEOREM LockCorrect == Spec => []SyncExclusive
BY TypeInit, TypeStep, LockInit, LockStep, PTL DEF Spec

-----------------------------------------------------------------------------
(* What one step does to the Transaction rows *)

Inserted(p) ==
  /\ pc[p] = "create" /\ nextId' = nextId + 1
  /\ pc' = [pc EXCEPT ![p] = "fetch"]
  /\ \E row \in Tx : /\ row.id = nextId /\ row.ext = CompositeId(hit[p])
                     /\ row.b2 = IF hit[p].doc \in B2Docs THEN hit[p].doc ELSE NoDoc
                     /\ txs' = txs \cup {row}
Removed(p) == /\ pc[p] = "deleteTx" /\ nextId' = nextId
              /\ txs' = {u \in txs : u.id # cur[p].id}
Amending(p) ==
  /\ pc[p] = "editTx" /\ nextId' = nextId
  /\ txs' = {IF u.id = cur[p].id
             THEN [u EXCEPT !.amt = hit[p].amt, !.st = StatusOf(hit[p])]
             ELSE u : u \in txs}
Restating ==
  /\ nextId' = nextId
  /\ \E i, s : txs' = {IF u.id = i THEN [u EXCEPT !.st = s] ELSE u : u \in txs}
Moving ==
  /\ nextId' = nextId
  /\ \E i, d : txs' = {IF u.id = i THEN [u EXCEPT !.day = d] ELSE u : u \in txs}
Shifting(p) ==
  /\ pc[p] = "shift" /\ nextId' = nextId
  /\ txs' = {IF u.id = cur[p].id
             THEN [u EXCEPT !.ext = CompositeId(hit[p]), !.day = hit[p].day,
                     !.b2 = IF hit[p].doc \in B2Docs THEN hit[p].doc ELSE @]
             ELSE u : u \in txs}

LEMMA RowsStep ==
  ASSUME TypeInv, [Next]_vars
  PROVE  \/ UNCHANGED <<txs, nextId>>
         \/ Restating \/ Moving
         \/ \E p \in Callers : Inserted(p) \/ Removed(p) \/ Amending(p) \/ Shifting(p)
<1> USE DEF db
<1>1. CASE UNCHANGED vars
  BY <1>1 DEF vars
<1>2. CASE Crash
  BY <1>2 DEF Crash
<1>3. CASE BankStep
  BY <1>3 DEF BankStep, Post, Redate, Reamount, Restate, Withdraw, Book
<1>4. ASSUME NEW p \in Callers, Start(p) \/ Finish(p)
      PROVE  UNCHANGED <<txs, nextId>>
  BY <1>4, PassEnds
<1>5. ASSUME NEW p \in Callers, Fetch(p) PROVE UNCHANGED <<txs, nextId>>
  BY <1>5 DEF Fetch, FetchDay, FetchEmpty, FetchError
<1>6. ASSUME NEW p \in Callers, Upsert(p)
      PROVE  UNCHANGED <<txs, nextId>> \/ Inserted(p) \/ Shifting(p)
  <2>1. ASSUME UpsertCreate(p) PROVE UNCHANGED <<txs, nextId>> \/ Inserted(p)
    <3> DEFINE it == hit[p]
               row == [id |-> nextId, ext |-> CompositeId(it),
                       b2 |-> IF it.doc \in B2Docs THEN it.doc ELSE NoDoc,
                       day |-> it.day, amt |-> it.amt, st |-> StatusOf(it)]
    <3>1. it \in Item /\ pc[p] = "create"
      BY <2>1 DEF UpsertCreate, TypeInv, HandOK, NeedsItem
    <3>2. row \in Tx
      BY <3>1, ItemTypes DEF Tx, TypeInv, TypeOK
    <3>3. /\ pc' = [pc EXCEPT ![p] = "fetch"]
          /\ \/ UNCHANGED <<txs, nextId>>
             \/ txs' = txs \cup {row} /\ nextId' = nextId + 1
      BY <2>1 DEF UpsertCreate, Goto
    <3> QED
      BY <3>1, <3>2, <3>3 DEF Inserted
  <2>2. ASSUME UpsertShift(p) PROVE UNCHANGED <<txs, nextId>> \/ Shifting(p)
    BY <2>2 DEF UpsertShift, Shifting
  <2> QED
    BY <1>6, <2>1, <2>2 DEF Upsert, UpsertLookup, UpsertRelink, UpsertAudit
<1>7. ASSUME NEW p \in Callers, Detect(p)
      PROVE  UNCHANGED <<txs, nextId>> \/ Restating \/ Amending(p)
  <2>1. ASSUME Compare(p) PROVE UNCHANGED <<txs, nextId>> \/ Restating
    <3>1. /\ nextId' = nextId
          /\ \/ txs' = txs
             \/ \E t \in check[p].rows :
                  LET it == Lookup(scan[p].items, t)
                  IN txs' = {IF u.id = t.id THEN [u EXCEPT !.st = StatusOf(it)]
                             ELSE u : u \in txs}
      BY <2>1 DEF Compare
    <3> QED
      BY <3>1 DEF Restating
  <2>2. ASSUME EditTx(p) PROVE Amending(p)
    BY <2>2 DEF EditTx, Amending
  <2> QED
    BY <1>7, <2>1, <2>2 DEF Detect, DetectRead, EditLog, EditKv, Triage
<1>8. ASSUME NEW p \in Callers, Verify(p)
      PROVE  UNCHANGED <<txs, nextId>> \/ Moving \/ Removed(p)
  <2>1. ASSUME MoveTx(p) PROVE Moving
    BY <2>1 DEF MoveTx, Moving
  <2>2. ASSUME DeleteTx(p) PROVE Removed(p)
    BY <2>2 DEF DeleteTx, Removed
  <2> QED
    BY <1>8, <2>1, <2>2
    DEF Verify, VerifyDay, Resolve, VerifyDone, MoveLog, MoveKv, DeleteLog, DeleteKv
<1> QED
  BY <1>1, <1>2, <1>3, <1>4, <1>5, <1>6, <1>7, <1>8 DEF Next, Work

-----------------------------------------------------------------------------
(* Identity: ids are never shared or reused *)

IdInv == /\ \A t, u \in txs : t.id = u.id => t = u
         /\ \A t \in txs : t.id < nextId

LEMMA IdInit == Init => IdInv
<1> SUFFICES ASSUME Init PROVE IdInv
  OBVIOUS
<1>1. Cardinality(InitTxs) \in Nat
  BY MirrorAssumption, FS_CardinalityType
<1> QED
  BY <1>1, MirrorAssumption DEF Init, IdInv, Tx

\* Every row of the next state is a row of this one with its id, or new.
LEMMA RowOrigin ==
  ASSUME TypeInv, [Next]_vars
  PROVE  /\ nextId \in Nat /\ nextId' \in {nextId, nextId + 1}
         /\ \A v \in txs' : \/ \E t \in txs : t.id = v.id
                            \/ v.id = nextId /\ nextId' = nextId + 1
<1>0. txs \subseteq Tx /\ nextId \in Nat
  BY DEF TypeInv, TypeOK
<1>1. CASE UNCHANGED <<txs, nextId>>
  BY <1>0, <1>1
<1>2. CASE Restating
  BY <1>0, <1>2 DEF Restating, Tx
<1>3. CASE Moving
  BY <1>0, <1>3 DEF Moving, Tx
<1>4. ASSUME NEW p \in Callers, Inserted(p)
      PROVE  /\ nextId' = nextId + 1
             /\ \A v \in txs' : (\E t \in txs : t.id = v.id) \/ v.id = nextId
  BY <1>4 DEF Inserted
<1>5. ASSUME NEW p \in Callers, Removed(p) \/ Amending(p) \/ Shifting(p)
      PROVE  nextId' = nextId /\ \A v \in txs' : \E t \in txs : t.id = v.id
  BY <1>0, <1>5 DEF Removed, Amending, Shifting, Tx
<1> QED
  BY <1>0, <1>1, <1>2, <1>3, <1>4, <1>5, RowsStep

LEMMA IdStep == TypeInv /\ IdInv /\ [Next]_vars => IdInv'
<1> SUFFICES ASSUME TypeInv, IdInv, [Next]_vars PROVE IdInv'
  OBVIOUS
<1>0. txs \subseteq Tx /\ nextId \in Nat
  BY DEF TypeInv, TypeOK
<1>1. \A v \in txs' : v.id < nextId'
  BY <1>0, RowOrigin DEF IdInv, Tx
<1>2. \A v, w \in txs' : v.id = w.id => v = w
  <2>1. CASE UNCHANGED <<txs, nextId>>
    BY <2>1 DEF IdInv
  <2>2. CASE Restating
    BY <1>0, <2>2 DEF IdInv, Restating, Tx
  <2>3. CASE Moving
    BY <1>0, <2>3 DEF IdInv, Moving, Tx
  <2>4. ASSUME NEW p \in Callers, Inserted(p)
        PROVE  \A v, w \in txs' : v.id = w.id => v = w
    BY <1>0, <2>4 DEF IdInv, Inserted, Tx
  <2>5. ASSUME NEW p \in Callers, Removed(p)
        PROVE  \A v, w \in txs' : v.id = w.id => v = w
    BY <2>5 DEF IdInv, Removed
  <2>6. ASSUME NEW p \in Callers, Amending(p)
        PROVE  \A v, w \in txs' : v.id = w.id => v = w
    <3> DEFINE row(u) == [u EXCEPT !.amt = hit[p].amt, !.st = StatusOf(hit[p])]
    <3>1. \A u \in txs : row(u).id = u.id
      BY <1>0 DEF Tx
    <3>2. txs' = {IF u.id = cur[p].id THEN row(u) ELSE u : u \in txs}
      BY <2>6 DEF Amending
    <3> HIDE DEF row
    <3> QED
      BY <3>1, <3>2 DEF IdInv
  <2>7. ASSUME NEW p \in Callers, Shifting(p)
        PROVE  \A v, w \in txs' : v.id = w.id => v = w
    <3> DEFINE row(u) ==
          [u EXCEPT !.ext = CompositeId(hit[p]), !.day = hit[p].day,
                    !.b2 = IF hit[p].doc \in B2Docs THEN hit[p].doc ELSE @]
    <3>1. \A u \in txs : row(u).id = u.id
      BY <1>0 DEF Tx
    <3>2. txs' = {IF u.id = cur[p].id THEN row(u) ELSE u : u \in txs}
      BY <2>7 DEF Shifting
    <3> HIDE DEF row
    <3> QED
      BY <3>1, <3>2 DEF IdInv
  <2> QED
    BY <2>1, <2>2, <2>3, <2>4, <2>5, <2>6, <2>7, RowsStep
<1> QED
  BY <1>1, <1>2 DEF IdInv

-----------------------------------------------------------------------------
(* The audit entry comes before the row is touched *)

Deleted(i) == \E l \in log : l.type = "DELETED" /\ l.id = i
Edited(i, a) == \E l \in log : l.type = "EDITED" /\ l.id = i /\ l.amt = a
LoggedInv ==
  \A p \in Callers :
    /\ pc[p] \in {"deleteKv", "deleteTx"} => Deleted(cur[p].id)
    /\ pc[p] = "editTx" => Edited(cur[p].id, hit[p].amt)

LEMMA LogGrows == ASSUME [Next]_vars PROVE log \subseteq log'
<1> USE DEF db
<1>1. ASSUME NEW p \in Callers, Start(p) PROVE log \subseteq log'
  BY <1>1 DEF Start, StartCron, StartBackfill, StartManual, Begin
<1>2. ASSUME NEW p \in Callers, Fetch(p) \/ Upsert(p) PROVE log \subseteq log'
  BY <1>2 DEF Fetch, FetchDay, FetchEmpty, FetchError, Upsert, UpsertLookup,
              UpsertCreate, UpsertShift, UpsertRelink, UpsertAudit
<1>3. ASSUME NEW p \in Callers, Detect(p) PROVE log \subseteq log'
  BY <1>3 DEF Detect, DetectRead, Compare, EditLog, EditTx, EditKv, Triage
<1>4. ASSUME NEW p \in Callers, Verify(p) \/ Finish(p) PROVE log \subseteq log'
  BY <1>4 DEF Verify, VerifyDay, Resolve, VerifyDone, MoveLog, MoveTx, MoveKv,
              DeleteLog, DeleteKv, DeleteTx, Finish
<1>5. CASE Crash \/ BankStep \/ UNCHANGED vars
  BY <1>5 DEF Crash, BankStep, Post, Redate, Reamount, Restate, Withdraw, Book, vars
<1> QED
  BY <1>1, <1>2, <1>3, <1>4, <1>5 DEF Next, Work

\* A caller comes to a write only from the step that logs it.
LEMMA WriteAfterLog ==
  ASSUME TypeInv, NEW p \in Callers, Start(p) \/ Work(p)
  PROVE  /\ pc'[p] = "editTx" => EditLog(p)
         /\ pc'[p] = "deleteKv" => DeleteLog(p)
         /\ pc'[p] = "deleteTx" => DeleteKv(p)
<1> DEFINE Target == pc'[p] \in {"editTx", "deleteKv", "deleteTx"}
<1> USE DEF Goto, db, hand
<1>0. pc \in [Callers -> PCs]
  BY DEF TypeInv, TypeOK
<1>1. CASE Start(p) \/ Finish(p)
  <2>1. ~Target
    BY <1>0, <1>1, PassEnds
  <2> QED
    BY <2>1
<1>2. CASE Fetch(p) \/ Upsert(p)
  <2>1. ~Target
    <3>1. CASE Fetch(p) \/ UpsertLookup(p)
      BY <1>0, <3>1
      DEF Fetch, FetchDay, FetchEmpty, FetchError, Fetching, UpsertLookup
    <3>2. CASE UpsertCreate(p) \/ UpsertAudit(p)
      BY <1>0, <3>2 DEF UpsertCreate, UpsertAudit
    <3>3. CASE UpsertShift(p)
      <4>1. \E l \in {"relink", "audit", "fetch"} : pc' = [pc EXCEPT ![p] = l]
        BY <3>3 DEF UpsertShift
      <4> QED
        BY <1>0, <4>1
    <3>4. CASE UpsertRelink(p)
      <4>1. \E l \in {"audit", "fetch"} : pc' = [pc EXCEPT ![p] = l]
        BY <3>4 DEF UpsertRelink
      <4> QED
        BY <1>0, <4>1
    <3> QED
      BY <1>2, <3>1, <3>2, <3>3, <3>4 DEF Upsert
  <2> QED
    BY <2>1
<1>3. CASE Detect(p)
  <2>1. CASE DetectRead(p) \/ EditKv(p) \/ Triage(p)
    BY <1>0, <2>1 DEF DetectRead, EditKv, Triage
  <2>2. CASE Compare(p)
    BY <1>0, <2>2 DEF Compare
  <2>3. CASE EditLog(p)
    BY <1>0, <2>3 DEF EditLog
  <2>4. CASE EditTx(p)
    <3>1. \E l \in {"editKv", "detect"} : pc' = [pc EXCEPT ![p] = l]
      BY <2>4 DEF EditTx
    <3> QED
      BY <1>0, <3>1
  <2> QED
    BY <1>3, <2>1, <2>2, <2>3, <2>4 DEF Detect
<1>4. CASE Verify(p)
  <2>1. CASE VerifyDay(p) \/ Resolve(p) \/ VerifyDone(p) \/ MoveLog(p)
    BY <1>0, <2>1 DEF VerifyDay, Resolve, VerifyDone, MoveLog
  <2>2. CASE MoveTx(p)
    <3>1. \E l \in {"moveKv", "verify"} : pc' = [pc EXCEPT ![p] = l]
      BY <2>2 DEF MoveTx
    <3> QED
      BY <1>0, <3>1
  <2>3. CASE MoveKv(p) \/ DeleteTx(p)
    BY <1>0, <2>3 DEF MoveKv, DeleteTx
  <2>4. CASE DeleteLog(p) \/ DeleteKv(p)
    BY <1>0, <2>4 DEF DeleteLog, DeleteKv
  <2> QED
    BY <1>4, <2>1, <2>2, <2>3, <2>4 DEF Verify
<1> QED
  BY <1>1, <1>2, <1>3, <1>4 DEF Work

\* A step leaves the other callers where they are, or stops them all.
LEMMA OthersWait ==
  ASSUME TypeInv, [Next]_vars, NEW q \in Callers
  PROVE  \/ pc'[q] = "idle"
         \/ Start(q) \/ Work(q)
         \/ pc'[q] = pc[q] /\ cur'[q] = cur[q] /\ hit'[q] = hit[q]
<1>0. /\ pc \in [Callers -> PCs] /\ DOMAIN cur = Callers /\ DOMAIN hit = Callers
      /\ cur = [c \in Callers |-> cur[c]] /\ hit = [c \in Callers |-> hit[c]]
  BY DEF TypeInv, TypeOK
<1>1. ASSUME NEW p \in Callers, p # q, Start(p) \/ Finish(p)
      PROVE  pc'[q] = pc[q] /\ cur'[q] = cur[q] /\ hit'[q] = hit[q]
  BY <1>0, <1>1, PassEnds DEF hand
<1>2. ASSUME NEW p \in Callers, p # q,
             Fetch(p) \/ Upsert(p) \/ Detect(p) \/ Verify(p)
      PROVE  pc'[q] = pc[q] /\ cur'[q] = cur[q] /\ hit'[q] = hit[q]
  <2>1. /\ \E l \in PCs : pc' = [pc EXCEPT ![p] = l]
        /\ \E t, it : Take(p, t, it)
    BY <1>2, WorkStep
  <2> QED
    BY <1>0, <1>2, <2>1 DEF Take
<1>3. CASE Crash
  BY <1>3 DEF Crash
<1>4. CASE BankStep \/ UNCHANGED vars
  BY <1>4 DEF BankStep, Post, Redate, Reamount, Restate, Withdraw, Book, hand, vars
<1> QED
  BY <1>1, <1>2, <1>3, <1>4 DEF Next, Work

LEMMA LoggedInit == Init => LoggedInv
BY DEF Init, LoggedInv

LEMMA LoggedStep == TypeInv /\ LoggedInv /\ [Next]_vars => LoggedInv'
<1> SUFFICES ASSUME TypeInv, LoggedInv, [Next]_vars, NEW q \in Callers
             PROVE  /\ pc'[q] \in {"deleteKv", "deleteTx"} => Deleted(cur[q].id)'
                    /\ pc'[q] = "editTx" => Edited(cur[q].id, hit[q].amt)'
  BY DEF LoggedInv
<1>0. log \subseteq log'
  BY LogGrows
<1>1. CASE pc'[q] = pc[q] /\ cur'[q] = cur[q] /\ hit'[q] = hit[q]
  BY <1>0, <1>1 DEF LoggedInv, Deleted, Edited
<1>2. CASE pc'[q] = "idle"
  BY <1>2
<1>3. CASE Start(q) \/ Work(q)
  <2>1. CASE EditLog(q)
    <3>1. /\ pc'[q] = "editTx" /\ cur' = cur /\ hit' = hit
          /\ LogOf("EDITED", cur[q], cur[q].day, hit[q].amt) \in log'
      BY <2>1 DEF EditLog, Goto, hand, TypeInv, TypeOK
    <3> QED
      BY <3>1 DEF Edited, LogOf
  <2>2. CASE DeleteLog(q)
    <3>1. /\ pc'[q] = "deleteKv" /\ cur' = cur
          /\ LogOf("DELETED", cur[q], cur[q].day, cur[q].amt) \in log'
      BY <2>2 DEF DeleteLog, Goto, hand, TypeInv, TypeOK
    <3> QED
      BY <3>1 DEF Deleted, LogOf
  <2>3. CASE DeleteKv(q)
    <3>1. pc[q] = "deleteKv" /\ pc'[q] = "deleteTx" /\ cur' = cur /\ log' = log
      BY <2>3 DEF DeleteKv, Goto, hand, TypeInv, TypeOK
    <3> QED
      BY <3>1 DEF LoggedInv, Deleted
  <2> QED
    BY <1>3, <2>1, <2>2, <2>3, WriteAfterLog
<1> QED
  BY <1>1, <1>2, <1>3, OthersWait

\* Rewriting rows in place loses none.
LEMMA RowSurvives ==
  ASSUME TypeInv, NEW t \in txs,
         \/ Restating \/ Moving
         \/ \E p \in Callers : Amending(p) \/ Shifting(p)
  PROVE  \E u \in txs' : u.id = t.id
<1>0. t \in Tx
  BY DEF TypeInv, TypeOK
<1>1. CASE Restating
  <2>1. PICK i, s : txs' = {IF u.id = i THEN [u EXCEPT !.st = s] ELSE u : u \in txs}
    BY <1>1 DEF Restating
  <2>2. (IF t.id = i THEN [t EXCEPT !.st = s] ELSE t) \in txs'
    BY <2>1
  <2> QED
    BY <1>0, <2>2 DEF Tx
<1>2. CASE Moving
  <2>1. PICK i, d : txs' = {IF u.id = i THEN [u EXCEPT !.day = d] ELSE u : u \in txs}
    BY <1>2 DEF Moving
  <2>2. (IF t.id = i THEN [t EXCEPT !.day = d] ELSE t) \in txs'
    BY <2>1
  <2> QED
    BY <1>0, <2>2 DEF Tx
<1>3. ASSUME NEW p \in Callers, Amending(p) PROVE \E u \in txs' : u.id = t.id
  <2> DEFINE row(u) == [u EXCEPT !.amt = hit[p].amt, !.st = StatusOf(hit[p])]
  <2>1. (IF t.id = cur[p].id THEN row(t) ELSE t) \in txs'
    BY <1>3 DEF Amending
  <2> QED
    BY <1>0, <2>1 DEF Tx
<1>4. ASSUME NEW p \in Callers, Shifting(p) PROVE \E u \in txs' : u.id = t.id
  <2> DEFINE row(u) ==
        [u EXCEPT !.ext = CompositeId(hit[p]), !.day = hit[p].day,
                  !.b2 = IF hit[p].doc \in B2Docs THEN hit[p].doc ELSE @]
  <2>1. (IF t.id = cur[p].id THEN row(t) ELSE t) \in txs'
    BY <1>4 DEF Shifting
  <2>2. row(t).id = t.id
    BY <1>0 DEF Tx
  <2> HIDE DEF row
  <2> QED
    BY <2>1, <2>2
<1> QED
  BY <1>1, <1>2, <1>3, <1>4

LEMMA AuditInvariant == Spec => [](TypeInv /\ IdInv /\ LoggedInv)
BY TypeInit, TypeStep, IdInit, IdStep, LoggedInit, LoggedStep, PTL DEF Spec

\* No crash, race or bank edit makes a Transaction row vanish without the
\* DELETED entry restoreDeletedLog would bring it back from.
THEOREM LossIsRecorded == Spec => RowLossRecorded
<1> DEFINE Step == \A t \in txs : (\A u \in txs' : u.id # t.id) =>
                     \E l \in log : l.type = "DELETED" /\ l.id = t.id
<1>1. ASSUME TypeInv, LoggedInv, [Next]_vars PROVE Step
  <2> USE <1>1
  <2>0. txs \subseteq Tx
    BY DEF TypeInv, TypeOK
  <2>1. CASE UNCHANGED <<txs, nextId>>
    BY <2>1
  <2>2. CASE Restating \/ Moving
    BY <2>2, RowSurvives
  <2>3. ASSUME NEW p \in Callers, Inserted(p) PROVE Step
    BY <2>3 DEF Inserted
  <2>4. ASSUME NEW p \in Callers, Amending(p) \/ Shifting(p) PROVE Step
    BY <2>4, RowSurvives
  <2>5. ASSUME NEW p \in Callers, Removed(p) PROVE Step
    BY <2>5 DEF Removed, LoggedInv, Deleted
  <2> QED
    BY <2>1, <2>2, <2>3, <2>4, <2>5, RowsStep
<1>2. TypeInv /\ IdInv /\ LoggedInv /\ [Next]_vars => [Step]_vars
  BY <1>1
<1> QED
  BY <1>2, AuditInvariant, PTL DEF Spec, RowLossRecorded

\* The amount of a mirrored payment never changes unannounced, even when the
\* operator's check and the cron amend the same row at the same time.
THEOREM AmendmentIsRecorded == Spec => AmendmentRecorded
<1> DEFINE Step == \A t \in txs, u \in txs' : t.id = u.id /\ t.amt # u.amt =>
                     \E l \in log : l.type = "EDITED" /\ l.id = t.id /\ l.amt = u.amt
<1>1. ASSUME TypeInv, IdInv, LoggedInv, [Next]_vars PROVE Step
  <2> USE <1>1
  <2>0. txs \subseteq Tx
    BY DEF TypeInv, TypeOK
  <2>1. CASE UNCHANGED <<txs, nextId>>
    BY <2>1 DEF IdInv
  <2>2. CASE Restating
    BY <2>0, <2>2 DEF Restating, IdInv, Tx
  <2>3. CASE Moving
    BY <2>0, <2>3 DEF Moving, IdInv, Tx
  <2>4. ASSUME NEW p \in Callers, Inserted(p) PROVE Step
    <3>1. \A t \in txs : t.id # nextId
      BY <2>0 DEF IdInv, Tx, TypeInv, TypeOK
    <3> QED
      BY <2>4, <3>1 DEF Inserted, IdInv
  <2>5. ASSUME NEW p \in Callers, Removed(p) PROVE Step
    BY <2>5 DEF Removed, IdInv
  <2>6. ASSUME NEW p \in Callers, Shifting(p) PROVE Step
    <3> DEFINE row(u) ==
          [u EXCEPT !.ext = CompositeId(hit[p]), !.day = hit[p].day,
                    !.b2 = IF hit[p].doc \in B2Docs THEN hit[p].doc ELSE @]
    <3>1. \A u \in txs : row(u).id = u.id /\ row(u).amt = u.amt
      BY <2>0 DEF Tx
    <3>2. txs' = {IF u.id = cur[p].id THEN row(u) ELSE u : u \in txs}
      BY <2>6 DEF Shifting
    <3> HIDE DEF row
    <3> QED
      BY <3>1, <3>2 DEF IdInv
  <2>7. ASSUME NEW p \in Callers, Amending(p) PROVE Step
    <3> DEFINE row(u) == [u EXCEPT !.amt = hit[p].amt, !.st = StatusOf(hit[p])]
    <3>1. \A u \in txs : row(u).id = u.id /\ row(u).amt = hit[p].amt
      BY <2>0 DEF Tx
    <3>2. txs' = {IF u.id = cur[p].id THEN row(u) ELSE u : u \in txs}
      BY <2>7 DEF Amending
    <3>3. Edited(cur[p].id, hit[p].amt)
      BY <2>7 DEF Amending, LoggedInv
    <3> HIDE DEF row
    <3> QED
      BY <3>1, <3>2, <3>3 DEF IdInv, Edited
  <2> QED
    BY <2>1, <2>2, <2>3, <2>4, <2>5, <2>6, <2>7, RowsStep
<1>2. TypeInv /\ IdInv /\ LoggedInv /\ [Next]_vars => [Step]_vars
  BY <1>1
<1> QED
  BY <1>2, AuditInvariant, PTL DEF Spec, AmendmentRecorded

-----------------------------------------------------------------------------
(* When no two documents share a general_id that upsertOne searches for, it *)
(* never mirrors a document with a b2_id twice: the theorem behind the runs *)
(* quiet and race.                                                          *)

\* What the bank has to supply for the findFirst of upsertOne to return no row
\* of another document.
OwnIds == Prefixed => \A d, e \in Docs : Gen[d] = Gen[e] => d = e
B2Of(d) == IF d \in B2Docs THEN d ELSE NoDoc
CleanMirror == /\ \A t \in InitTxs : t.b2 = B2Of(t.ext.doc)
               /\ \A t, u \in InitTxs :
                    t.ext.doc = u.ext.doc /\ t.ext.doc \in B2Docs => t = u

\* The lookup's verdict stays true while the caller holds it.
HandFresh ==
  \A p \in Callers :
    /\ pc[p] = "create" =>
         p # "manual" /\ \A t \in txs : t.ext.doc # hit[p].doc \/ hit[p].doc \notin B2Docs
    /\ pc[p] = "shift" =>
         p # "manual" /\ \A t \in txs : t.id = cur[p].id => t.ext.doc = hit[p].doc
ManualReads == \A p \in Callers : p = "manual" => scan[p].queue = {}
OneInv == /\ \A t \in txs : t.b2 = B2Of(t.ext.doc)
          /\ OneRowPerDocument /\ HandFresh /\ ManualReads
Facts == TypeInv /\ IdInv /\ SyncExclusive /\ OneInv

LEMMA OneInit == ASSUME CleanMirror PROVE Init => OneInv
BY DEF Init, OneInv, OneRowPerDocument, HandFresh, ManualReads, CleanMirror, EmptyScan

-----------------------------------------------------------------------------
\* manualCheckChanges never upserts.
LEMMA ManualStep ==
  ASSUME TypeInv, ManualReads, [Next]_vars PROVE ManualReads'
<1> USE DEF ManualReads, TypeInv, TypeOK, hand, db
<1>1. ASSUME NEW p \in Callers, Start(p) PROVE ManualReads'
  <2>1. PICK dates : scan' = [scan EXCEPT ![p] = [EmptyScan EXCEPT !.todo = dates]]
    BY <1>1 DEF Start, StartCron, StartBackfill, StartManual, Begin
  <2>2. [EmptyScan EXCEPT !.todo = dates].queue = {}
    BY DEF EmptyScan
  <2> QED
    BY <2>1, <2>2
<1>2. ASSUME NEW p \in Callers, Fetch(p) PROVE ManualReads'
  <2>1. ASSUME NEW lines, Answer(p, lines) PROVE ManualReads'
    <3> DEFINE s == [scan[p] EXCEPT !.todo = Tail(@),
                       !.items = Indexed(@, lines),
                       !.days = IF lines = {} THEN @ ELSE @ \cup {Head(scan[p].todo)},
                       !.queue = IF p = "manual" THEN {}
                                 ELSE {ledger[x] : x \in lines}]
    <3>1. scan' = [scan EXCEPT ![p] = s]
      BY <2>1, Zenon DEF Answer
    <3>2. p = "manual" => s.queue = {}
      BY DEF Scans
    <3> HIDE DEF s
    <3> QED
      BY <3>1, <3>2
  <2>2. ASSUME FetchError(p) PROVE ManualReads'
    <3>1. scan' = [scan EXCEPT ![p] = [scan[p] EXCEPT !.todo = Tail(@), !.errors = TRUE]]
      BY <2>2 DEF FetchError
    <3>2. [scan[p] EXCEPT !.todo = Tail(@), !.errors = TRUE].queue = scan[p].queue
      BY DEF Scans
    <3> QED
      BY <3>1, <3>2
  <2> QED
    BY <1>2, <2>1, <2>2 DEF Fetch, FetchDay, FetchEmpty
<1>3. ASSUME NEW p \in Callers, Upsert(p) PROVE ManualReads'
  <2>1. CASE UpsertLookup(p)
    <3>1. PICK it \in scan[p].queue : scan' = [scan EXCEPT ![p].queue = @ \ {it}]
      BY <2>1 DEF UpsertLookup
    <3>2. p # "manual"
      BY <3>1
    <3> QED
      BY <3>1, <3>2
  <2> QED
    BY <1>3, <2>1 DEF Upsert, UpsertCreate, UpsertShift, UpsertRelink, UpsertAudit
<1>4. ASSUME NEW p \in Callers, Detect(p) \/ Verify(p) PROVE ManualReads'
  BY <1>4 DEF Detect, DetectRead, Compare, EditLog, EditTx, EditKv, Triage, Verify,
              VerifyDay, Resolve, VerifyDone, MoveLog, MoveTx, MoveKv, DeleteLog,
              DeleteKv, DeleteTx
<1>5. ASSUME NEW p \in Callers, Finish(p) PROVE ManualReads'
  BY <1>5 DEF Finish, EmptyScan
<1>6. CASE Crash
  BY <1>6 DEF Crash, EmptyScan
<1>7. CASE BankStep \/ UNCHANGED vars
  BY <1>7 DEF BankStep, Post, Redate, Reamount, Restate, Withdraw, Book, vars
<1> QED
  BY <1>1, <1>2, <1>3, <1>4, <1>5, <1>6, <1>7 DEF Next, Work

\* A caller comes to a create or a shift only from the findFirst.
LEMMA FromLookup ==
  ASSUME TypeInv, NEW p \in Callers, Start(p) \/ Work(p),
         pc'[p] \in {"create", "shift"}
  PROVE  UpsertLookup(p)
<1> USE DEF Goto, db, hand
<1>0. pc \in [Callers -> PCs]
  BY DEF TypeInv, TypeOK
<1>1. CASE Start(p) \/ Finish(p)
  BY <1>0, <1>1, PassEnds
<1>2. CASE Fetch(p)
  BY <1>0, <1>2 DEF Fetch, FetchDay, FetchEmpty, FetchError, Fetching
<1>3. CASE UpsertCreate(p) \/ UpsertAudit(p)
  BY <1>0, <1>3 DEF UpsertCreate, UpsertAudit
<1>4. CASE UpsertShift(p)
  <2>1. \E l \in {"relink", "audit", "fetch"} : pc' = [pc EXCEPT ![p] = l]
    BY <1>4 DEF UpsertShift
  <2> QED
    BY <1>0, <2>1
<1>5. CASE UpsertRelink(p)
  <2>1. \E l \in {"audit", "fetch"} : pc' = [pc EXCEPT ![p] = l]
    BY <1>5 DEF UpsertRelink
  <2> QED
    BY <1>0, <2>1
<1>6. CASE Detect(p)
  <2>1. \E l \in PCs \ {"create", "shift"} : pc'[p] = l
    <3>1. CASE DetectRead(p) \/ EditLog(p) \/ EditKv(p) \/ Triage(p)
      BY <1>0, <3>1 DEF DetectRead, EditLog, EditKv, Triage, PCs
    <3>2. CASE Compare(p)
      BY <1>0, <3>2 DEF Compare, PCs
    <3>3. CASE EditTx(p)
      <4>1. \E l \in {"editKv", "detect"} : pc' = [pc EXCEPT ![p] = l]
        BY <3>3 DEF EditTx
      <4> QED
        BY <1>0, <4>1 DEF PCs
    <3> QED
      BY <1>6, <3>1, <3>2, <3>3 DEF Detect
  <2> QED
    BY <2>1
<1>7. CASE Verify(p)
  <2>1. \E l \in PCs \ {"create", "shift"} : pc'[p] = l
    <3>1. CASE VerifyDay(p) \/ Resolve(p) \/ VerifyDone(p) \/ MoveLog(p)
      BY <1>0, <3>1 DEF VerifyDay, Resolve, VerifyDone, MoveLog, PCs
    <3>2. CASE MoveTx(p)
      <4>1. \E l \in {"moveKv", "verify"} : pc' = [pc EXCEPT ![p] = l]
        BY <3>2 DEF MoveTx
      <4> QED
        BY <1>0, <4>1 DEF PCs
    <3>3. CASE MoveKv(p) \/ DeleteLog(p) \/ DeleteKv(p) \/ DeleteTx(p)
      BY <1>0, <3>3 DEF MoveKv, DeleteLog, DeleteKv, DeleteTx, PCs
    <3> QED
      BY <1>7, <3>1, <3>2, <3>3 DEF Verify
  <2> QED
    BY <2>1
<1> QED
  BY <1>1, <1>2, <1>3, <1>4, <1>5, <1>6, <1>7 DEF Work, Upsert

-----------------------------------------------------------------------------
\* No step gives a row another document, and a new row is the first of its own.
LEMMA DocKept ==
  ASSUME OwnIds, TypeInv, OneInv, [Next]_vars
  PROVE  \A v \in txs' :
           /\ v.b2 = B2Of(v.ext.doc)
           /\ \/ \E t \in txs : t.id = v.id /\ t.ext.doc = v.ext.doc
              \/ /\ \A t \in txs : t.ext.doc # v.ext.doc \/ v.ext.doc \notin B2Docs
                 /\ \E p \in Callers : /\ Inserted(p) /\ v.id = nextId
                                       /\ v.ext.doc = hit[p].doc
<1> DEFINE Kept(v) == /\ v.b2 = B2Of(v.ext.doc)
                      /\ \E t \in txs : t.id = v.id /\ t.ext.doc = v.ext.doc
<1>0. txs \subseteq Tx /\ \A t \in txs : t.b2 = B2Of(t.ext.doc)
  BY DEF TypeInv, TypeOK, OneInv
<1>1. CASE UNCHANGED <<txs, nextId>>
  BY <1>0, <1>1
<1>2. CASE Restating
  <2>1. \A v \in txs' : Kept(v)
    BY <1>0, <1>2 DEF Restating, Tx
  <2> QED
    BY <2>1
<1>3. CASE Moving
  <2>1. \A v \in txs' : Kept(v)
    BY <1>0, <1>3 DEF Moving, Tx
  <2> QED
    BY <2>1
<1>4. ASSUME NEW p \in Callers, Removed(p) PROVE \A v \in txs' : Kept(v)
  BY <1>0, <1>4 DEF Removed
<1>5. ASSUME NEW p \in Callers, Amending(p) PROVE \A v \in txs' : Kept(v)
  <2> DEFINE row(u) == [u EXCEPT !.amt = hit[p].amt, !.st = StatusOf(hit[p])]
  <2>1. \A u \in txs : /\ row(u).id = u.id /\ row(u).ext = u.ext /\ row(u).b2 = u.b2
    BY <1>0 DEF Tx
  <2>2. txs' = {IF u.id = cur[p].id THEN row(u) ELSE u : u \in txs}
    BY <1>5 DEF Amending
  <2> HIDE DEF row
  <2> QED
    BY <1>0, <2>1, <2>2
<1>6. ASSUME NEW p \in Callers, Shifting(p) PROVE \A v \in txs' : Kept(v)
  <2> DEFINE row(u) ==
        [u EXCEPT !.ext = CompositeId(hit[p]), !.day = hit[p].day,
                  !.b2 = IF hit[p].doc \in B2Docs THEN hit[p].doc ELSE @]
  <2>2. \A u \in txs : /\ row(u).id = u.id /\ row(u).ext = CompositeId(hit[p])
                       /\ row(u).b2 = IF hit[p].doc \in B2Docs THEN hit[p].doc ELSE u.b2
    BY <1>0 DEF Tx
  <2>3. txs' = {IF u.id = cur[p].id THEN row(u) ELSE u : u \in txs}
    BY <1>6 DEF Shifting
  <2>4. \A u \in txs : u.id = cur[p].id => u.ext.doc = hit[p].doc
    BY <1>6 DEF OneInv, HandFresh, Shifting
  <2>5. CompositeId(hit[p]).doc = hit[p].doc
    BY DEF CompositeId
  <2> HIDE DEF row
  <2> QED
    BY <1>0, <2>2, <2>3, <2>4, <2>5 DEF B2Of
<1>7. ASSUME NEW p \in Callers, Inserted(p), NEW v \in txs', v \notin txs
      PROVE  /\ v.id = nextId /\ v.ext.doc = hit[p].doc /\ v.b2 = B2Of(v.ext.doc)
             /\ \A t \in txs : t.ext.doc # v.ext.doc \/ v.ext.doc \notin B2Docs
  <2>1. \A t \in txs : t.ext.doc # hit[p].doc \/ hit[p].doc \notin B2Docs
    BY <1>7 DEF OneInv, HandFresh, Inserted
  <2> QED
    BY <1>7, <2>1 DEF Inserted, CompositeId, B2Of
<1>8. ASSUME NEW p \in Callers, Inserted(p)
      PROVE  \A v \in txs' : \/ v \in txs
                             \/ /\ v.b2 = B2Of(v.ext.doc)
                                /\ \A t \in txs : t.ext.doc # v.ext.doc \/ v.ext.doc \notin B2Docs
                                /\ v.id = nextId /\ v.ext.doc = hit[p].doc
  BY <1>7, <1>8
<1> QED
  BY <1>0, <1>1, <1>2, <1>3, <1>4, <1>5, <1>6, <1>8, RowsStep

\* What findFirst returns is a row of the line's document, and it finds the row
\* of a document with a b2_id.
LEMMA LookupExact ==
  ASSUME OwnIds, TypeInv, OneInv, NEW it \in Item, NEW t \in txs
  PROVE  /\ t \in Existing(it) => t.ext.doc = it.doc
         /\ t.ext.doc = it.doc /\ it.doc \in B2Docs => t \in Existing(it)
<1>1. /\ t.b2 = B2Of(t.ext.doc) /\ t.ext.doc \in Docs /\ it.doc \in Docs
      /\ NoDoc \notin Docs
  BY ItemTypes, BankAssumption DEF TypeInv, TypeOK, OneInv, Tx, ExtId
<1>2. CompositeId(it).doc = it.doc
  BY DEF CompositeId
<1> QED
  BY <1>1, <1>2 DEF Existing, OwnIds, B2Of

LEMMA FreshStep ==
  ASSUME OwnIds, Facts, IdInv', [Next]_vars PROVE HandFresh'
<1> SUFFICES ASSUME NEW q \in Callers, pc'[q] \in {"create", "shift"}
             PROVE  /\ q # "manual"
                    /\ pc'[q] = "create" => \A v \in txs' :
                         v.ext.doc # hit'[q].doc \/ hit'[q].doc \notin B2Docs
                    /\ pc'[q] = "shift" => \A v \in txs' :
                         v.id = cur'[q].id => v.ext.doc = hit'[q].doc
  BY DEF HandFresh
<1> USE DEF Facts
<1>1. CASE pc'[q] = pc[q] /\ cur'[q] = cur[q] /\ hit'[q] = hit[q]
  <2>1. q # "manual" /\ q \in Lockers
    BY <1>1 DEF OneInv, HandFresh, Lockers
  <2>2. ASSUME NEW p \in Callers, Inserted(p) PROVE FALSE
    <3>1. p # "manual" /\ p \in Lockers /\ pc'[p] = "fetch"
      BY <2>2 DEF Inserted, OneInv, HandFresh, Lockers, TypeInv, TypeOK
    <3>2. p = q
      BY <2>1, <3>1 DEF SyncExclusive
    <3> QED
      BY <3>1, <3>2
  <2>3. \A v \in txs' : \E t \in txs : t.id = v.id /\ t.ext.doc = v.ext.doc
    BY <2>2, DocKept
  <2> QED
    BY <1>1, <2>1, <2>3 DEF OneInv, HandFresh
<1>2. CASE Start(q) \/ Work(q)
  <2>1. UpsertLookup(q)
    BY <1>2, FromLookup
  <2>2. PICK it \in scan[q].queue :
          \/ Existing(it) = {} /\ Goto(q, "create") /\ Take(q, NoTx, it)
          \/ \E t \in Existing(it) : \/ UNCHANGED <<pc, hand>>
                                     \/ Goto(q, "shift") /\ Take(q, t, it)
    BY <2>1 DEF UpsertLookup
  <2>3. it \in Item /\ q # "manual" /\ txs' = txs /\ pc[q] = "fetch"
    BY <2>1, ScanTypes DEF OneInv, ManualReads, UpsertLookup, db, TypeInv, TypeOK
  <2>4. CASE Existing(it) = {} /\ Goto(q, "create") /\ Take(q, NoTx, it)
    <3>1. pc'[q] = "create" /\ hit'[q] = it
      BY <2>4 DEF Goto, Take, TypeInv, TypeOK
    <3>2. \A t \in txs : t.ext.doc # it.doc \/ it.doc \notin B2Docs
      BY <2>3, <2>4, LookupExact
    <3> QED
      BY <2>3, <3>1, <3>2
  <2>5. ASSUME NEW t \in Existing(it), Goto(q, "shift"), Take(q, t, it)
        PROVE  /\ pc'[q] = "shift"
               /\ \A v \in txs' : v.id = cur'[q].id => v.ext.doc = hit'[q].doc
    <3>1. pc'[q] = "shift" /\ hit'[q] = it /\ cur'[q] = t
      BY <2>5 DEF Goto, Take, TypeInv, TypeOK
    <3>2. t \in txs /\ t.ext.doc = it.doc
      BY <2>3, LookupExact DEF Existing
    <3> QED
      BY <2>3, <3>1, <3>2 DEF IdInv
  <2> QED
    BY <2>2, <2>3, <2>4, <2>5 DEF TypeInv, TypeOK
<1> QED
  BY <1>1, <1>2, OthersWait

LEMMA OneStep == ASSUME OwnIds PROVE Facts /\ [Next]_vars => Facts'
<1> SUFFICES ASSUME Facts, [Next]_vars PROVE Facts'
  OBVIOUS
<1> USE DEF Facts
<1>1. TypeInv' /\ IdInv' /\ SyncExclusive'
  BY TypeStep, IdStep, LockStep
<1>2. \A t \in txs' : t.b2 = B2Of(t.ext.doc)
  BY DocKept
<1>3. OneRowPerDocument'
  <2> SUFFICES ASSUME NEW v \in txs', NEW w \in txs', v.ext.doc = w.ext.doc,
                      v.ext.doc \in B2Docs
               PROVE  v.id = w.id
    BY <1>1 DEF OneRowPerDocument, IdInv
  <2> QED
    BY DocKept DEF OneInv, OneRowPerDocument
<1>4. HandFresh' /\ ManualReads'
  BY <1>1, FreshStep, ManualStep DEF OneInv
<1> QED
  BY <1>1, <1>2, <1>3, <1>4 DEF OneInv

\* When no general_id that upsertOne searches for is shared and the mirror starts
\* clean, a document with a b2_id has at most one Transaction row: re-dating,
\* re-amounting, crashes, back-fills over the cron's days and the operator's
\* concurrent deletions never make upsertOne insert it again.
THEOREM DocumentsMirroredOnce ==
  ASSUME OwnIds, CleanMirror PROVE Spec => []OneRowPerDocument
<1>1. Init => Facts
  BY TypeInit, IdInit, LockInit, OneInit DEF Facts
<1>2. Facts /\ [Next]_vars => Facts'
  BY OneStep
<1>3. Facts => OneRowPerDocument
  BY DEF Facts, OneInv
<1> QED
  BY <1>1, <1>2, <1>3, PTL DEF Spec

-----------------------------------------------------------------------------
(* What change detection knows of the rows it is about to delete *)

Deleting == {"deleteLog", "deleteKv", "deleteTx"}
Verifying == Deleting \cup {"verify", "moveLog", "moveTx", "moveKv"}
Detecting == Verifying \cup {"detect", "editLog", "editTx", "editKv"}

\* A step of one caller leaves what the others have read and hold.
LEMMA OthersKeep ==
  ASSUME TypeInv, NEW p \in Callers, Start(p) \/ Work(p),
         NEW q \in Callers, q # p
  PROVE  /\ scan'[q] = scan[q] /\ check'[q] = check[q]
         /\ pc'[q] = pc[q] /\ cur'[q] = cur[q] /\ hit'[q] = hit[q]
<1>0. /\ scan \in [Callers -> Scans] /\ check \in [Callers -> Checks]
      /\ pc \in [Callers -> PCs] /\ DOMAIN cur = Callers /\ DOMAIN hit = Callers
      /\ cur = [c \in Callers |-> cur[c]] /\ hit = [c \in Callers |-> hit[c]]
  BY DEF TypeInv, TypeOK
<1>1. pc'[q] = pc[q] /\ cur'[q] = cur[q] /\ hit'[q] = hit[q]
  <2>1. CASE Start(p) \/ Finish(p)
    BY <1>0, <2>1, PassEnds DEF hand
  <2>2. CASE Fetch(p) \/ Upsert(p) \/ Detect(p) \/ Verify(p)
    <3>1. /\ \E l \in PCs : pc' = [pc EXCEPT ![p] = l]
          /\ \E t, it : Take(p, t, it)
      BY <2>2, WorkStep
    <3> QED
      BY <1>0, <3>1 DEF Take
  <2> QED
    BY <2>1, <2>2 DEF Work
<1>2. scan' = scan \/ \E s : scan' = [scan EXCEPT ![p] = s]
  <2>1. CASE Start(p)
    BY <2>1 DEF Start, StartCron, StartBackfill, StartManual, Begin
  <2>2. CASE Fetch(p)
    BY <2>2 DEF Fetch, FetchDay, FetchEmpty, FetchError, Answer
  <2>3. CASE Upsert(p)
    BY <2>3 DEF Upsert, UpsertLookup, UpsertCreate, UpsertShift, UpsertRelink, UpsertAudit
  <2>4. CASE Detect(p)
    BY <2>4 DEF Detect, DetectRead, Compare, EditLog, EditTx, EditKv, Triage
  <2>5. CASE Verify(p)
    BY <2>5 DEF Verify, VerifyDay, Resolve, VerifyDone, MoveLog, MoveTx, MoveKv,
                DeleteLog, DeleteKv, DeleteTx
  <2>6. CASE Finish(p)
    BY <2>6 DEF Finish
  <2> QED
    BY <2>1, <2>2, <2>3, <2>4, <2>5, <2>6 DEF Work
<1>3. check' = check \/ \E c : check' = [check EXCEPT ![p] = c]
  <2>1. CASE Start(p)
    BY <2>1 DEF Start, StartCron, StartBackfill, StartManual, Begin
  <2>2. CASE Fetch(p)
    BY <2>2 DEF Fetch, FetchDay, FetchEmpty, FetchError
  <2>3. CASE Upsert(p)
    BY <2>3 DEF Upsert, UpsertLookup, UpsertCreate, UpsertShift, UpsertRelink, UpsertAudit
  <2>4. CASE Detect(p)
    BY <2>4 DEF Detect, DetectRead, Compare, EditLog, EditTx, EditKv, Triage
  <2>5. CASE Verify(p)
    BY <2>5 DEF Verify, VerifyDay, Resolve, VerifyDone, MoveLog, MoveTx, MoveKv,
                DeleteLog, DeleteKv, DeleteTx
  <2>6. CASE Finish(p)
    BY <2>6 DEF Finish
  <2> QED
    BY <2>1, <2>2, <2>3, <2>4, <2>5, <2>6 DEF Work
<1> QED
  BY <1>0, <1>1, <1>2, <1>3

\* Seen from one caller a step is its own, stops it, or leaves it alone.
LEMMA SeenFrom ==
  ASSUME TypeInv, [Next]_vars, NEW q \in Callers
  PROVE  \/ pc'[q] = "idle" \/ Start(q) \/ Work(q)
         \/ /\ scan'[q] = scan[q] /\ check'[q] = check[q]
            /\ pc'[q] = pc[q] /\ cur'[q] = cur[q] /\ hit'[q] = hit[q]
<1>1. CASE Crash
  BY <1>1 DEF Crash
<1>2. CASE BankStep \/ UNCHANGED vars
  BY <1>2 DEF BankStep, Post, Redate, Reamount, Restate, Withdraw, Book, hand, vars
<1> QED
  BY <1>1, <1>2, OthersKeep DEF Next

\* The steps that work off one row change neither what was read nor the verdict
\* about the row.
RowStep(p) == \/ EditLog(p) \/ EditTx(p) \/ EditKv(p) \/ MoveLog(p) \/ MoveTx(p)
              \/ MoveKv(p) \/ DeleteLog(p) \/ DeleteKv(p) \/ DeleteTx(p)
LEMMA RowStepKeeps ==
  ASSUME TypeInv, NEW p \in Callers, RowStep(p)
  PROVE  /\ UNCHANGED <<ledger, scan, check, nextId, lock>>
         /\ pc[p] \in Detecting /\ pc'[p] \in Detecting
         /\ pc'[p] \in Verifying => pc[p] \in Verifying
         /\ pc'[p] \in Deleting => pc[p] \in Deleting /\ cur' = cur
         /\ pc'[p] = "moveTx" => pc[p] = "moveLog" /\ cur' = cur
         /\ pc'[p] \notin {"moveLog", "deleteLog"}
<1> USE DEF Goto, db, hand, Deleting, Verifying, Detecting
<1>0. pc \in [Callers -> PCs]
  BY DEF TypeInv, TypeOK
<1>1. CASE EditLog(p) \/ EditKv(p)
  BY <1>0, <1>1 DEF EditLog, EditKv
<1>2. CASE EditTx(p)
  <2>1. /\ \E l \in {"editKv", "detect"} : pc' = [pc EXCEPT ![p] = l]
        /\ pc[p] = "editTx" /\ UNCHANGED <<ledger, scan, check, nextId, lock>>
    BY <1>2 DEF EditTx
  <2> QED
    BY <1>0, <2>1
<1>3. CASE MoveLog(p) \/ MoveKv(p)
  BY <1>0, <1>3 DEF MoveLog, MoveKv
<1>4. CASE MoveTx(p)
  <2>1. /\ \E l \in {"moveKv", "verify"} : pc' = [pc EXCEPT ![p] = l]
        /\ pc[p] = "moveTx" /\ UNCHANGED <<ledger, scan, check, nextId, lock>>
    BY <1>4 DEF MoveTx
  <2> QED
    BY <1>0, <2>1
<1>5. CASE DeleteLog(p) \/ DeleteKv(p)
  BY <1>0, <1>5 DEF DeleteLog, DeleteKv
<1>6. CASE DeleteTx(p)
  BY <1>0, <1>6 DEF DeleteTx
<1> QED
  BY <1>1, <1>2, <1>3, <1>4, <1>5, <1>6 DEF RowStep

\* Before the comparison and after the verification no row is in question.
LEMMA FarFromRows ==
  ASSUME TypeInv, NEW p \in Callers, Start(p) \/ Fetch(p) \/ Upsert(p) \/ Finish(p)
  PROVE  pc'[p] \in {"idle", "fetch", "create", "shift", "relink", "audit"}
<1> USE DEF Goto, db, hand
<1>0. pc \in [Callers -> PCs]
  BY DEF TypeInv, TypeOK
<1>1. CASE Start(p) \/ Finish(p)
  BY <1>0, <1>1, PassEnds
<1>2. CASE Fetch(p) \/ UpsertLookup(p)
  BY <1>0, <1>2 DEF Fetch, FetchDay, FetchEmpty, FetchError, Fetching, UpsertLookup
<1>3. CASE UpsertCreate(p) \/ UpsertAudit(p)
  BY <1>0, <1>3 DEF UpsertCreate, UpsertAudit
<1>4. CASE UpsertShift(p)
  <2>1. \E l \in {"relink", "audit", "fetch"} : pc' = [pc EXCEPT ![p] = l]
    BY <1>4 DEF UpsertShift
  <2> QED
    BY <1>0, <2>1
<1>5. CASE UpsertRelink(p)
  <2>1. \E l \in {"audit", "fetch"} : pc' = [pc EXCEPT ![p] = l]
    BY <1>5 DEF UpsertRelink
  <2> QED
    BY <1>0, <2>1
<1> QED
  BY <1>1, <1>2, <1>3, <1>4, <1>5 DEF Upsert

\* A row that is not found is on no line with its own document.
LEMMA NotLookedUp ==
  ASSUME NEW map, NEW t, Lookup(map, t) = NoItem PROVE map[t.ext.doc] = NoItem
BY DEF Lookup

\* What the steps of detectChanges do to the rows and the candidates in hand.
CheckStep(p) == \/ DetectRead(p) \/ Compare(p) \/ Triage(p)
                \/ VerifyDay(p) \/ Resolve(p) \/ VerifyDone(p)
Keeps(p) == check'[p].rows = check[p].rows /\ check'[p].cand = check[p].cand
LEMMA CheckSteps ==
  ASSUME TypeInv, NEW p \in Callers, CheckStep(p)
  PROVE  /\ scan' = scan /\ UNCHANGED <<nextId, log, kv>>
         /\ \/ txs' = txs /\ pc'[p] = "finish"
            \/ /\ txs' = txs /\ pc'[p] = "detect" /\ check'[p].cand = {}
               /\ check'[p].rows = {t \in txs : t.day \in scan[p].days}
            \/ /\ Compare(p) /\ pc[p] = "detect" /\ pc'[p] \in {"detect", "editLog"}
               /\ \E t \in check[p].rows :
                    /\ check'[p].rows = check[p].rows \ {t}
                    /\ \/ check'[p].cand = check[p].cand
                       \/ /\ check'[p].cand = check[p].cand \cup {t}
                          /\ scan[p].items[t.ext.doc] = NoItem
            \/ /\ txs' = txs /\ pc[p] \in {"detect", "verify"} /\ pc'[p] = "verify"
               /\ Keeps(p) /\ (pc[p] = "detect" => check[p].rows = {})
            \/ /\ txs' = txs /\ pc[p] = "verify"
               /\ \E t \in check[p].cand :
                    /\ check'[p].rows = check[p].rows
                    /\ check'[p].cand = check[p].cand \ {t}
                    /\ \/ pc'[p] = "verify"
                       \/ pc'[p] \in {"moveLog", "deleteLog"} /\ cur'[p] = t
<1> USE DEF Goto, db, hand, Keeps
<1>0. /\ pc \in [Callers -> PCs] /\ check \in [Callers -> Checks]
      /\ DOMAIN cur = Callers /\ cur = [c \in Callers |-> cur[c]]
  BY DEF TypeInv, TypeOK
<1>1. CASE DetectRead(p)
  <2> DEFINE c == [EmptyCheck EXCEPT !.rows = {t \in txs : t.day \in scan[p].days}]
  <2>1. \/ pc'[p] = "finish"
        \/ pc'[p] = "detect" /\ check' = [check EXCEPT ![p] = c]
    BY <1>0, <1>1 DEF DetectRead
  <2>2. c.cand = {} /\ c.rows = {t \in txs : t.day \in scan[p].days}
    BY DEF EmptyCheck
  <2> HIDE DEF c
  <2>3. check' = [check EXCEPT ![p] = c] => check'[p] = c
    BY <1>0
  <2> QED
    BY <1>1, <2>1, <2>2, <2>3 DEF DetectRead
<1>2. CASE Compare(p)
  <2>1. PICK t \in check[p].rows :
          /\ \/ /\ Lookup(scan[p].items, t) = NoItem
                /\ check' = [check EXCEPT ![p] =
                     [check[p] EXCEPT !.rows = @ \ {t}, !.cand = @ \cup {t}]]
             \/ check' = [check EXCEPT ![p].rows = @ \ {t}]
          /\ pc[p] = "detect" /\ pc'[p] \in {"detect", "editLog"}
    BY <1>0, <1>2 DEF Compare
  <2> DEFINE c == [check[p] EXCEPT !.rows = @ \ {t}, !.cand = @ \cup {t}]
             e == [check[p] EXCEPT !.rows = @ \ {t}]
  <2>2. /\ c.rows = check[p].rows \ {t} /\ c.cand = check[p].cand \cup {t}
        /\ e.rows = check[p].rows \ {t} /\ e.cand = check[p].cand
    BY <1>0 DEF Checks
  <2>3. \/ Lookup(scan[p].items, t) = NoItem /\ check' = [check EXCEPT ![p] = c]
        \/ check' = [check EXCEPT ![p] = e]
    BY <2>1
  <2>4. Lookup(scan[p].items, t) = NoItem => scan[p].items[t.ext.doc] = NoItem
    BY NotLookedUp
  <2> HIDE DEF c, e
  <2>5. \/ Lookup(scan[p].items, t) = NoItem /\ check'[p] = c
        \/ check'[p] = e
    BY <1>0, <2>3
  <2>6. scan' = scan /\ UNCHANGED <<nextId, log, kv>>
    BY <1>2 DEF Compare
  <2> QED
    BY <1>2, <2>1, <2>2, <2>4, <2>5, <2>6
<1>3. CASE Triage(p)
  <2> DEFINE c == [check[p] EXCEPT
                     !.need = UNION {Window(t.day) : t \in check[p].cand} \ scan[p].days,
                     !.ok = scan[p].days]
  <2>1. /\ pc[p] = "detect" /\ check[p].rows = {} /\ scan' = scan
        /\ UNCHANGED <<txs, nextId, log, kv>>
        /\ \/ pc'[p] = "finish"
           \/ pc'[p] = "verify" /\ check' = [check EXCEPT ![p] = c]
    BY <1>0, <1>3 DEF Triage
  <2>2. c.cand = check[p].cand /\ c.rows = check[p].rows
    BY <1>0 DEF Checks
  <2> HIDE DEF c
  <2>3. check' = [check EXCEPT ![p] = c] => check'[p] = c
    BY <1>0
  <2> QED
    BY <2>1, <2>2, <2>3
<1>4. CASE VerifyDay(p)
  <2>1. PICK d \in check[p].need :
          \/ check' = [check EXCEPT ![p] =
               [check[p] EXCEPT !.need = @ \ {d}, !.ok = @ \cup {d},
                         !.extra = Indexed(@, Statement(d))]]
          \/ check' = [check EXCEPT ![p] =
               [check[p] EXCEPT !.need = @ \ {d}, !.ok = @ \cup {d}]]
          \/ check' = [check EXCEPT ![p].need = @ \ {d}]
    BY <1>4 DEF VerifyDay
  <2> DEFINE c == [check[p] EXCEPT !.need = @ \ {d}, !.ok = @ \cup {d},
                                   !.extra = Indexed(@, Statement(d))]
             e == [check[p] EXCEPT !.need = @ \ {d}, !.ok = @ \cup {d}]
             f == [check[p] EXCEPT !.need = @ \ {d}]
  <2>2. /\ c.cand = check[p].cand /\ c.rows = check[p].rows
        /\ e.cand = check[p].cand /\ e.rows = check[p].rows
        /\ f.cand = check[p].cand /\ f.rows = check[p].rows
    BY <1>0 DEF Checks
  <2>3. \E r \in {c, e, f} : check' = [check EXCEPT ![p] = r]
    BY <2>1
  <2> HIDE DEF c, e, f
  <2>4. Keeps(p)
    BY <1>0, <2>2, <2>3
  <2>5. /\ pc[p] = "verify" /\ pc'[p] = "verify" /\ scan' = scan
        /\ UNCHANGED <<txs, nextId, log, kv>>
    BY <1>4 DEF VerifyDay
  <2> QED
    BY <2>4, <2>5
<1>5. CASE Resolve(p)
  <2>1. PICK t \in check[p].cand :
          /\ check' = [check EXCEPT ![p].cand = @ \ {t}]
          /\ \/ pc'[p] = "verify"
             \/ pc'[p] \in {"moveLog", "deleteLog"} /\ cur'[p] = t
    BY <1>0, <1>5 DEF Resolve, Take
  <2> DEFINE c == [check[p] EXCEPT !.cand = @ \ {t}]
  <2>2. c.rows = check[p].rows /\ c.cand = check[p].cand \ {t}
    BY <1>0 DEF Checks
  <2>3. check' = [check EXCEPT ![p] = c]
    BY <2>1
  <2> HIDE DEF c
  <2>4. check'[p] = c
    BY <1>0, <2>3
  <2>5. pc[p] = "verify" /\ scan' = scan /\ UNCHANGED <<txs, nextId, log, kv>>
    BY <1>5 DEF Resolve
  <2> QED
    BY <2>1, <2>2, <2>4, <2>5
<1>6. CASE VerifyDone(p)
  BY <1>0, <1>6 DEF VerifyDone
<1> QED
  BY <1>1, <1>2, <1>3, <1>4, <1>5, <1>6 DEF CheckStep

\* A candidate, and the row about to be deleted, was on no line of the pass.
MissingInv ==
  \A p \in Callers :
    /\ pc[p] \in Detecting => \A t \in check[p].cand : scan[p].items[t.ext.doc] = NoItem
    /\ pc[p] \in Deleting => scan[p].items[cur[p].ext.doc] = NoItem

LEMMA MissingStep == TypeInv /\ MissingInv /\ [Next]_vars => MissingInv'
<1> SUFFICES ASSUME TypeInv, MissingInv, [Next]_vars, NEW p \in Callers
             PROVE  /\ pc'[p] \in Detecting =>
                         \A t \in check'[p].cand : scan'[p].items[t.ext.doc] = NoItem
                    /\ pc'[p] \in Deleting => scan'[p].items[cur'[p].ext.doc] = NoItem
  BY DEF MissingInv
<1> USE DEF Goto, db, hand
<1>0. /\ pc \in [Callers -> PCs] /\ check \in [Callers -> Checks]
      /\ scan \in [Callers -> Scans]
      /\ DOMAIN cur = Callers /\ cur = [c \in Callers |-> cur[c]]
      /\ Deleting \subseteq Detecting /\ "idle" \notin Detecting
  BY DEF TypeInv, TypeOK, Deleting, Verifying, Detecting
<1>1. CASE pc'[p] = "idle"
  BY <1>0, <1>1
<1>2. CASE /\ scan'[p] = scan[p] /\ check'[p] = check[p]
           /\ pc'[p] = pc[p] /\ cur'[p] = cur[p] /\ hit'[p] = hit[p]
  BY <1>2 DEF MissingInv
<1>3. CASE Start(p) \/ Fetch(p) \/ Upsert(p) \/ Finish(p)
  BY <1>0, <1>3, FarFromRows DEF Deleting, Verifying, Detecting
<1>4. CASE RowStep(p)
  BY <1>4, RowStepKeeps DEF MissingInv
<1>5. CASE CheckStep(p)
  BY <1>5, CheckSteps DEF MissingInv, Deleting, Verifying, Detecting, Keeps
<1> QED
  BY <1>1, <1>2, <1>3, <1>4, <1>5, SeenFrom
  DEF Work, Detect, Verify, RowStep, CheckStep

-----------------------------------------------------------------------------
(* A deletion is right when the bank does not edit its ledger in mid-pass *)

\* What one fetch adds to the lines of the pass: those of its day, or nothing.
LEMMA FetchReads ==
  ASSUME TypeInv, NEW p \in Callers, Fetch(p)
  PROVE  /\ UNCHANGED <<ledger, db, pc, hand, check>>
         /\ pc[p] = "fetch" /\ scan[p].queue = {}
         /\ \E d, lines :
              /\ lines = {} \/ lines = Statement(d)
              /\ scan'[p].items = Indexed(scan[p].items, lines)
              /\ scan'[p].days = IF lines = {} THEN scan[p].days
                                ELSE scan[p].days \cup {d}
              /\ scan'[p].queue = IF p = "manual" THEN {}
                                 ELSE {ledger[x] : x \in lines}
<1>0. scan \in [Callers -> Scans]
  BY DEF TypeInv, TypeOK
<1>1. ASSUME NEW lines, Answer(p, lines)
      PROVE  LET d == Head(scan[p].todo) IN
             /\ scan'[p].items = Indexed(scan[p].items, lines)
             /\ scan'[p].days = IF lines = {} THEN scan[p].days
                               ELSE scan[p].days \cup {d}
             /\ scan'[p].queue = IF p = "manual" THEN {}
                                ELSE {ledger[x] : x \in lines}
  <2> DEFINE d == Head(scan[p].todo)
             items == Indexed(scan[p].items, lines)
             days == IF lines = {} THEN scan[p].days ELSE scan[p].days \cup {d}
             queue == IF p = "manual" THEN {} ELSE {ledger[x] : x \in lines}
             s == [scan[p] EXCEPT !.todo = Tail(@), !.items = Indexed(@, lines),
                                  !.days = IF lines = {} THEN @ ELSE @ \cup {d},
                                  !.queue = queue]
  <2>1. scan' = [scan EXCEPT ![p] = s]
    BY <1>1, Zenon DEF Answer
  <2>2. s.items = items /\ s.days = days /\ s.queue = queue
    <3> HIDE DEF queue, d
    <3> QED
      BY <1>0 DEF Scans
  <2> HIDE DEF s
  <2>3. scan'[p] = s
    BY <1>0, <2>1
  <2> QED
    BY <2>2, <2>3
<1>2. CASE FetchDay(p)
  BY <1>1, <1>2 DEF FetchDay, Fetching, db, hand
<1>3. CASE FetchEmpty(p)
  BY <1>1, <1>3 DEF FetchEmpty, Fetching, db, hand
<1>4. CASE FetchError(p)
  <2> DEFINE s == [scan[p] EXCEPT !.todo = Tail(@), !.errors = TRUE]
  <2>1. scan' = [scan EXCEPT ![p] = s] /\ scan[p].queue = {}
    BY <1>4 DEF FetchError, Fetching
  <2>2. s.items = scan[p].items /\ s.days = scan[p].days /\ s.queue = scan[p].queue
    BY <1>0 DEF Scans
  <2>3. scan[p].items = Indexed(scan[p].items, {})
    BY <1>0 DEF Scans, Ledgers, Indexed
  <2> HIDE DEF s
  <2>4. scan'[p] = s
    BY <1>0, <2>1
  <2>5. /\ scan'[p].items = Indexed(scan[p].items, {})
        /\ scan'[p].days = scan[p].days /\ scan'[p].queue = {}
        /\ {ledger[x] : x \in {}} = {}
    BY <2>1, <2>2, <2>3, <2>4
  <2>6. /\ UNCHANGED <<ledger, db, pc, hand, check>>
        /\ pc[p] = "fetch" /\ scan[p].queue = {}
    BY <1>4 DEF FetchError, Fetching, db, hand
  <2> QED
    BY <2>5, <2>6
<1> QED
  BY <1>2, <1>3, <1>4 DEF Fetch

\* The lines and the days of the pass stay what the fetches made them.
LEMMA OnlyFetchReads ==
  ASSUME TypeInv, NEW p \in Callers, Upsert(p) \/ Detect(p) \/ Verify(p)
  PROVE  /\ scan'[p].items = scan[p].items /\ scan'[p].days = scan[p].days
         /\ ledger' = ledger
<1>1. CASE UpsertLookup(p)
  <2>0. scan \in [Callers -> Scans]
    BY DEF TypeInv, TypeOK
  <2>1. PICK it \in scan[p].queue : scan' = [scan EXCEPT ![p].queue = @ \ {it}]
    BY <1>1 DEF UpsertLookup
  <2> QED
    BY <1>1, <2>0, <2>1 DEF UpsertLookup, Scans
<1> QED
  BY <1>1 DEF Upsert, UpsertCreate, UpsertShift, UpsertRelink, UpsertAudit, Detect,
     DetectRead, Compare, EditLog, EditTx, EditKv, Triage, Verify, VerifyDay, Resolve,
     VerifyDone, MoveLog, MoveTx, MoveKv, DeleteLog, DeleteKv, DeleteTx

\* With a quiet bank the ledger stands still under a working caller.
LEMMA LedgerStill ==
  ASSUME QuietPass, TypeInv, [Next]_vars, NEW p \in Callers, pc'[p] # "idle"
  PROVE  ledger' = ledger
<1>1. CASE BankStep
  BY <1>1 DEF BankStep, Post, Redate, Reamount, Restate, Withdraw, Book
<1>2. ASSUME NEW q \in Callers, Start(q) \/ Finish(q) PROVE ledger' = ledger
  BY <1>2 DEF Start, StartCron, StartBackfill, StartManual, Begin, Finish
<1>3. ASSUME NEW q \in Callers, Fetch(q) \/ Upsert(q) \/ Detect(q) \/ Verify(q)
      PROVE  ledger' = ledger
  BY <1>3, FetchReads, OnlyFetchReads
<1>4. CASE Crash \/ UNCHANGED vars
  BY <1>4 DEF Crash, vars
<1> QED
  BY <1>1, <1>2, <1>3, <1>4 DEF Next, Work

\* The bank dates the document of a row on no day of the window around it.
Absent(t) == LET it == ledger[t.ext.doc] IN
             it = NoItem \/ ~Within(it.day, t.day, VERIFY_DAYS)

\* Every line on a day that was answered, by a fetch or by a verification, is
\* among the lines of the pass.
AbsentInv ==
  \A p \in Callers :
    /\ pc[p] # "idle" =>
         \A x \in Docs : ledger[x] # NoItem /\ ledger[x].day \in scan[p].days =>
                         scan[p].items[x] # NoItem
    /\ pc[p] \in Verifying =>
         \A x \in Docs : ledger[x] # NoItem /\ ledger[x].day \in check[p].ok =>
                         scan[p].items[x] # NoItem \/ check[p].extra[x] # NoItem
    /\ pc[p] \in Deleting => Absent(cur[p])

LEMMA IndexedLines ==
  ASSUME NEW map, NEW x \in Docs, NEW d, NEW lines, lines = {} \/ lines = Statement(d)
  PROVE  /\ x \in lines => ledger[x] # NoItem /\ Indexed(map, lines)[x] # NoItem
         /\ x \notin lines => Indexed(map, lines)[x] = map[x]
BY DEF Indexed, Statement

LEMMA CoveredStep ==
  ASSUME QuietPass, TypeInv, AbsentInv, [Next]_vars,
         NEW p \in Callers, pc'[p] # "idle", NEW x \in Docs,
         ledger'[x] # NoItem, ledger'[x].day \in scan'[p].days
  PROVE  scan'[p].items[x] # NoItem
<1>0. ledger' = ledger /\ scan \in [Callers -> Scans] /\ pc \in [Callers -> PCs]
  BY LedgerStill DEF TypeInv, TypeOK
<1>1. CASE scan'[p] = scan[p] /\ pc'[p] = pc[p]
  BY <1>0, <1>1 DEF AbsentInv
<1>2. CASE Start(p)
  <2>1. PICK dates : scan' = [scan EXCEPT ![p] = [EmptyScan EXCEPT !.todo = dates]]
    BY <1>2 DEF Start, StartCron, StartBackfill, StartManual, Begin
  <2>2. [EmptyScan EXCEPT !.todo = dates].days = {}
    BY DEF EmptyScan
  <2> QED
    BY <1>0, <2>1, <2>2
<1>3. CASE Fetch(p)
  <2>1. /\ pc[p] # "idle"
        /\ \E d, lines :
             /\ lines = {} \/ lines = Statement(d)
             /\ scan'[p].items = Indexed(scan[p].items, lines)
             /\ scan'[p].days = IF lines = {} THEN scan[p].days
                               ELSE scan[p].days \cup {d}
    BY <1>3, FetchReads
  <2>2. PICK d, lines :
             /\ lines = {} \/ lines = Statement(d)
             /\ scan'[p].items = Indexed(scan[p].items, lines)
             /\ scan'[p].days = IF lines = {} THEN scan[p].days
                               ELSE scan[p].days \cup {d}
    BY <2>1
  <2>3. CASE x \in lines
    <3>1. Indexed(scan[p].items, lines)[x] # NoItem
      BY <2>2, <2>3 DEF Indexed, Statement
    <3> QED
      BY <2>2, <3>1
  <2>4. CASE x \notin lines
    <3>1. ledger[x].day \in scan[p].days
      BY <1>0, <2>2, <2>4 DEF Statement
    <3> QED
      BY <1>0, <2>1, <2>2, <2>4, <3>1, IndexedLines DEF AbsentInv
  <2> QED
    BY <2>3, <2>4
<1>4. CASE Upsert(p) \/ Detect(p) \/ Verify(p)
  BY <1>0, <1>4, OnlyFetchReads, WorkStep DEF AbsentInv
<1>5. CASE Finish(p)
  BY <1>0, <1>5 DEF Finish, Goto
<1> QED
  BY <1>1, <1>2, <1>3, <1>4, <1>5, SeenFrom DEF Work

\* A verification adds the lines of its day to those of the pass.
LEMMA VerifiedStep ==
  ASSUME QuietPass, ~VerifyGlitch, TypeInv, AbsentInv, [Next]_vars,
         NEW p \in Callers, pc'[p] \in Verifying, NEW x \in Docs,
         ledger'[x] # NoItem, ledger'[x].day \in check'[p].ok
  PROVE  scan'[p].items[x] # NoItem \/ check'[p].extra[x] # NoItem
<1>0. /\ ledger' = ledger /\ check \in [Callers -> Checks] /\ pc \in [Callers -> PCs]
      /\ pc'[p] # "idle"
  BY LedgerStill DEF TypeInv, TypeOK, Verifying, Deleting
<1>1. CASE scan'[p] = scan[p] /\ check'[p] = check[p] /\ pc'[p] = pc[p]
  BY <1>0, <1>1 DEF AbsentInv
<1>2. CASE Start(p) \/ Fetch(p) \/ Upsert(p) \/ Finish(p)
  BY <1>2, FarFromRows DEF Verifying, Deleting
<1>3. CASE RowStep(p)
  BY <1>0, <1>3, RowStepKeeps DEF AbsentInv
<1>4. CASE DetectRead(p) \/ Compare(p) \/ VerifyDone(p)
  BY <1>0, <1>4 DEF DetectRead, Compare, VerifyDone, Goto, hand, Verifying, Deleting
<1>5. CASE Triage(p)
  <2> DEFINE c == [check[p] EXCEPT
                     !.need = UNION {Window(t.day) : t \in check[p].cand} \ scan[p].days,
                     !.ok = scan[p].days]
  <2>1. check' = [check EXCEPT ![p] = c] /\ scan' = scan /\ pc[p] = "detect"
    BY <1>0, <1>5 DEF Triage, Goto, Verifying, Deleting
  <2>2. c.ok = scan[p].days
    BY <1>0 DEF Checks
  <2> HIDE DEF c
  <2>3. check'[p].ok = scan[p].days
    BY <1>0, <2>1, <2>2
  <2> QED
    BY <1>0, <2>1, <2>3 DEF AbsentInv
<1>6. CASE VerifyDay(p)
  <2>1. PICK d \in check[p].need :
          \/ check' = [check EXCEPT ![p] =
               [check[p] EXCEPT !.need = @ \ {d}, !.ok = @ \cup {d},
                         !.extra = Indexed(@, Statement(d))]]
          \/ check' = [check EXCEPT ![p].need = @ \ {d}]
    BY <1>6 DEF VerifyDay
  <2> DEFINE c == [check[p] EXCEPT !.need = @ \ {d}, !.ok = @ \cup {d},
                                   !.extra = Indexed(@, Statement(d))]
             e == [check[p] EXCEPT !.need = @ \ {d}]
  <2>2. /\ c.ok = check[p].ok \cup {d} /\ c.extra = Indexed(check[p].extra, Statement(d))
        /\ e.ok = check[p].ok /\ e.extra = check[p].extra
    BY <1>0 DEF Checks
  <2>3. scan' = scan /\ pc[p] = "verify" /\ pc'[p] = "verify"
    BY <1>6 DEF VerifyDay
  <2>4. CASE check'[p] = c
    <3>1. CASE x \in Statement(d)
      <4>1. Indexed(check[p].extra, Statement(d))[x] # NoItem
        BY <3>1 DEF Indexed, Statement
      <4> HIDE DEF c
      <4> QED
        BY <2>2, <2>4, <4>1
    <3>2. CASE x \notin Statement(d)
      <4>1. Indexed(check[p].extra, Statement(d))[x] = check[p].extra[x]
        BY <3>2 DEF Indexed
      <4>2. ledger[x].day # d
        BY <1>0, <3>2 DEF Statement
      <4> HIDE DEF c
      <4> QED
        BY <1>0, <2>2, <2>3, <2>4, <4>1, <4>2 DEF AbsentInv, Verifying, Deleting
    <3> QED
      BY <3>1, <3>2
  <2>5. CASE check'[p] = e
    <3> HIDE DEF e
    <3> QED
      BY <1>0, <2>2, <2>3, <2>5 DEF AbsentInv, Verifying, Deleting
  <2>6. check'[p] \in {c, e}
    <3> HIDE DEF c, e
    <3>1. check' = [check EXCEPT ![p] = c] \/ check' = [check EXCEPT ![p] = e]
      BY <2>1 DEF c, e
    <3> QED
      BY <1>0, <3>1
  <2> QED
    BY <2>4, <2>5, <2>6
<1>7. CASE Resolve(p)
  <2>1. PICK t \in check[p].cand :
          check' = [check EXCEPT ![p].cand = @ \ {t}]
    BY <1>7 DEF Resolve
  <2>2. /\ [check[p] EXCEPT !.cand = @ \ {t}].ok = check[p].ok
        /\ [check[p] EXCEPT !.cand = @ \ {t}].extra = check[p].extra
    BY <1>0 DEF Checks
  <2>3. check'[p].ok = check[p].ok /\ check'[p].extra = check[p].extra
    BY <1>0, <2>1, <2>2
  <2>4. scan' = scan /\ pc[p] = "verify"
    BY <1>7 DEF Resolve
  <2> QED
    BY <1>0, <2>3, <2>4 DEF AbsentInv, Verifying, Deleting
<1> QED
  BY <1>0, <1>1, <1>2, <1>3, <1>4, <1>5, <1>6, <1>7, SeenFrom
  DEF Work, Detect, Verify, RowStep

\* A caller decides to delete a row when every day of the row's window was
\* answered and its document was on none of them.
LEMMA VerdictStep ==
  ASSUME QuietPass, TypeInv, MissingInv, AbsentInv, [Next]_vars,
         NEW p \in Callers, pc'[p] \in Deleting
  PROVE  Absent(cur[p])'
<1>0. /\ ledger' = ledger /\ pc \in [Callers -> PCs] /\ pc'[p] # "idle"
      /\ ledger \in Ledgers /\ check \in [Callers -> Checks]
      /\ DOMAIN cur = Callers /\ cur = [c \in Callers |-> cur[c]]
  BY LedgerStill DEF TypeInv, TypeOK, Deleting
<1>1. CASE pc'[p] = pc[p] /\ cur'[p] = cur[p]
  BY <1>0, <1>1 DEF AbsentInv, Absent
<1>2. CASE Start(p) \/ Fetch(p) \/ Upsert(p) \/ Finish(p)
  BY <1>2, FarFromRows DEF Deleting
<1>3. CASE RowStep(p)
  BY <1>0, <1>3, RowStepKeeps DEF AbsentInv, Absent
<1>4. CASE \/ DetectRead(p) \/ Compare(p) \/ Triage(p) \/ VerifyDay(p) \/ VerifyDone(p)
  BY <1>0, <1>4
  DEF DetectRead, Compare, Triage, VerifyDay, VerifyDone, Goto, hand, Deleting
<1>5. CASE Resolve(p)
  <2>1. PICK t \in check[p].cand :
          /\ Lookup(check[p].extra, t) = NoItem /\ Window(t.day) \subseteq check[p].ok
          /\ cur'[p] = t /\ pc[p] = "verify"
    BY <1>0, <1>5 DEF Resolve, Goto, Take, Deleting, hand
  <2>2. t.ext.doc \in Docs /\ t.day \in Days
    <3>1. check[p] \in Checks
      BY <1>0
    <3>2. t \in Tx
      BY <3>1, CheckTypes
    <3> QED
      BY <3>2 DEF Tx, ExtId
  <2>3. scan[p].items[t.ext.doc] = NoItem /\ check[p].extra[t.ext.doc] = NoItem
    BY <2>1, NotLookedUp DEF MissingInv, Deleting, Verifying, Detecting
  <2>4. ledger[t.ext.doc] # NoItem => ledger[t.ext.doc].day \notin check[p].ok
    BY <2>1, <2>2, <2>3 DEF AbsentInv, Verifying
  <2>5. ledger[t.ext.doc] # NoItem => ledger[t.ext.doc].day \in Days
    BY <1>0, <2>2 DEF Ledgers, Item
  <2>6. Absent(t)
    <3>1. ASSUME ledger[t.ext.doc] # NoItem,
                 Within(ledger[t.ext.doc].day, t.day, VERIFY_DAYS)
          PROVE  ledger[t.ext.doc].day \in Window(t.day)
      BY <2>2, <2>5, <3>1, CalendarAssumption DEF Within, Window, Days
    <3> QED
      BY <2>1, <2>4, <3>1 DEF Absent
  <2> QED
    BY <1>0, <2>1, <2>6 DEF Absent
<1> QED
  BY <1>0, <1>1, <1>2, <1>3, <1>4, <1>5, SeenFrom DEF Work, Detect, Verify, RowStep

LEMMA VerdictInvariant ==
  ASSUME QuietPass, ~VerifyGlitch
  PROVE  Spec => [](TypeInv /\ MissingInv /\ AbsentInv)
<1>1. Init => MissingInv /\ AbsentInv
  BY DEF Init, MissingInv, AbsentInv, Deleting, Verifying, Detecting
<1>2. TypeInv /\ MissingInv /\ AbsentInv /\ [Next]_vars => AbsentInv'
  <2> SUFFICES ASSUME TypeInv, MissingInv, AbsentInv, [Next]_vars PROVE AbsentInv'
    OBVIOUS
  <2> QED
    BY CoveredStep, VerifiedStep, VerdictStep DEF AbsentInv
<1> QED
  BY <1>1, <1>2, TypeInit, TypeStep, MissingStep, PTL DEF Spec

\* While the bank edits its ledger only between passes and answers every
\* verification in earnest, a row is deleted, by whichever caller and however the
\* callers interleave, only when the bank dates its document on no day of the
\* window around the day on which the caller read it (detectChanges).
THEOREM DeletionsVerified ==
  ASSUME QuietPass, ~VerifyGlitch
  PROVE  Spec => [][\A p \in Callers : DeleteTx(p) => Absent(cur[p])]_vars
<1>1. TypeInv /\ MissingInv /\ AbsentInv /\ [Next]_vars =>
        [\A p \in Callers : DeleteTx(p) => Absent(cur[p])]_vars
  BY DEF AbsentInv, DeleteTx, Deleting
<1> QED
  BY <1>1, VerdictInvariant, PTL DEF Spec

-----------------------------------------------------------------------------
(* One caller at a time.  The lock keeps the cron and the back-fill apart and *)
(* nothing keeps the operator's check apart from them: beside them it deletes *)
(* a row that they have just moved to the day the bank now gives.             *)

\* The operator's check runs when no syncAccount can.
ManualAlone == \A p, q \in Callers : p = "manual" => q = "manual"

LEMMA OneWorks ==
  ASSUME ManualAlone, SyncExclusive, NEW p \in Callers, NEW q \in Callers,
         pc[p] # "idle", pc[q] # "idle"
  PROVE  p = q
BY DEF ManualAlone, SyncExclusive, Lockers

\* Nothing that a working caller holds or reads changes but by its own steps.
LEMMA OwnStep ==
  ASSUME ManualAlone, TypeInv, SyncExclusive, [Next]_vars,
         NEW p \in Callers, pc'[p] # "idle"
  PROVE  \/ Start(p) \/ Work(p)
         \/ /\ UNCHANGED db /\ scan'[p] = scan[p] /\ check'[p] = check[p]
            /\ pc'[p] = pc[p] /\ cur'[p] = cur[p] /\ hit'[p] = hit[p]
<1>1. SyncExclusive'
  BY LockStep
<1>2. \A q \in Callers : pc'[q] # "idle" => q = p
  BY <1>1 DEF ManualAlone, SyncExclusive, Lockers
<1>3. ASSUME NEW q \in Callers, q # p, Start(q) \/ Work(q) PROVE FALSE
  <2>1. pc'[p] = pc[p]
    BY <1>3, OthersKeep
  <2>2. pc'[q] # "idle" \/ pc[q] # "idle"
    BY <1>3, WorkStep, PassEnds DEF Work, TypeInv, TypeOK
  <2> QED
    BY <1>2, <1>3, <2>1, <2>2, OneWorks
<1>4. CASE Crash
  BY <1>4 DEF Crash
<1>5. CASE BankStep \/ UNCHANGED vars
  BY <1>5 DEF BankStep, Post, Redate, Reamount, Restate, Withdraw, Book, hand, db, vars
<1> QED
  BY <1>3, <1>4, <1>5 DEF Next

\* The mirror still has a row as it was read, if it has it at all.
AsRead(t) == \A u \in txs : u.id = t.id => u.ext = t.ext /\ u.day = t.day
SnapInv ==
  \A p \in Callers :
    /\ pc[p] \in Detecting =>
         \A t \in check[p].rows \cup check[p].cand :
           /\ AsRead(t)
           /\ \A u \in check[p].rows \cup check[p].cand : u.id = t.id => u = t
    /\ pc[p] \in Verifying => check[p].rows = {}
    /\ pc[p] \in {"moveLog", "moveTx"} => \A t \in check[p].cand : t.id # cur[p].id
    /\ pc[p] \in Deleting \cup {"shift"} => AsRead(cur[p])

\* Amending, restating and deleting rows leave composites and days alone.
KeysKept == \A v \in txs' : \E u \in txs : u.id = v.id /\ u.ext = v.ext /\ u.day = v.day
LEMMA KeysStep ==
  ASSUME TypeInv, NEW p \in Callers,
         Compare(p) \/ (RowStep(p) /\ ~MoveTx(p))
  PROVE  KeysKept
<1>0. txs \subseteq Tx
  BY DEF TypeInv, TypeOK
<1>1. CASE Compare(p)
  <2>1. PICK t \in check[p].rows :
          \/ txs' = txs
          \/ txs' = {IF u.id = t.id
                     THEN [u EXCEPT !.st = StatusOf(Lookup(scan[p].items, t))]
                     ELSE u : u \in txs}
    BY <1>1 DEF Compare
  <2> DEFINE row(u) == [u EXCEPT !.st = StatusOf(Lookup(scan[p].items, t))]
  <2>2. \A u \in txs : row(u).id = u.id /\ row(u).ext = u.ext /\ row(u).day = u.day
    BY <1>0 DEF Tx
  <2>3. txs' = txs \/ txs' = {IF u.id = t.id THEN row(u) ELSE u : u \in txs}
    BY <2>1
  <2> HIDE DEF row
  <2> QED
    BY <2>2, <2>3 DEF KeysKept
<1>2. CASE EditTx(p)
  <2> DEFINE row(u) == [u EXCEPT !.amt = hit[p].amt, !.st = StatusOf(hit[p])]
  <2>1. \A u \in txs : row(u).id = u.id /\ row(u).ext = u.ext /\ row(u).day = u.day
    BY <1>0 DEF Tx
  <2>2. txs' = {IF u.id = cur[p].id THEN row(u) ELSE u : u \in txs}
    BY <1>2 DEF EditTx
  <2> HIDE DEF row
  <2> QED
    BY <2>1, <2>2 DEF KeysKept
<1>3. CASE DeleteTx(p)
  BY <1>3 DEF DeleteTx, KeysKept
<1>4. CASE \/ EditLog(p) \/ EditKv(p) \/ MoveLog(p) \/ MoveKv(p)
           \/ DeleteLog(p) \/ DeleteKv(p)
  BY <1>4 DEF EditLog, EditKv, MoveLog, MoveKv, DeleteLog, DeleteKv, KeysKept
<1> QED
  BY <1>1, <1>2, <1>3, <1>4 DEF RowStep

LEMMA AsReadKept ==
  ASSUME KeysKept, NEW t, AsRead(t)
  PROVE  \A v \in txs' : v.id = t.id => v.ext = t.ext /\ v.day = t.day
BY DEF KeysKept, AsRead

LEMMA SnapStep ==
  ASSUME ManualAlone
  PROVE  TypeInv /\ IdInv /\ SyncExclusive /\ SnapInv /\ [Next]_vars => SnapInv'
<1> SUFFICES
      ASSUME TypeInv, IdInv, SyncExclusive, SnapInv, [Next]_vars,
             NEW p \in Callers, pc'[p] \in Detecting \cup {"shift"}
      PROVE  /\ pc'[p] \in Detecting =>
                  \A t \in check'[p].rows \cup check'[p].cand :
                    /\ \A u \in txs' : u.id = t.id => u.ext = t.ext /\ u.day = t.day
                    /\ \A u \in check'[p].rows \cup check'[p].cand : u.id = t.id => u = t
             /\ pc'[p] \in Verifying => check'[p].rows = {}
             /\ pc'[p] \in {"moveLog", "moveTx"} =>
                  \A t \in check'[p].cand : t.id # cur'[p].id
             /\ pc'[p] \in Deleting \cup {"shift"} =>
                  \A u \in txs' : u.id = cur'[p].id =>
                    u.ext = cur'[p].ext /\ u.day = cur'[p].day
  BY DEF SnapInv, AsRead, Deleting, Verifying, Detecting
<1> USE DEF Goto, db, hand
<1>0. /\ pc \in [Callers -> PCs] /\ check \in [Callers -> Checks]
      /\ pc'[p] # "idle" /\ txs \subseteq Tx
      /\ DOMAIN cur = Callers /\ cur = [c \in Callers |-> cur[c]]
  BY DEF TypeInv, TypeOK, Deleting, Verifying, Detecting
<1>1. CASE /\ UNCHANGED db /\ scan'[p] = scan[p] /\ check'[p] = check[p]
           /\ pc'[p] = pc[p] /\ cur'[p] = cur[p] /\ hit'[p] = hit[p]
  BY <1>1 DEF SnapInv, AsRead
<1>2. CASE Start(p) \/ Fetch(p) \/ Upsert(p) \/ Finish(p)
  <2>1. pc'[p] = "shift"
    BY <1>2, FarFromRows DEF Deleting, Verifying, Detecting
  <2>2. UpsertLookup(p)
    BY <1>2, <2>1, FromLookup DEF Work
  <2>3. cur'[p] \in txs /\ txs' = txs
    <3>1. PICK it \in scan[p].queue :
            \/ UNCHANGED <<pc, hand>>
            \/ Goto(p, "create")
            \/ \E t \in Existing(it) : Goto(p, "shift") /\ Take(p, t, it)
      BY <2>2 DEF UpsertLookup
    <3>2. pc[p] = "fetch" /\ txs' = txs
      BY <2>2 DEF UpsertLookup
    <3> QED
      BY <1>0, <2>1, <3>1, <3>2 DEF Existing, Take
  <2> QED
    BY <2>1, <2>3 DEF IdInv, Deleting, Verifying, Detecting
<1>3. CASE RowStep(p) /\ ~MoveTx(p)
  <2>1. /\ check' = check /\ pc[p] \in Detecting /\ pc'[p] \in Detecting
        /\ pc'[p] \in Verifying => pc[p] \in Verifying
        /\ pc'[p] \in Deleting => pc[p] \in Deleting /\ cur' = cur
        /\ pc'[p] = "moveTx" => pc[p] = "moveLog" /\ cur' = cur
        /\ pc'[p] # "moveLog" /\ pc'[p] # "shift"
    BY <1>3, RowStepKeeps DEF Detecting, Verifying, Deleting
  <2>2. \A t : AsRead(t) =>
          \A v \in txs' : v.id = t.id => v.ext = t.ext /\ v.day = t.day
    BY <1>3, KeysStep, AsReadKept
  <2> QED
    BY <2>1, <2>2 DEF SnapInv
<1>4. CASE MoveTx(p)
  <2>1. /\ check' = check /\ pc[p] = "moveTx" /\ pc'[p] \in {"moveKv", "verify"}
    BY <1>0, <1>4 DEF MoveTx
  <2>2. \A t \in check[p].cand : AsRead(t) /\ t.id # cur[p].id
    BY <2>1 DEF SnapInv, Deleting, Verifying, Detecting
  <2> DEFINE row(u) == [u EXCEPT !.day = hit[p].day]
  <2>3. txs' = {IF u.id = cur[p].id THEN row(u) ELSE u : u \in txs}
    BY <1>4 DEF MoveTx
  <2>4. \A u \in txs : row(u).id = u.id
    BY <1>0 DEF Tx
  <2> HIDE DEF row
  <2>5. \A v \in txs' : v.id = cur[p].id \/ v \in txs
    BY <2>3, <2>4
  <2>6. \A t \in check[p].cand :
          \A v \in txs' : v.id = t.id => v.ext = t.ext /\ v.day = t.day
    BY <2>2, <2>5 DEF AsRead
  <2> QED
    BY <2>1, <2>6 DEF SnapInv, Deleting, Verifying, Detecting
<1>5. CASE CheckStep(p)
  <2>1. CASE txs' = txs /\ pc'[p] = "finish"
    BY <2>1 DEF Deleting, Verifying, Detecting
  <2>2. CASE /\ txs' = txs /\ pc'[p] = "detect" /\ check'[p].cand = {}
             /\ check'[p].rows = {t \in txs : t.day \in scan[p].days}
    BY <2>2 DEF IdInv, Deleting, Verifying, Detecting
  <2>3. CASE /\ Compare(p) /\ pc[p] = "detect" /\ pc'[p] \in {"detect", "editLog"}
             /\ \E t \in check[p].rows :
                  /\ check'[p].rows = check[p].rows \ {t}
                  /\ \/ check'[p].cand = check[p].cand
                     \/ check'[p].cand = check[p].cand \cup {t}
    <3>1. check'[p].rows \cup check'[p].cand \subseteq check[p].rows \cup check[p].cand
      BY <2>3
    <3>2. \A t : AsRead(t) =>
            \A v \in txs' : v.id = t.id => v.ext = t.ext /\ v.day = t.day
      BY <2>3, KeysStep, AsReadKept
    <3>3. \A t \in check[p].rows \cup check[p].cand :
             /\ AsRead(t)
             /\ \A u \in check[p].rows \cup check[p].cand : u.id = t.id => u = t
      BY <2>3 DEF SnapInv, Detecting
    <3> QED
      BY <2>3, <3>1, <3>2, <3>3 DEF Deleting, Verifying
  <2>4. CASE /\ txs' = txs /\ pc[p] \in {"detect", "verify"} /\ pc'[p] = "verify"
             /\ Keeps(p) /\ (pc[p] = "detect" => check[p].rows = {})
    BY <2>4 DEF SnapInv, AsRead, Keeps, Deleting, Verifying, Detecting
  <2>5. CASE /\ txs' = txs /\ pc[p] = "verify"
             /\ \E t \in check[p].cand :
                  /\ check'[p].rows = check[p].rows
                  /\ check'[p].cand = check[p].cand \ {t}
                  /\ \/ pc'[p] = "verify"
                     \/ pc'[p] \in {"moveLog", "deleteLog"} /\ cur'[p] = t
    BY <2>5 DEF SnapInv, AsRead, Deleting, Verifying, Detecting
  <2> QED
    BY <1>5, <2>1, <2>2, <2>3, <2>4, <2>5, CheckSteps
<1> QED
  BY <1>0, <1>1, <1>2, <1>3, <1>4, <1>5, OwnStep
  DEF Work, Detect, Verify, RowStep, CheckStep

LEMMA SnapInvariant ==
  ASSUME ManualAlone PROVE Spec => [](TypeInv /\ IdInv /\ SyncExclusive /\ SnapInv)
<1>1. Init => SnapInv
  BY DEF Init, SnapInv, Deleting, Verifying, Detecting
<1> QED
  BY <1>1, TypeInit, TypeStep, IdInit, IdStep, LockInit, LockStep, SnapStep, PTL DEF Spec

\* With a bank that is quiet during a pass and earnest in its verification answers,
\* and no operator's check beside a syncAccount, a row is deleted only when the
\* bank dates its document on no day of the window around the row.
THEOREM OnlyAbsentDeleted ==
  ASSUME QuietPass, ~VerifyGlitch, ManualAlone
  PROVE  Spec => DeleteOnlyAbsent
<1> DEFINE Step == \A t \in txs : (\A u \in txs' : u.id # t.id) =>
                     LET it == ledger[t.ext.doc] IN
                     it = NoItem \/ ~Within(it.day, t.day, VERIFY_DAYS)
           Inv == TypeInv /\ SnapInv /\ AbsentInv
<1>1. ASSUME Inv, [Next]_vars PROVE Step
  <2> USE <1>1
  <2>0. txs \subseteq Tx
    BY DEF TypeInv, TypeOK
  <2>1. CASE UNCHANGED <<txs, nextId>>
    BY <2>1
  <2>2. CASE Restating \/ Moving
    BY <2>2, RowSurvives
  <2>3. ASSUME NEW p \in Callers, Inserted(p) PROVE Step
    BY <2>3 DEF Inserted
  <2>4. ASSUME NEW p \in Callers, Amending(p) \/ Shifting(p) PROVE Step
    BY <2>4, RowSurvives
  <2>5. ASSUME NEW p \in Callers, Removed(p) PROVE Step
    <3>1. Absent(cur[p]) /\ AsRead(cur[p])
      BY <2>5 DEF Removed, AbsentInv, SnapInv, Deleting
    <3>2. \A t \in txs : (\A u \in txs' : u.id # t.id) => t.id = cur[p].id
      BY <2>5 DEF Removed
    <3> QED
      BY <3>1, <3>2 DEF Absent, AsRead
  <2> QED
    BY <2>1, <2>2, <2>3, <2>4, <2>5, RowsStep
<1>2. Inv /\ [Next]_vars => [Step]_vars
  BY <1>1
<1> QED
  BY <1>2, SnapInvariant, VerdictInvariant, PTL DEF Spec, DeleteOnlyAbsent

-----------------------------------------------------------------------------
(* Every line a pass has fetched is mirrored when the pass ends *)

HasRow(x) == \E t \in txs : t.ext.doc = x
OwnLines == \A d \in Docs : ledger[d] # NoItem => ledger[d].doc = d
\* A line that was fetched has a row, waits for its upsert, or is in the hand of
\* the caller, with the row it is about to shift.
LinesInv ==
  \A p \in Callers \ {"manual"} :
    /\ pc[p] # "idle" =>
         \A x \in Docs : scan[p].items[x] # NoItem =>
           \/ HasRow(x)
           \/ \E it \in scan[p].queue : it.doc = x
           \/ pc[p] \in {"create", "shift"} /\ hit[p].doc = x
    /\ pc[p] \in Detecting \cup {"finish"} => scan[p].queue = {}
    /\ pc[p] = "shift" => Stored(cur[p])

LEMMA OwnLinesStep == ASSUME TypeInv, OwnLines, [Next]_vars PROVE OwnLines'
<1>0. ledger \in Ledgers
  BY DEF TypeInv, TypeOK
<1>1. CASE ledger' = ledger
  BY <1>1 DEF OwnLines
<1>2. ASSUME NEW d \in Docs, \/ Post(d) \/ Redate(d) \/ Reamount(d)
                             \/ Restate(d) \/ Withdraw(d)
      PROVE  OwnLines'
  <2>1. \E it : /\ it = NoItem \/ it.doc = d
                /\ ledger' = [ledger EXCEPT ![d] = it]
    <3>1. CASE Post(d) \/ Withdraw(d)
      BY <3>1 DEF Post, Withdraw, Book
    <3>2. ASSUME ledger[d] # NoItem
          PROVE  \A v : /\ [ledger[d] EXCEPT !.day = v].doc = d
                        /\ [ledger[d] EXCEPT !.amt = v].doc = d
                        /\ [ledger[d] EXCEPT !.state = v].doc = d
      BY <1>0, <3>2 DEF OwnLines, Ledgers, Item
    <3>3. CASE Redate(d) \/ Reamount(d) \/ Restate(d)
      BY <3>2, <3>3 DEF Redate, Reamount, Restate, Book
    <3> QED
      BY <1>2, <3>1, <3>3
  <2> QED
    BY <1>0, <2>1 DEF OwnLines, Ledgers
<1>3. ASSUME NEW q \in Callers, Start(q) \/ Finish(q) PROVE ledger' = ledger
  BY <1>3 DEF Start, StartCron, StartBackfill, StartManual, Begin, Finish
<1>4. ASSUME NEW q \in Callers, Fetch(q) \/ Upsert(q) \/ Detect(q) \/ Verify(q)
      PROVE  ledger' = ledger
  BY <1>4, FetchReads, OnlyFetchReads
<1>5. CASE Crash \/ UNCHANGED vars
  BY <1>1, <1>5 DEF Crash, vars
<1> QED
  BY <1>1, <1>2, <1>3, <1>4, <1>5 DEF Next, Work, BankStep

\* Only a deletion takes the row of a document away.
LEMMA RowLasts ==
  ASSUME OwnIds, Facts, [Next]_vars, NEW t \in txs,
         \A q \in Callers : Removed(q) => t.id # cur[q].id
  PROVE  \E v \in txs' : v.id = t.id /\ v.ext.doc = t.ext.doc
<1> USE DEF Facts
<1>1. \E v \in txs' : v.id = t.id
  <2>1. CASE UNCHANGED <<txs, nextId>>
    BY <2>1
  <2>2. ASSUME NEW q \in Callers, Inserted(q) PROVE \E v \in txs' : v.id = t.id
    BY <2>2 DEF Inserted
  <2>3. ASSUME NEW q \in Callers, Removed(q) PROVE \E v \in txs' : v.id = t.id
    BY <2>3 DEF Removed
  <2> QED
    BY <2>1, <2>2, <2>3, RowsStep, RowSurvives
<1>2. PICK v \in txs' : v.id = t.id
  BY <1>1
<1>3. t.id # nextId
  BY DEF IdInv, Tx, TypeInv, TypeOK
<1>4. \E u \in txs : u.id = v.id /\ u.ext.doc = v.ext.doc
  BY <1>2, <1>3, DocKept
<1> QED
  BY <1>2, <1>4 DEF IdInv

LEMMA LinesStep ==
  ASSUME OwnIds, ManualAlone, Facts, OwnLines, MissingInv, SnapInv, LinesInv,
         [Next]_vars, NEW p \in Callers \ {"manual"}, pc'[p] # "idle",
         NEW x \in Docs, scan'[p].items[x] # NoItem
  PROVE  \/ HasRow(x)'
         \/ \E it \in scan'[p].queue : it.doc = x
         \/ pc'[p] \in {"create", "shift"} /\ hit'[p].doc = x
<1> USE DEF Facts
<1>0. /\ pc \in [Callers -> PCs] /\ scan \in [Callers -> Scans] /\ txs \subseteq Tx
      /\ ledger \in Ledgers
      /\ DOMAIN hit = Callers /\ hit = [c \in Callers |-> hit[c]]
  BY DEF TypeInv, TypeOK
<1>1. ASSUME HasRow(x), pc[p] # "idle", scan[p].items[x] # NoItem PROVE HasRow(x)'
  <2>1. PICK t \in txs : t.ext.doc = x
    BY <1>1 DEF HasRow
  <2>2. ASSUME NEW q \in Callers, Removed(q), t.id = cur[q].id PROVE FALSE
    <3>1. pc[q] = "deleteTx" /\ q = p
      BY <1>1, <2>2, OneWorks DEF Removed
    <3>2. t.ext = cur[p].ext
      BY <2>2, <3>1 DEF SnapInv, AsRead, Deleting
    <3>3. scan[p].items[x] = NoItem
      BY <2>1, <3>1, <3>2 DEF MissingInv, Deleting
    <3> QED
      BY <1>1, <3>3
  <2> QED
    BY <2>1, <2>2, RowLasts DEF HasRow
<1>2. CASE /\ scan'[p] = scan[p] /\ pc'[p] = pc[p] /\ hit'[p] = hit[p]
  BY <1>1, <1>2 DEF LinesInv
<1>3. CASE Start(p)
  <2>1. PICK dates : scan' = [scan EXCEPT ![p] = [EmptyScan EXCEPT !.todo = dates]]
    BY <1>3 DEF Start, StartCron, StartBackfill, StartManual, Begin
  <2>2. [EmptyScan EXCEPT !.todo = dates].items[x] = NoItem
    BY DEF EmptyScan, Nothing
  <2> QED
    BY <1>0, <2>1, <2>2
<1>4. CASE Fetch(p)
  <2>1. /\ pc[p] = "fetch" /\ scan[p].queue = {} /\ txs' = txs
        /\ \E d, lines :
             /\ lines = {} \/ lines = Statement(d)
             /\ scan'[p].items = Indexed(scan[p].items, lines)
             /\ scan'[p].queue = {ledger[y] : y \in lines}
    BY <1>4, FetchReads DEF db
  <2>2. PICK d, lines :
             /\ lines = {} \/ lines = Statement(d)
             /\ scan'[p].items = Indexed(scan[p].items, lines)
             /\ scan'[p].queue = {ledger[y] : y \in lines}
    BY <2>1
  <2>3. CASE x \in lines
    <3>1. ledger[x] \in scan'[p].queue /\ ledger[x].doc = x
      BY <2>2, <2>3 DEF OwnLines, Statement
    <3> QED
      BY <3>1
  <2>4. CASE x \notin lines
    <3>1. scan[p].items[x] # NoItem
      BY <2>2, <2>4 DEF Indexed
    <3>2. HasRow(x)
      BY <2>1, <3>1 DEF LinesInv
    <3> QED
      BY <2>1, <3>2 DEF HasRow
  <2> QED
    BY <2>3, <2>4
<1>5. CASE UpsertLookup(p)
  <2>1. PICK it \in scan[p].queue :
          /\ scan' = [scan EXCEPT ![p].queue = @ \ {it}]
          /\ \/ pc'[p] \in {"create", "shift"} /\ hit'[p] = it
             \/ \E t \in Existing(it) : UNCHANGED <<pc, hand>>
    BY <1>0, <1>5 DEF UpsertLookup, Goto, Take
  <2>2. /\ scan'[p].queue = scan[p].queue \ {it} /\ scan'[p].items = scan[p].items
        /\ it \in Item /\ pc[p] = "fetch" /\ txs' = txs
    BY <1>0, <1>5, <2>1 DEF UpsertLookup, db, Scans
  <2>3. \A t \in Existing(it) : t \in txs /\ t.ext.doc = it.doc
    BY <2>2, LookupExact DEF Existing
  <2>4. HasRow(x) \/ \E jt \in scan[p].queue : jt.doc = x
    BY <2>2 DEF LinesInv
  <2> QED
    BY <2>1, <2>2, <2>3, <2>4 DEF HasRow
<1>6. CASE UpsertCreate(p)
  <2>1. /\ pc[p] = "create" /\ scan' = scan
        /\ \/ \E t \in txs : t.ext = CompositeId(hit[p])
           \/ \E row : row.ext = CompositeId(hit[p]) /\ txs' = txs \cup {row}
    BY <1>6 DEF UpsertCreate
  <2>2. txs \subseteq txs' /\ CompositeId(hit[p]).doc = hit[p].doc
    BY <1>6 DEF UpsertCreate, CompositeId
  <2>3. \E t \in txs' : t.ext.doc = hit[p].doc
    BY <2>1, <2>2
  <2>4. \/ HasRow(x) \/ hit[p].doc = x
        \/ \E it \in scan[p].queue : it.doc = x
    BY <2>1 DEF LinesInv
  <2> QED
    BY <1>1, <2>1, <2>3, <2>4 DEF HasRow
<1>7. CASE UpsertShift(p)
  <2>1. pc[p] = "shift" /\ scan' = scan /\ Stored(cur[p])
    BY <1>7 DEF UpsertShift, LinesInv
  <2>2. HasRow(hit[p].doc)
    BY <2>1 DEF OneInv, HandFresh, Stored, HasRow
  <2>3. \/ HasRow(x) \/ \E it \in scan[p].queue : it.doc = x
    BY <2>1, <2>2 DEF LinesInv
  <2> QED
    BY <1>1, <2>1, <2>3
<1>8. CASE UpsertRelink(p) \/ UpsertAudit(p)
  BY <1>1, <1>8 DEF UpsertRelink, UpsertAudit, LinesInv
<1>9. CASE Detect(p) \/ Verify(p)
  <2>1. scan' = scan /\ pc[p] \in Detecting \cup {"fetch"}
    BY <1>9 DEF Detect, Verify, DetectRead, Compare, EditLog, EditTx, EditKv, Triage,
       VerifyDay, Resolve, VerifyDone, MoveLog, MoveTx, MoveKv, DeleteLog, DeleteKv,
       DeleteTx, Detecting, Verifying, Deleting
  <2>2. pc[p] # "idle" /\ pc[p] \notin {"create", "shift"}
    BY <2>1 DEF Detecting, Verifying, Deleting
  <2> QED
    BY <1>1, <2>1, <2>2 DEF LinesInv
<1>10. CASE Finish(p)
  BY <1>0, <1>10 DEF Finish, Goto
<1> QED
  BY <1>2, <1>3, <1>4, <1>5, <1>6, <1>7, <1>8, <1>9, <1>10, SeenFrom
  DEF Work, Upsert

LEMMA LinesKept ==
  ASSUME OwnIds, ManualAlone
  PROVE  /\ Facts /\ OwnLines /\ MissingInv /\ SnapInv /\ LinesInv /\ [Next]_vars
         => LinesInv'
<1> SUFFICES
      ASSUME Facts, OwnLines, MissingInv, SnapInv, LinesInv, [Next]_vars,
             NEW p \in Callers \ {"manual"}
      PROVE  /\ pc'[p] \in Detecting \cup {"finish"} => scan'[p].queue = {}
             /\ pc'[p] = "shift" => \E u \in txs' : u.id = cur'[p].id
  BY LinesStep DEF LinesInv, Stored
<1> USE DEF Facts, Goto, db, hand
<1>0. /\ pc \in [Callers -> PCs] /\ scan \in [Callers -> Scans] /\ TypeInv
      /\ DOMAIN cur = Callers /\ cur = [c \in Callers |-> cur[c]]
  BY DEF TypeInv, TypeOK
<1>1. CASE pc'[p] = "idle"
  BY <1>1 DEF Detecting, Verifying, Deleting
<1>2. CASE /\ UNCHANGED db /\ scan'[p] = scan[p] /\ check'[p] = check[p]
           /\ pc'[p] = pc[p] /\ cur'[p] = cur[p] /\ hit'[p] = hit[p]
  BY <1>2 DEF LinesInv, Stored
<1>3. CASE Start(p) \/ Fetch(p) \/ Upsert(p) \/ Finish(p)
  <2>1. pc'[p] \notin Detecting \cup {"finish"}
    BY <1>0, <1>3, FarFromRows DEF Detecting, Verifying, Deleting
  <2>2. ASSUME pc'[p] = "shift" PROVE \E u \in txs' : u.id = cur'[p].id
    <3>1. UpsertLookup(p)
      BY <1>0, <1>3, <2>2, FromLookup DEF Work
    <3>2. PICK it \in scan[p].queue :
            \/ UNCHANGED <<pc, hand>>
            \/ Goto(p, "create")
            \/ \E t \in Existing(it) : Goto(p, "shift") /\ Take(p, t, it)
      BY <3>1 DEF UpsertLookup
    <3>3. pc[p] = "fetch" /\ txs' = txs
      BY <3>1 DEF UpsertLookup
    <3>4. cur'[p] \in txs
      BY <1>0, <2>2, <3>2, <3>3 DEF Existing, Take
    <3> QED
      BY <3>3, <3>4
  <2> QED
    BY <2>1, <2>2
<1>4. CASE RowStep(p)
  BY <1>0, <1>4, RowStepKeeps DEF LinesInv, Detecting, Verifying, Deleting
<1>5. CASE DetectRead(p)
  BY <1>0, <1>5 DEF DetectRead
<1>6. CASE CheckStep(p) /\ ~DetectRead(p)
  <2>1. pc[p] \in {"detect", "verify"}
    BY <1>6 DEF CheckStep, Compare, Triage, VerifyDay, Resolve, VerifyDone
  <2>2. scan' = scan /\ pc'[p] # "shift"
    BY <1>0, <1>6, CheckSteps
  <2> QED
    BY <2>1, <2>2 DEF LinesInv, Detecting, Verifying, Deleting
<1> QED
  BY <1>0, <1>1, <1>2, <1>3, <1>4, <1>5, <1>6, OwnStep
  DEF Work, Detect, Verify, RowStep, CheckStep

\* When no general_id that upsertOne searches for is shared and no operator's
\* check runs beside a syncAccount, every line that a pass has fetched has its
\* Transaction row when the pass ends, whatever the bank edits in mid-pass,
\* whichever answers fail and wherever a crash cut an earlier pass off.
THEOREM FetchedIsMirrored ==
  ASSUME OwnIds, CleanMirror, ManualAlone PROVE Spec => []LinesMirrored
<1> DEFINE Inv == Facts /\ OwnLines /\ MissingInv /\ SnapInv /\ LinesInv
<1>1. Init => Inv
  <2>1. Init => Facts
    BY TypeInit, IdInit, LockInit, OneInit DEF Facts
  <2>2. Init => OwnLines
    BY BankAssumption DEF Init, OwnLines
  <2>3. Init => MissingInv /\ SnapInv /\ LinesInv
    BY DEF Init, MissingInv, SnapInv, LinesInv, Deleting, Verifying, Detecting
  <2> QED
    BY <2>1, <2>2, <2>3
<1>2. Inv /\ [Next]_vars => Inv'
  BY OneStep, OwnLinesStep, MissingStep, SnapStep, LinesKept DEF Facts
<1>3. Inv => LinesMirrored
  <2>1. ASSUME LinesInv, NEW p \in Callers \ {"manual"}, pc[p] = "finish",
               NEW x \in Docs, scan[p].items[x] # NoItem
        PROVE  HasRow(x)
    BY <2>1 DEF LinesInv
  <2> QED
    BY <2>1 DEF LinesMirrored, HasRow
<1> QED
  BY <1>1, <1>2, <1>3, PTL DEF Spec

-----------------------------------------------------------------------------
(* OplataKv rows stay linked *)

\* The server stays up and no cascade fails.
NoFaults == Limit["crash"] = 0 /\ Limit["dbfault"] = 0

\* Before the link is moved no OplataKv row has the new composite and the row that
\* took it is there; before the row is deleted nothing is linked to it.
LinkInv ==
  /\ KvLinked
  /\ \A p \in Callers :
       /\ pc[p] = "relink" => /\ \A k \in kv : k.src # CompositeId(hit[p])
                              /\ \E t \in txs : t.ext = CompositeId(hit[p])
       /\ pc[p] = "deleteTx" => \A k \in kv : k.src # cur[p].ext

\* LinkInv as the one caller that works sees it, after its step.
Linked(p) ==
  /\ \A k \in kv' : \/ \E t \in txs' : t.ext = k.src
                    \/ pc'[p] = "relink" /\ cur'[p].ext = k.src
  /\ pc'[p] = "relink" => /\ \A k \in kv' : k.src # CompositeId(hit'[p])
                          /\ \E t \in txs' : t.ext = CompositeId(hit'[p])
  /\ pc'[p] = "deleteTx" => \A k \in kv' : k.src # cur'[p].ext

LEMMA ShiftLinks ==
  ASSUME TypeInv, SnapInv, LinkInv, NEW p \in Callers, UpsertShift(p),
         \A k \in kv : \E t \in txs : t.ext = k.src
  PROVE  Linked(p)
<1> DEFINE row(u) ==
      [u EXCEPT !.ext = CompositeId(hit[p]), !.day = hit[p].day,
                !.b2 = IF hit[p].doc \in B2Docs THEN hit[p].doc ELSE @]
<1>0. txs \subseteq Tx /\ pc \in [Callers -> PCs] /\ AsRead(cur[p])
  BY DEF TypeInv, TypeOK, UpsertShift, SnapInv
<1>1. CASE ~(Stored(cur[p]) /\ ~Taken(CompositeId(hit[p]), cur[p]))
  <2>1. txs' = txs /\ kv' = kv /\ pc'[p] = "fetch"
    BY <1>0, <1>1 DEF UpsertShift, Goto
  <2> QED
    BY <2>1 DEF Linked
<1>2. CASE Stored(cur[p]) /\ ~Taken(CompositeId(hit[p]), cur[p])
  <2>1. /\ kv' = kv /\ cur' = cur /\ hit' = hit
        /\ pc'[p] = IF cur[p].ext # CompositeId(hit[p]) THEN "relink" ELSE "audit"
        /\ txs' = {IF u.id = cur[p].id THEN row(u) ELSE u : u \in txs}
    BY <1>0, <1>2 DEF UpsertShift, Goto, hand
  <2>2. \A u \in txs : row(u).ext = CompositeId(hit[p])
    BY <1>0 DEF Tx
  <2> HIDE DEF row
  <2>3. \E t \in txs' : t.ext = CompositeId(hit[p])
    BY <1>2, <2>1, <2>2 DEF Stored
  <2>4. \A t \in txs : t \in txs' \/ t.ext = cur[p].ext
    BY <1>0, <2>1 DEF AsRead
  <2>5. pc'[p] = "relink" => \A k \in kv' : k.src # CompositeId(hit'[p])
    BY <1>0, <1>2, <2>1 DEF Taken, AsRead
  <2> QED
    BY <2>1, <2>3, <2>4, <2>5 DEF Linked
<1> QED
  BY <1>1, <1>2

LEMMA RelinkLinks ==
  ASSUME TypeInv, LinkInv, NEW p \in Callers, UpsertRelink(p),
         \A k \in kv : \/ \E t \in txs : t.ext = k.src
                       \/ cur[p].ext = k.src
  PROVE  Linked(p)
<1> DEFINE row(k) == [k EXCEPT !.src = CompositeId(hit[p]), !.date = hit[p].day]
<1>0. kv \subseteq KvRow /\ pc \in [Callers -> PCs]
  BY DEF TypeInv, TypeOK
<1>1. /\ \A k \in kv : k.src # CompositeId(hit[p])
      /\ \E t \in txs : t.ext = CompositeId(hit[p])
  BY DEF LinkInv, UpsertRelink
<1>2. /\ kv' = {IF k.src = cur[p].ext THEN row(k) ELSE k : k \in kv}
      /\ txs' = txs /\ pc'[p] \in {"audit", "fetch"}
  <2>1. \E l \in {"audit", "fetch"} : pc' = [pc EXCEPT ![p] = l]
    BY DEF UpsertRelink, Goto
  <2> QED
    BY <1>0, <1>1, <2>1 DEF UpsertRelink
<1>3. \A k \in kv : row(k).src = CompositeId(hit[p])
  BY <1>0 DEF KvRow
<1> HIDE DEF row
<1> QED
  BY <1>1, <1>2, <1>3 DEF Linked

LEMMA LinkStep ==
  ASSUME ManualAlone, NoFaults
  PROVE  TypeInv /\ SyncExclusive /\ SnapInv /\ LinkInv /\ [Next]_vars => LinkInv'
<1> SUFFICES ASSUME TypeInv, SyncExclusive, SnapInv, LinkInv, [Next]_vars PROVE LinkInv'
  OBVIOUS
<1> USE DEF Goto, db, hand
<1>0. /\ pc \in [Callers -> PCs] /\ txs \subseteq Tx /\ kv \subseteq KvRow
      /\ DOMAIN cur = Callers /\ DOMAIN hit = Callers
      /\ cur = [c \in Callers |-> cur[c]] /\ hit = [c \in Callers |-> hit[c]]
  BY DEF TypeInv, TypeOK
<1>1. ~Crash /\ ~Spend("dbfault")
  BY DEF NoFaults, Crash, Spend, TypeInv, TypeOK, Kinds
<1>2. CASE BankStep \/ UNCHANGED vars
  BY <1>2 DEF BankStep, Post, Redate, Reamount, Restate, Withdraw, Book, vars,
     LinkInv, KvLinked
<1>3. ASSUME NEW p \in Callers, Start(p) PROVE LinkInv'
  <2>1. /\ pc[p] = "idle" /\ pc'[p] = "fetch" /\ txs' = txs /\ kv' = kv
    BY <1>0, <1>3 DEF Start, StartCron, StartBackfill, StartManual, Begin
  <2>2. \A q \in Callers \ {p} : pc'[q] = pc[q] /\ cur'[q] = cur[q] /\ hit'[q] = hit[q]
    BY <1>3, OthersKeep
  <2> QED
    BY <2>1, <2>2 DEF LinkInv, KvLinked
<1>4. ASSUME NEW p \in Callers, Work(p) PROVE LinkInv'
  <2>1. pc[p] # "idle"
    BY <1>4, WorkStep, PassEnds DEF Work, Finish
  <2>2. \A q \in Callers \ {p} : pc[q] = "idle" /\ pc'[q] = "idle"
    BY <1>4, <2>1, OneWorks, OthersKeep
  <2>3. SUFFICES Linked(p)
    BY <2>2 DEF Linked, LinkInv, KvLinked
  <2>4. \A k \in kv : \/ \E t \in txs : t.ext = k.src
                      \/ pc[p] = "relink" /\ cur[p].ext = k.src
    BY <2>2 DEF LinkInv, KvLinked
  <2>5. ASSUME kv' = kv, \A t \in txs : \E v \in txs' : v.ext = t.ext,
               pc[p] # "relink", pc'[p] \notin {"relink", "deleteTx"}
        PROVE  Linked(p)
    BY <2>4, <2>5 DEF Linked
  <2>6. CASE Fetch(p) \/ UpsertLookup(p) \/ Finish(p)
    BY <1>0, <2>5, <2>6
    DEF Fetch, FetchDay, FetchEmpty, FetchError, Fetching, UpsertLookup, Finish
  <2>7. CASE UpsertCreate(p) \/ UpsertAudit(p)
    BY <1>0, <2>5, <2>7 DEF UpsertCreate, UpsertAudit
  <2>8. CASE UpsertShift(p)
    BY <2>4, <2>8, ShiftLinks DEF UpsertShift
  <2>9. CASE UpsertRelink(p)
    BY <2>4, <2>9, RelinkLinks
  <2>10. CASE CheckStep(p)
    <3>1. kv' = kv /\ pc[p] # "relink" /\ pc'[p] \notin {"relink", "deleteTx"}
      BY <1>0, <2>10, CheckSteps DEF CheckStep, DetectRead, Compare, Triage, VerifyDay,
         Resolve, VerifyDone
    <3>2. CASE Compare(p)
      <4>1. PICK t \in check[p].rows :
              \/ txs' = txs
              \/ txs' = {IF u.id = t.id
                         THEN [u EXCEPT !.st = StatusOf(Lookup(scan[p].items, t))]
                         ELSE u : u \in txs}
        BY <3>2 DEF Compare
      <4> DEFINE row(u) == [u EXCEPT !.st = StatusOf(Lookup(scan[p].items, t))]
      <4>2. \A u \in txs : row(u).ext = u.ext
        BY <1>0 DEF Tx
      <4>3. txs' = txs \/ txs' = {IF u.id = t.id THEN row(u) ELSE u : u \in txs}
        BY <4>1
      <4> HIDE DEF row
      <4>4. \A u \in txs : \E v \in txs' : v.ext = u.ext
        BY <4>2, <4>3
      <4> QED
        BY <2>5, <3>1, <4>4
    <3>3. CASE ~Compare(p)
      <4>1. txs' = txs
        BY <2>10, <3>3, CheckSteps
      <4> QED
        BY <2>5, <3>1, <4>1
    <3> QED
      BY <3>2, <3>3
  <2>11. CASE EditLog(p) \/ MoveLog(p) \/ DeleteLog(p)
    BY <1>0, <2>5, <2>11 DEF EditLog, MoveLog, DeleteLog
  <2>12. CASE EditTx(p)
    <3> DEFINE row(u) == [u EXCEPT !.amt = hit[p].amt, !.st = StatusOf(hit[p])]
    <3>1. \A u \in txs : row(u).ext = u.ext
      BY <1>0 DEF Tx
    <3>2. txs' = {IF u.id = cur[p].id THEN row(u) ELSE u : u \in txs} /\ kv' = kv
      BY <2>12 DEF EditTx
    <3>3. pc[p] = "editTx" /\ pc'[p] \in {"editKv", "detect"}
      BY <1>0, <2>12 DEF EditTx
    <3> HIDE DEF row
    <3> QED
      BY <2>5, <3>1, <3>2, <3>3
  <2>13. CASE MoveTx(p)
    <3> DEFINE row(u) == [u EXCEPT !.day = hit[p].day]
    <3>1. \A u \in txs : row(u).ext = u.ext
      BY <1>0 DEF Tx
    <3>2. txs' = {IF u.id = cur[p].id THEN row(u) ELSE u : u \in txs} /\ kv' = kv
      BY <2>13 DEF MoveTx
    <3>3. pc[p] = "moveTx" /\ pc'[p] \in {"moveKv", "verify"}
      BY <1>0, <2>13 DEF MoveTx
    <3> HIDE DEF row
    <3> QED
      BY <2>5, <3>1, <3>2, <3>3
  <2>14. CASE EditKv(p) \/ MoveKv(p)
    <3>1. txs' = txs /\ pc[p] # "relink" /\ pc'[p] \notin {"relink", "deleteTx"}
      BY <1>0, <2>14 DEF EditKv, MoveKv
    <3>2. \A k \in kv' : \E j \in kv : j.src = k.src
      <4>1. CASE EditKv(p)
        <5>1. kv' = {IF k.src = cur[p].ext THEN [k EXCEPT !.amt = hit[p].amt] ELSE k
                       : k \in kv}
          BY <1>1, <4>1 DEF EditKv
        <5> QED
          BY <1>0, <5>1 DEF KvRow
      <4>2. CASE MoveKv(p)
        <5>1. kv' = {IF k.src = cur[p].ext THEN [k EXCEPT !.date = hit[p].day] ELSE k
                       : k \in kv}
          BY <1>1, <4>2 DEF MoveKv
        <5> QED
          BY <1>0, <5>1 DEF KvRow
      <4> QED
        BY <2>14, <4>1, <4>2
    <3> QED
      BY <2>4, <3>1, <3>2 DEF Linked
  <2>15. CASE DeleteKv(p)
    <3>1. /\ kv' = {k \in kv : k.src # cur[p].ext} /\ txs' = txs /\ cur' = cur
          /\ pc[p] = "deleteKv" /\ pc'[p] = "deleteTx"
      BY <1>0, <1>1, <2>15 DEF DeleteKv
    <3> QED
      BY <2>4, <3>1 DEF Linked
  <2>16. CASE DeleteTx(p)
    <3>1. /\ txs' = {u \in txs : u.id # cur[p].id} /\ kv' = kv
          /\ pc[p] = "deleteTx" /\ pc'[p] = "verify"
      BY <1>0, <2>16 DEF DeleteTx
    <3>2. AsRead(cur[p]) /\ \A k \in kv : k.src # cur[p].ext
      BY <3>1 DEF SnapInv, LinkInv, Deleting
    <3> QED
      BY <2>4, <3>1, <3>2 DEF Linked, AsRead
  <2> QED
    BY <1>4, <2>6, <2>7, <2>8, <2>9, <2>10, <2>11, <2>12, <2>13, <2>14, <2>15, <2>16
    DEF Work, Upsert, Detect, Verify, CheckStep
<1> QED
  BY <1>1, <1>2, <1>3, <1>4 DEF Next

\* While the server stays up, cascades do not fail and no operator's check runs
\* beside a syncAccount, every OplataKv row is linked to a Transaction row, save
\* while upsertOne is between re-dating the row and moving the link.
THEOREM LedgerStaysLinked ==
  ASSUME ManualAlone, NoFaults PROVE Spec => []KvLinked
<1>1. Init => LinkInv
  BY DEF Init, LinkInv, KvLinked
<1>2. LinkInv => KvLinked
  BY DEF LinkInv
<1> QED
  BY <1>1, <1>2, SnapInvariant, LinkStep, PTL DEF Spec

=============================================================================
