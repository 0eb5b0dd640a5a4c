---------------------------- MODULE SheetExport ----------------------------
(***************************************************************************)
(* The export of payment rows into a Google sheet, GoogleExportService:    *)
(* run and upsertRows with planUpsertRows, started by the cron tick, by    *)
(* hand or over the agent bridge, with nothing to keep runs of one sheet   *)
(* apart.  Only the mapped columns of the sheet are modelled: a row is its *)
(* key and its payment.                                                    *)
(***************************************************************************)
EXTENDS Naturals, FiniteSets, FiniteSetsExt

CONSTANTS
    Runs,         \* runs of the export that may be under way together
    Modes,        \* target.writeMode
    Ids,          \* rows of the database, numbers in the order of the query
    KeyOf,        \* KeyOf[id]: the key field of the row
    Vals,         \* the payment
    Height,       \* bound: rows of the sheet below startRow
    GapLimit,     \* GAP_LIMIT, 200 in the code
    Before,       \* rows of the sheet before the first export
    MaxChange,    \* bound: changes of what the query selects
    MaxHand,      \* bound: rows entered by hand
    MaxTrouble,   \* bound: failed or unanswered calls, restarts
    None

ASSUME SheetAssumption ==
    /\ Modes \subseteq {"upsert", "replace"}
    /\ Ids \subseteq Nat /\ IsFiniteSet(Ids)
    /\ Height \in Nat /\ GapLimit \in Nat
    /\ MaxChange \in Nat /\ MaxHand \in Nat /\ MaxTrouble \in Nat
    /\ None \notin Vals /\ "hand" \notin Vals \cup {KeyOf[id] : id \in Ids}

Keys == {KeyOf[id] : id \in Ids}
Places == 1..Height
Blank == [key |-> None, val |-> None]
HandRow == [key |-> "hand", val |-> "hand"]
Cells == [key : Keys \cup {None, "hand"}, val : Vals \cup {None, "hand"}]
Snapshots == [Ids -> Vals \cup {None}]

ASSUME SheetBefore == \A i \in Places \cap DOMAIN Before : Before[i] \in Cells

VARIABLES
    db,      \* what the query of the sheet selects: [Ids -> Vals \cup {None}]
    sheet,   \* the mapped columns, from startRow on
    saved,   \* settings export.upsertKeys.<sheet>
    pc, mode, snap, prev, read, touched,    \* per run
    last,    \* the rows of the last write that reached the sheet
    budget

setup == <<mode, snap>>
plan == <<read, touched>>
vars == <<db, sheet, saved, pc, setup, prev, plan, last, budget>>

Nothing == [id \in Ids |-> None]
EmptySheet == [i \in Places |-> Blank]

Init ==
    /\ db \in Snapshots
    /\ sheet = [i \in Places |-> IF i \in DOMAIN Before THEN Before[i] ELSE Blank]
    /\ saved = {}
    /\ pc = [r \in Runs |-> "idle"]
    /\ mode = [r \in Runs |-> None]
    /\ snap = [r \in Runs |-> Nothing] /\ prev = [r \in Runs |-> {}]
    /\ read = [r \in Runs |-> EmptySheet] /\ touched = [r \in Runs |-> <<>>]
    /\ last = Nothing
    /\ budget = [change |-> MaxChange, hand |-> MaxHand, trouble |-> MaxTrouble]

Spend(b) == budget[b] > 0 /\ budget' = [budget EXCEPT ![b] = @ - 1]
Go(r, s) == pc' = [pc EXCEPT ![r] = s]

-----------------------------------------------------------------------------
(* planUpsertRows and upsertRows as functions of what was read *)

Rows(d) == {id \in Ids : d[id] # None}
KeysIn(d) == {KeyOf[id] : id \in Rows(d)}
Cell_slip1(d, id) == [key |-> d[id], val |-> KeyOf[id]]
Cell(d, id) == [key |-> KeyOf[id], val |-> d[id]]
Rank(S, id) == Cardinality({j \in S : j <= id})

Paid(s) == {i \in Places : s[i].val # None}

\* anchorLen: the first block of payments ends before a gap of more than
\* GapLimit rows without one.
BlockEnd(s) ==
    LET paid == Paid(s)
        Reached == {i \in paid : \A j \in paid :
                       j < i => \E k \in paid : j < k /\ k <= i /\ k <= j + GapLimit + 1}
    IN  IF Reached = {} THEN 0 ELSE Max(Reached)

\* planUpsertRows: where the block ends, and the first row of the block with
\* each key; 0 when it has none.
Plan(s) ==
    LET end == BlockEnd(s)
        At(k) == {i \in 1..end : s[i].key = k}
    IN  [anchorLen |-> end,
         keyToIdx |-> [k \in Keys |-> IF k = None \/ At(k) = {} THEN 0 ELSE Min(At(k))]]

News(p, d) == {id \in Rows(d) : p.keyToIdx[KeyOf[id]] = 0}

\* Where a row of the database goes: over its old self or below the block.
Place_slip1(p, d, id) ==
    IF id \in News(p, d) THEN p.anchorLen + Rank(News(p, d), id) - 1 ELSE p.keyToIdx[KeyOf[id]]
Place(p, d, id) ==
    IF id \in News(p, d) THEN p.anchorLen + Rank(News(p, d), id) ELSE p.keyToIdx[KeyOf[id]]

\* Rows the export wrote (prevKeys) that the query no longer selects.
Stale_slip1(p, d, keys) == 1..p.anchorLen \ {p.keyToIdx[k] : k \in KeysIn(d)}
Stale_slip2(p, d, keys) == {}
Stale(p, d, keys) == {p.keyToIdx[k] : k \in keys \ KeysIn(d)} \ {0}

\* The cells one values.batchUpdate touches, planned on the sheet as it was read.
Touched_slip1(s, d, keys) ==
    LET p == Plan(s)
        place == [id \in News(p, d) |-> Place(p, d, id)]
        written == {place[id] : id \in News(p, d)}
    IN  [i \in (written \cup Stale(p, d, keys)) |->
            IF i \in written THEN Cell(d, Max({id \in News(p, d) : place[id] = i})) ELSE Blank]
Touched(s, d, keys) ==
    LET p == Plan(s)
        place == [id \in Rows(d) |-> Place(p, d, id)]
        written == {place[id] : id \in Rows(d)}
    IN  [i \in (written \cup Stale(p, d, keys)) |->
            IF i \in written THEN Cell(d, Max({id \in Rows(d) : place[id] = i})) ELSE Blank]

Upserted(now, cells) == [i \in Places |-> IF i \in DOMAIN cells THEN cells[i] ELSE now[i]]

\* REPLACE: the rows from startRow on, then everything below them.
Replaced(now, d) ==
    [i \in Places |->
        IF \E id \in Rows(d) : Rank(Rows(d), id) = i
        THEN Cell(d, CHOOSE id \in Rows(d) : Rank(Rows(d), id) = i) ELSE now[i]]

Tail_slip1(d) == Cardinality(Rows(d)) + 2
Tail(d) == Cardinality(Rows(d)) + 1
Cleared(now, d) == [i \in Places |-> IF i >= Tail(d) THEN Blank ELSE now[i]]

-----------------------------------------------------------------------------
\* run: credentials, validation, and the query.
Fetch(r) ==
    /\ pc[r] = "idle"
    /\ \E m \in Modes : mode' = [mode EXCEPT ![r] = m] /\ Go(r, IF m = "upsert" THEN "keys" ELSE "write")
    /\ snap' = [snap EXCEPT ![r] = db]
    /\ UNCHANGED <<db, sheet, saved, prev, plan, last, budget>>

\* loadUpsertKeys: a failure counts as no keys.
LoadKeys(r) ==
    /\ pc[r] = "keys" /\ Go(r, "read")
    /\ \/ prev' = [prev EXCEPT ![r] = saved] /\ UNCHANGED budget
       \/ Spend("trouble") /\ prev' = [prev EXCEPT ![r] = {}]
    /\ UNCHANGED <<db, sheet, saved, setup, plan, last>>

\* values.get of upsertRows; a bound keeps the write within the sheet.
ReadSheet(r) ==
    /\ pc[r] = "read"
    /\ \/ /\ read' = [read EXCEPT ![r] = sheet]
          /\ touched' = [touched EXCEPT ![r] = Touched(sheet, snap[r], prev[r])]
          /\ DOMAIN touched'[r] \subseteq Places
          /\ Go(r, "write") /\ UNCHANGED budget
       \/ Spend("trouble") /\ Go(r, "failed") /\ UNCHANGED plan
    /\ UNCHANGED <<db, sheet, saved, setup, prev, last>>

\* A write either reaches the sheet or not, answered or not.  Only REPLACE
\* tries again (withRetry).
Written(r) ==
    /\ last' = snap[r]
    /\ sheet' = IF mode[r] = "upsert" THEN Upserted(sheet, touched[r])
                ELSE Replaced(sheet, snap[r])

Write(r) ==
    /\ pc[r] = "write"
    /\ \/ Written(r) /\ Go(r, IF mode[r] = "upsert" THEN "save" ELSE "clear") /\ UNCHANGED budget
       \/ /\ Spend("trouble")
          /\ Written(r) \/ UNCHANGED <<sheet, last>>
          /\ Go(r, "failed") \/ (mode[r] = "replace" /\ UNCHANGED pc)
    /\ UNCHANGED <<db, saved, setup, prev, plan>>

\* values.batchClear below the rows written.
Clear(r) ==
    /\ pc[r] = "clear"
    /\ \/ sheet' = Cleared(sheet, snap[r]) /\ Go(r, "save") /\ UNCHANGED budget
       \/ /\ Spend("trouble")
          /\ sheet' \in {sheet, Cleared(sheet, snap[r])}
          /\ Go(r, "failed") \/ UNCHANGED pc
    /\ UNCHANGED <<db, saved, setup, prev, plan, last>>

\* saveUpsertKeys: a failure is swallowed.
Save(r) ==
    /\ pc[r] = "save" /\ Go(r, "ok")
    /\ \/ saved' = KeysIn(snap[r]) \ {None} /\ UNCHANGED budget
       \/ Spend("trouble") /\ UNCHANGED saved
    /\ UNCHANGED <<db, sheet, setup, prev, plan, last>>

\* runAndLog: the log row; the next start may follow.
Log(r) ==
    /\ pc[r] \in {"ok", "failed"} /\ Go(r, "idle")
    /\ mode' = [mode EXCEPT ![r] = None] /\ snap' = [snap EXCEPT ![r] = Nothing]
    /\ prev' = [prev EXCEPT ![r] = {}] /\ read' = [read EXCEPT ![r] = EmptySheet]
    /\ touched' = [touched EXCEPT ![r] = <<>>]
    /\ UNCHANGED <<db, sheet, saved, last, budget>>

\* The back end restarts: every run is gone.
Restart ==
    /\ \E r \in Runs : pc[r] # "idle"
    /\ Spend("trouble")
    /\ pc' = [r \in Runs |-> "idle"]
    /\ mode' = [r \in Runs |-> None] /\ snap' = [r \in Runs |-> Nothing]
    /\ prev' = [r \in Runs |-> {}] /\ read' = [r \in Runs |-> EmptySheet]
    /\ touched' = [r \in Runs |-> <<>>]
    /\ UNCHANGED <<db, sheet, saved, last>>

\* A payment arrives, is amended or withdrawn, or the filter changes.
Change(id) ==
    /\ Spend("change")
    /\ \E v \in (Vals \cup {None}) \ {db[id]} : db' = [db EXCEPT ![id] = v]
    /\ UNCHANGED <<sheet, saved, pc, setup, prev, plan, last>>

\* Somebody enters a row by hand below the payments.
HandAdd ==
    /\ Spend("hand") /\ BlockEnd(sheet) < Height /\ sheet[BlockEnd(sheet) + 1] = Blank
    /\ sheet' = [sheet EXCEPT ![BlockEnd(sheet) + 1] = HandRow]
    /\ UNCHANGED <<db, saved, pc, setup, prev, plan, last>>

Run(r) == Fetch(r) \/ LoadKeys(r) \/ ReadSheet(r) \/ Write(r) \/ Clear(r) \/ Save(r) \/ Log(r)

Next ==
    \/ \E r \in Runs : Run(r)
    \/ Restart \/ HandAdd
    \/ \E id \in Ids : Change(id)

Spec == Init /\ [][Next]_vars

\* The cron tick starts runs again and again, and each goes on to its end.
FairSpec == Spec /\ \A r \in Runs : WF_vars(Run(r))

-----------------------------------------------------------------------------
Steps == {"idle", "keys", "read", "write", "clear", "save", "ok", "failed"}
Sheets == [Places -> Cells]

\* Types of the database, the sheet, the settings and the runs.
TypeOK ==
    /\ db \in Snapshots /\ sheet \in Sheets /\ saved \subseteq Keys
    /\ pc \in [Runs -> Steps] /\ mode \in [Runs -> Modes \cup {None}]
    /\ snap \in [Runs -> Snapshots] /\ prev \in [Runs -> SUBSET Keys]
    /\ read \in [Runs -> Sheets]
    /\ \A r \in Runs : touched[r] \in [DOMAIN touched[r] -> Cells] /\ DOMAIN touched[r] \subseteq Places
    /\ last \in Snapshots

Shows(d) == \A id \in Rows(d) : \E i \in Places : sheet[i] = Cell(d, id)

\* The rows of the last write stand in the sheet, all of them, whatever failed
\* or was cut off since: a sheet is never left empty or half written ("avval
\* yozamiz, keyin tozalaymiz").
LastExportShown == Shows(last)

Unique(s, n) ==
    \A i, j \in 1..n : s[i].key \in Keys \ {None} /\ s[i].key = s[j].key => i = j

\* An upsert of a block without duplicates makes none in the rows it planned,
\* and leaves no row there that an earlier export wrote and the query no longer
\* selects.
UpsertClean ==
    \A r \in Runs : pc[r] \in {"save", "ok"} /\ mode[r] = "upsert" =>
        LET end == BlockEnd(read[r])
        IN  Unique(read[r], end) =>
            /\ Unique(sheet, end + Cardinality(News(Plan(read[r]), snap[r])))
            /\ \A i \in 1..end : sheet[i].key \in prev[r] => sheet[i].key \in KeysIn(snap[r])

\* A replace that ended well leaves its rows in their order and, below them,
\* only what was entered by hand since.
ReplaceExact ==
    \A r \in Runs : pc[r] = "ok" /\ mode[r] = "replace" =>
        LET n == Cardinality(Rows(snap[r]))
        IN  /\ \A id \in Rows(snap[r]) : sheet[Rank(Rows(snap[r]), id)] = Cell(snap[r], id)
            /\ \A i \in Places : i > n => sheet[i] \in {Blank, HandRow}

\* An upsert leaves alone the hand-made rows among the payments it read.
HandInBlockKept ==
    [][\A r \in Runs : pc[r] = "write" /\ mode[r] = "upsert" =>
        \A i \in 1..BlockEnd(read[r]) : read[r][i] = HandRow /\ sheet[i] = HandRow => sheet'[i] = HandRow]_vars

\* Once the payments stop changing the sheet shows them, with their values.
SheetCatchesUp == <>[]Shows(db)
=============================================================================
