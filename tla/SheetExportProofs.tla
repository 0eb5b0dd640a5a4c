------------------------- MODULE SheetExportProofs -------------------------
(***************************************************************************)
(* The theorems of SheetExport, for any sheet, query, keys and number of   *)
(* runs.  Three hypotheses are named where a theorem needs them:           *)
(*   KeyedOnce  the key field tells rows apart (keyField is configured;    *)
(*              two rows with one key would share a row of the sheet);     *)
(*   Room       the sheet of the model, Height rows, holds the query;      *)
(*   Alone      one run at a time; Apart: that, or no run replaces.        *)
(* The proof of SheetTyped needs none of them.                             *)
(***************************************************************************)
EXTENDS SheetExport, FiniteSetTheorems, TLAPS

-----------------------------------------------------------------------------
(* Rank counts a finite set of numbers off: it is a bijection to 1..n, and    *)
(* so such a set has a Max and a Min                                          *)

LEMMA RankIn ==
  ASSUME NEW S \in SUBSET Nat, IsFiniteSet(S), NEW id \in S
  PROVE  Rank(S, id) \in 1..Cardinality(S)
<1> DEFINE B == {j \in S : j <= id}
<1>1. IsFiniteSet(B) /\ Cardinality(B) <= Cardinality(S) BY FS_Subset
<1>2. B # {} OBVIOUS
<1>3. Cardinality(B) # 0 BY <1>1, <1>2, FS_EmptySet
<1>4. Cardinality(B) \in Nat /\ Cardinality(S) \in Nat BY <1>1, FS_CardinalityType
<1> QED BY <1>1, <1>3, <1>4 DEF Rank

LEMMA RankOne ==
  ASSUME NEW S \in SUBSET Nat, IsFiniteSet(S), NEW i \in S, NEW j \in S,
         Rank(S, i) = Rank(S, j)
  PROVE  i = j
<1>1. S \subseteq Nat OBVIOUS
<1>2. ASSUME NEW x \in S, NEW y \in S, x < y, Rank(S, x) = Rank(S, y) PROVE FALSE
  <2> DEFINE A == {k \in S : k <= x}
             B == {k \in S : k <= y}
  <2>1. IsFiniteSet(B) BY FS_Subset
  <2>2. A \in SUBSET B
    <3> SUFFICES ASSUME NEW k \in S, k <= x PROVE k <= y OBVIOUS
    <3> QED BY <1>1, <1>2
  <2>3. Cardinality(B) = Cardinality(A) BY <1>2 DEF Rank
  <2>4. B = A BY <2>1, <2>2, <2>3, FS_Subset
  <2>5. y \in B /\ y \notin A BY <1>1, <1>2
  <2> QED BY <2>4, <2>5
<1> QED BY <1>1, <1>2

LEMMA RankOnto ==
  ASSUME NEW S \in SUBSET Nat, IsFiniteSet(S), NEW n \in 1..Cardinality(S)
  PROVE  \E id \in S : Rank(S, id) = n
<1> DEFINE f == [id \in S |-> Rank(S, id)]
           T == 1..Cardinality(S)
<1>1. Cardinality(S) \in Nat BY FS_CardinalityType
<1>2. IsFiniteSet(T) /\ Cardinality(T) = Cardinality(S) BY <1>1, FS_Interval
<1>3. f \in [S -> T] BY RankIn
<1>4. f \in Injection(S, T) BY <1>3, RankOne DEF Injection, IsInjective
<1>5. f \in Surjection(S, T) BY <1>2, <1>4, FS_Injection
<1> QED BY <1>5 DEF Surjection

LEMMA MaxIs ==
  ASSUME NEW S \in SUBSET Nat, IsFiniteSet(S), S # {}
  PROVE  Max(S) \in S /\ \A y \in S : Max(S) >= y
<1>1. Cardinality(S) \in Nat /\ Cardinality(S) # 0 BY FS_CardinalityType, FS_EmptySet
<1>2. PICK id \in S : Rank(S, id) = Cardinality(S) BY <1>1, RankOnto
<1>3. {j \in S : j <= id} = S BY <1>2, FS_Subset DEF Rank
<1>4. \A y \in S : id >= y BY <1>3
<1> QED BY <1>4 DEF Max

LEMMA MinIs ==
  ASSUME NEW S \in SUBSET Nat, IsFiniteSet(S), S # {}
  PROVE  Min(S) \in S /\ \A y \in S : Min(S) <= y
<1>1. Cardinality(S) \in Nat /\ Cardinality(S) # 0 BY FS_CardinalityType, FS_EmptySet
<1>2. PICK id \in S : Rank(S, id) = 1 BY <1>1, RankOnto
<1>3. ASSUME NEW y \in S PROVE id <= y
  <2> DEFINE B == {j \in S : j <= id}
  <2>1. IsFiniteSet(B) /\ Cardinality(B) = 1 BY <1>2, FS_Subset DEF Rank
  <2>2. PICK x : B = {x} BY <2>1, FS_Singleton
  <2>3. id \in B OBVIOUS
  <2> QED BY <2>2, <2>3
<1> QED BY <1>3 DEF Min

-----------------------------------------------------------------------------
(* Types *)

LEMMA CellTypes ==
  /\ Blank \in Cells /\ HandRow \in Cells
  /\ EmptySheet \in Sheets /\ Nothing \in Snapshots
  /\ \A d \in Snapshots : \A id \in Ids : Cell(d, id) \in Cells
BY DEF Blank, HandRow, Cells, EmptySheet, Sheets, Nothing, Snapshots, Cell, Keys

LEMMA RowsFinite ==
  ASSUME NEW d
  PROVE  \A S \in SUBSET Rows(d) : S \in SUBSET Ids /\ S \in SUBSET Nat /\ IsFiniteSet(S)
<1>1. Rows(d) \subseteq Ids BY DEF Rows
<1> QED BY <1>1, FS_Subset, SheetAssumption

\* Where planUpsertRows sends the payments.
Landing(s, d) == {Place(Plan(s), d, id) : id \in Rows(d)}

\* The batch: the cells of payments first, blanks for stale rows elsewhere.
LEMMA TouchedAt ==
  ASSUME NEW s, NEW d, NEW keys
  PROVE  /\ \A i \in Landing(s, d) :
               \E id \in Rows(d) : Place(Plan(s), d, id) = i /\ Touched(s, d, keys)[i] = Cell(d, id)
         /\ \A i \in Stale(Plan(s), d, keys) \ Landing(s, d) : Touched(s, d, keys)[i] = Blank
<1> DEFINE p == Plan(s)
           W == Landing(s, d)
           t == Touched(s, d, keys)
           At(i) == {id \in Rows(d) : Place(p, d, id) = i}
           place == [id \in Rows(d) |-> Place(p, d, id)]
           written == {place[id] : id \in Rows(d)}
<1>1. written = W BY DEF Landing
<1>2. \A i : {id \in Rows(d) : place[id] = i} = At(i) OBVIOUS
<1>3. t = [i \in W \cup Stale(p, d, keys) |->
             IF i \in W THEN Cell(d, Max(At(i))) ELSE Blank]
  BY <1>1, <1>2, Zenon DEF Touched
<1>4. ASSUME NEW i \in W PROVE Max(At(i)) \in At(i)
  <2>1. At(i) # {} /\ At(i) \in SUBSET Rows(d) BY DEF Landing
  <2> QED BY <2>1, RowsFinite, MaxIs
<1> HIDE DEF p, t, W
<1>5. ASSUME NEW i \in W
      PROVE  \E id \in Rows(d) : Place(p, d, id) = i /\ t[i] = Cell(d, id)
  <2>1. t[i] = Cell(d, Max(At(i))) BY <1>3
  <2> QED BY <1>4, <2>1
<1>6. \A i \in Stale(p, d, keys) \ W : t[i] = Blank BY <1>3
<1> QED BY <1>5, <1>6 DEF p, t, W

LEMMA TouchedWhere ==
  ASSUME NEW s, NEW d, NEW keys
  PROVE  DOMAIN Touched(s, d, keys) = Landing(s, d) \cup Stale(Plan(s), d, keys)
<1> DEFINE p == Plan(s)
           place == [id \in Rows(d) |-> Place(p, d, id)]
           written == {place[id] : id \in Rows(d)}
<1>1. written = Landing(s, d) BY DEF Landing
<1>2. DOMAIN Touched(s, d, keys) = written \cup Stale(p, d, keys) BY Zenon DEF Touched
<1> QED BY <1>1, <1>2

LEMMA TouchedType ==
  ASSUME NEW s, NEW d \in Snapshots, NEW keys
  PROVE  Touched(s, d, keys) \in [DOMAIN Touched(s, d, keys) -> Cells]
<1> DEFINE t == Touched(s, d, keys)
<1>1. Rows(d) \subseteq Ids BY DEF Rows
<1>2. t = [i \in DOMAIN t |-> t[i]]
  <2>1. PICK f, D : t = [i \in D |-> f[i]]
    <3> DEFINE p == Plan(s)
               place == [id \in Rows(d) |-> Place(p, d, id)]
               written == {place[id] : id \in Rows(d)}
               D == written \cup Stale(p, d, keys)
               f == [i \in D |-> IF i \in written THEN Cell(d, Max({id \in Rows(d) : place[id] = i}))
                                 ELSE Blank]
    <3>1. t = f BY Zenon DEF Touched
    <3>2. f = [i \in D |-> f[i]] OBVIOUS
    <3> HIDE DEF t, f, D
    <3> QED BY <3>1, <3>2
  <2> HIDE DEF t
  <2> QED BY <2>1
<1>3. ASSUME NEW i \in DOMAIN t PROVE t[i] \in Cells
  <2>1. DOMAIN t = Landing(s, d) \cup Stale(Plan(s), d, keys) BY TouchedWhere
  <2>2. \A j \in Landing(s, d) : \E id \in Rows(d) : t[j] = Cell(d, id) BY TouchedAt
  <2>3. \A j \in Stale(Plan(s), d, keys) \ Landing(s, d) : t[j] = Blank BY TouchedAt
  <2> HIDE DEF t
  <2> QED BY <1>1, <1>3, <2>1, <2>2, <2>3, CellTypes
<1> HIDE DEF t
<1>4. t \in [DOMAIN t -> Cells] BY <1>2, <1>3
<1> QED BY <1>4 DEF t

LEMMA SheetTypes ==
  ASSUME NEW s \in Sheets, NEW d \in Snapshots
  PROVE  /\ Replaced(s, d) \in Sheets /\ Cleared(s, d) \in Sheets
         /\ \A D \in SUBSET Places : \A t \in [D -> Cells] : Upserted(s, t) \in Sheets
<1>1. Rows(d) \subseteq Ids BY DEF Rows
<1>2. Replaced(s, d) \in Sheets
  <2>1. ASSUME NEW i \in Places, \E id \in Rows(d) : Rank(Rows(d), id) = i
        PROVE  (CHOOSE id \in Rows(d) : Rank(Rows(d), id) = i) \in Ids
    BY <1>1, <2>1
  <2> QED BY <2>1, CellTypes DEF Replaced, Sheets
<1>3. Cleared(s, d) \in Sheets BY CellTypes DEF Cleared, Sheets
<1>4. \A D \in SUBSET Places : \A t \in [D -> Cells] : Upserted(s, t) \in Sheets
  BY DEF Upserted, Sheets
<1> QED BY <1>2, <1>3, <1>4

Batches == UNION {[D -> Cells] : D \in SUBSET Places}

LEMMA BatchIs ==
  /\ <<>> \in Batches
  /\ \A t : t \in Batches <=> DOMAIN t \subseteq Places /\ t \in [DOMAIN t -> Cells]
BY DEF Batches

\* TypeOK, with the batches as functions on the runs and the mode of a run.
TypeInv ==
  /\ TypeOK /\ touched \in [Runs -> Batches]
  /\ \A r \in Runs : /\ pc[r] # "idle" => mode[r] \in Modes
                     /\ pc[r] = "clear" => mode[r] = "replace"

LEMMA TypeInit == Init => TypeInv
<1> SUFFICES ASSUME Init PROVE TypeInv OBVIOUS
<1> USE CellTypes DEF Init
<1>1. sheet \in Sheets
  BY SheetBefore DEF Sheets
<1>2. touched \in [Runs -> Batches] BY BatchIs
<1>7. \A r \in Runs : touched[r] \in [DOMAIN touched[r] -> Cells] /\ DOMAIN touched[r] \subseteq Places
  BY <1>2, BatchIs
<1>3. \A r \in Runs : pc[r] = "idle" OBVIOUS
<1>4. read \in [Runs -> Sheets] /\ snap \in [Runs -> Snapshots] OBVIOUS
<1>5. db \in Snapshots /\ saved \subseteq Keys /\ last \in Snapshots OBVIOUS
<1>6. pc \in [Runs -> Steps] /\ mode \in [Runs -> Modes \cup {None}] /\ prev \in [Runs -> SUBSET Keys]
  BY DEF Steps
<1> QED BY <1>1, <1>2, <1>3, <1>4, <1>5, <1>6, <1>7 DEF TypeInv, TypeOK

LEMMA TypeStep == TypeInv /\ [Next]_vars => TypeInv'
<1> SUFFICES ASSUME TypeInv, [Next]_vars PROVE TypeInv' OBVIOUS
<1> USE DEF TypeInv, TypeOK
<1>1. ASSUME NEW r \in Runs, Fetch(r) PROVE TypeInv'
  BY <1>1 DEF Fetch, Go, Steps, setup, plan
<1>2. ASSUME NEW r \in Runs, LoadKeys(r) PROVE TypeInv'
  BY <1>2 DEF LoadKeys, Go, Steps, Spend, setup, plan
<1>3. ASSUME NEW r \in Runs, ReadSheet(r) PROVE TypeInv'
  <2>1. ASSUME touched'[r] = Touched(sheet, snap[r], prev[r]), DOMAIN touched'[r] \subseteq Places
        PROVE  touched'[r] \in Batches
    BY <2>1, TouchedType, BatchIs
  <2>2. touched' \in [Runs -> Batches] BY <1>3, <2>1 DEF ReadSheet, plan
  <2>3. \A q \in Runs : touched'[q] \in [DOMAIN touched'[q] -> Cells] /\ DOMAIN touched'[q] \subseteq Places
    BY <2>2, BatchIs
  <2> QED BY <1>3, <2>2, <2>3 DEF ReadSheet, Go, Steps, Spend, setup, plan
<1>4. ASSUME NEW r \in Runs, Write(r) PROVE TypeInv'
  <2>1. Replaced(sheet, snap[r]) \in Sheets /\ Upserted(sheet, touched[r]) \in Sheets
    BY SheetTypes, BatchIs
  <2>2. mode[r] # "upsert" => mode[r] = "replace" BY <1>4, SheetAssumption DEF Write
  <2> QED BY <1>4, <2>1, <2>2 DEF Write, Written, Go, Steps, Spend, setup, plan
<1>5. ASSUME NEW r \in Runs, Clear(r) PROVE TypeInv'
  <2>1. Cleared(sheet, snap[r]) \in Sheets BY SheetTypes
  <2> QED BY <1>5, <2>1 DEF Clear, Go, Steps, Spend, setup, plan
<1>6. ASSUME NEW r \in Runs, Save(r) PROVE TypeInv'
  <2>1. KeysIn(snap[r]) \ {None} \subseteq Keys BY DEF KeysIn, Rows, Keys
  <2> QED BY <1>6, <2>1 DEF Save, Go, Steps, Spend, setup, plan
<1>7. ASSUME NEW r \in Runs, Log(r) PROVE TypeInv'
  BY <1>7, CellTypes, BatchIs DEF Log, Go, Steps
<1>8. ASSUME Restart PROVE TypeInv'
  BY <1>8, CellTypes, BatchIs DEF Restart, Spend, Steps
<1>9. ASSUME HandAdd PROVE TypeInv'
  BY <1>9, CellTypes DEF HandAdd, Spend, setup, plan, Sheets
<1>10. ASSUME NEW id \in Ids, Change(id) PROVE TypeInv'
  BY <1>10 DEF Change, Spend, setup, plan, Snapshots
<1>11. ASSUME UNCHANGED vars PROVE TypeInv'
  BY <1>11 DEF vars, setup, plan
<1> QED BY <1>1, <1>2, <1>3, <1>4, <1>5, <1>6, <1>7, <1>8, <1>9, <1>10, <1>11
        DEF Next, Run

\* Types, for any number of runs: what run, upsertRows, batchUpdate and
\* batchClear leave in the sheet are rows with a key and a payment or blank, and
\* a batch never points outside the sheet.
THEOREM SheetTyped == Spec => []TypeOK
<1>1. TypeInv => TypeOK BY DEF TypeInv
<1> QED BY <1>1, TypeInit, TypeStep, PTL DEF Spec

-----------------------------------------------------------------------------
(* What planUpsertRows promises about the sheet it read *)

\* anchorLen is a row of the sheet, or 0.
LEMMA BlockEndIn == ASSUME NEW s PROVE BlockEnd(s) \in 0..Height
<1> DEFINE paid == Paid(s)
           Reached == {i \in paid : \A j \in paid :
                         j < i => \E k \in paid : j < k /\ k <= i /\ k <= j + GapLimit + 1}
<1>1. Reached \in SUBSET Places BY DEF Paid
<1>2. IsFiniteSet(Places) /\ Places \subseteq Nat /\ Height \in Nat
  BY FS_Interval, SheetAssumption DEF Places
<1>3. Reached \in SUBSET Nat /\ IsFiniteSet(Reached) BY <1>1, <1>2, FS_Subset
<1>4. BlockEnd(s) = IF Reached = {} THEN 0 ELSE Max(Reached) BY Zenon DEF BlockEnd
<1> HIDE DEF Reached
<1>5. CASE Reached = {} BY <1>2, <1>4, <1>5
<1>6. CASE Reached # {}
  <2>1. Max(Reached) \in Places BY <1>1, <1>3, <1>6, MaxIs
  <2> QED BY <1>2, <1>4, <1>6, <2>1 DEF Places
<1> QED BY <1>5, <1>6

\* keyToIdx names a row of the block that carries the key, and is 0 only for
\* a key the block lacks.
LEMMA PlanIs ==
  ASSUME NEW s, NEW k \in Keys
  PROVE  /\ Plan(s).anchorLen = BlockEnd(s)
         /\ Plan(s).keyToIdx[k] \in 0..BlockEnd(s)
         /\ Plan(s).keyToIdx[k] # 0 => k # None /\ s[Plan(s).keyToIdx[k]].key = k
         /\ Plan(s).keyToIdx[k] = 0 => k = None \/ \A i \in 1..BlockEnd(s) : s[i].key # k
<1> DEFINE end == BlockEnd(s)
           At(x) == {i \in 1..end : s[i].key = x}
           at == [x \in Keys |-> IF x = None \/ At(x) = {} THEN 0 ELSE Min(At(x))]
<1>1. Plan(s) = [anchorLen |-> end, keyToIdx |-> at] BY Zenon DEF Plan
<1>2. end \in Nat /\ IsFiniteSet(1..end) /\ 1..end \subseteq Nat
  BY BlockEndIn, FS_Interval, SheetAssumption
<1>3. At(k) \in SUBSET (1..end) OBVIOUS
<1>4. At(k) \in SUBSET Nat /\ IsFiniteSet(At(k)) BY <1>2, <1>3, FS_Subset
<1>5. at[k] = IF k = None \/ At(k) = {} THEN 0 ELSE Min(At(k)) OBVIOUS
<1>6. Plan(s).anchorLen = end /\ Plan(s).keyToIdx[k] = at[k]
  <2> HIDE DEF at, end
  <2> QED BY <1>1
<1> HIDE DEF at, end
<1>7. CASE k = None \/ At(k) = {} BY <1>2, <1>5, <1>6, <1>7 DEF end
<1>8. CASE k # None /\ At(k) # {}
  <2>1. Min(At(k)) \in At(k) BY <1>4, <1>8, MinIs
  <2>2. at[k] \in 1..end /\ s[at[k]].key = k BY <1>5, <1>8, <2>1
  <2> QED BY <1>2, <1>6, <1>8, <2>2 DEF end
<1> QED BY <1>7, <1>8

\* The new rows are numbered from 1.
LEMMA NewsIn ==
  ASSUME NEW p, NEW d, NEW id \in News(p, d)
  PROVE  /\ News(p, d) \in SUBSET Nat /\ IsFiniteSet(News(p, d))
         /\ Rank(News(p, d), id) \in 1..Cardinality(News(p, d))
<1>1. News(p, d) \in SUBSET Rows(d) BY DEF News
<1>2. News(p, d) \in SUBSET Nat /\ IsFiniteSet(News(p, d)) BY <1>1, RowsFinite
<1> QED BY <1>2, RankIn

\* A new row goes below the block, a known one over the row with its key.
LEMMA PlaceIs ==
  ASSUME NEW s, NEW d, NEW id \in Rows(d)
  PROVE  LET p == Plan(s)
             i == Place(p, d, id)
         IN  /\ id \in News(p, d) => /\ i = BlockEnd(s) + Rank(News(p, d), id)
                                     /\ i \in Nat /\ i > BlockEnd(s)
             /\ id \notin News(p, d) => /\ i \in 1..BlockEnd(s) /\ i = p.keyToIdx[KeyOf[id]]
                                        /\ KeyOf[id] # None /\ s[i].key = KeyOf[id]
<1> DEFINE p == Plan(s)
<1>1. id \in Ids /\ KeyOf[id] \in Keys BY DEF Rows, Keys
<1>2. p.anchorLen = BlockEnd(s) BY <1>1, PlanIs
<1>3. BlockEnd(s) \in Nat BY BlockEndIn, SheetAssumption
<1>4. id \in News(p, d) => Rank(News(p, d), id) \in Nat /\ Rank(News(p, d), id) > 0
  BY NewsIn
<1>5. id \notin News(p, d) => p.keyToIdx[KeyOf[id]] # 0 BY DEF News
<1>6. ASSUME id \notin News(p, d)
      PROVE  /\ p.keyToIdx[KeyOf[id]] \in 1..BlockEnd(s) /\ KeyOf[id] # None
             /\ s[p.keyToIdx[KeyOf[id]]].key = KeyOf[id]
  <2>1. p.keyToIdx[KeyOf[id]] # 0 BY <1>5, <1>6
  <2> QED BY <1>1, <1>3, <2>1, PlanIs
<1> HIDE DEF p
<1>7. id \in News(p, d) => Place(p, d, id) = BlockEnd(s) + Rank(News(p, d), id)
  BY <1>2 DEF Place
<1>8. id \notin News(p, d) => Place(p, d, id) = p.keyToIdx[KeyOf[id]] BY DEF Place
<1> QED BY <1>3, <1>4, <1>6, <1>7, <1>8 DEF p

\* The key field tells rows apart; rows without a key are always new.
KeyedOnce == \A a, b \in Ids : KeyOf[a] = KeyOf[b] => a = b \/ KeyOf[a] = None

\* No two rows of the database are sent to one row of the sheet.
LEMMA PlaceOne ==
  ASSUME KeyedOnce, NEW s, NEW d, NEW a \in Rows(d), NEW b \in Rows(d),
         Place(Plan(s), d, a) = Place(Plan(s), d, b)
  PROVE  a = b
<1> DEFINE p == Plan(s)
<1>1. a \in Ids /\ b \in Ids BY DEF Rows
<1>2. BlockEnd(s) \in Nat BY BlockEndIn, SheetAssumption
<1>3. CASE a \in News(p, d) /\ b \in News(p, d)
  <2>1. Rank(News(p, d), a) \in Nat /\ Rank(News(p, d), b) \in Nat BY <1>3, NewsIn
  <2>2. Rank(News(p, d), a) = Rank(News(p, d), b) BY <1>2, <1>3, <2>1, PlaceIs
  <2> QED BY <1>3, <2>2, NewsIn, RankOne
<1>4. CASE a \notin News(p, d) /\ b \notin News(p, d)
  <2>1. KeyOf[a] = KeyOf[b] /\ KeyOf[a] # None BY <1>4, PlaceIs
  <2> QED BY <1>1, <2>1 DEF KeyedOnce
<1>5. CASE (a \in News(p, d)) # (b \in News(p, d))
  <2>1. \A x \in Rows(d) : /\ x \in News(p, d) => Place(p, d, x) > BlockEnd(s)
                           /\ x \notin News(p, d) => Place(p, d, x) \in 1..BlockEnd(s)
    BY PlaceIs
  <2> QED BY <1>2, <1>5, <2>1
<1> QED BY <1>3, <1>4, <1>5

-----------------------------------------------------------------------------
(* What one write leaves in the sheet *)

\* A batch holds the row of every payment, at its place.
LEMMA LandedIs ==
  ASSUME KeyedOnce, NEW s, NEW d, NEW keys, NEW id \in Rows(d)
  PROVE  LET i == Place(Plan(s), d, id)
         IN  i \in DOMAIN Touched(s, d, keys) /\ Touched(s, d, keys)[i] = Cell(d, id)
<1> DEFINE i == Place(Plan(s), d, id)
<1>1. i \in Landing(s, d) BY DEF Landing
<1>2. PICK j \in Rows(d) : Place(Plan(s), d, j) = i /\ Touched(s, d, keys)[i] = Cell(d, j)
  BY <1>1, TouchedAt
<1>3. j = id BY <1>2, PlaceOne
<1>4. i \in DOMAIN Touched(s, d, keys) BY <1>1, TouchedWhere
<1> QED BY <1>2, <1>3, <1>4

\* After batchUpdate every payment has its row.
LEMMA UpsertShows ==
  ASSUME KeyedOnce, NEW now, NEW s, NEW d, NEW keys, DOMAIN Touched(s, d, keys) \subseteq Places
  PROVE  \A id \in Rows(d) : \E i \in Places : Upserted(now, Touched(s, d, keys))[i] = Cell(d, id)
<1> SUFFICES ASSUME NEW id \in Rows(d)
             PROVE  \E i \in Places : Upserted(now, Touched(s, d, keys))[i] = Cell(d, id)
  OBVIOUS
<1> DEFINE i == Place(Plan(s), d, id)
           t == Touched(s, d, keys)
<1>1. i \in DOMAIN t /\ t[i] = Cell(d, id) BY LandedIs
<1> HIDE DEF i, t
<1>2. i \in Places BY <1>1 DEF t
<1>3. Upserted(now, t)[i] = t[i] BY <1>1, <1>2 DEF Upserted
<1> QED BY <1>1, <1>2, <1>3 DEF t

\* The rows of the model's sheet suffice for the query.
Room == Cardinality(Ids) <= Height

LEMMA RowsFit ==
  ASSUME Room, NEW d
  PROVE  /\ Rows(d) \in SUBSET Nat /\ IsFiniteSet(Rows(d))
         /\ Cardinality(Rows(d)) \in 0..Height
         /\ \A id \in Rows(d) : /\ Rank(Rows(d), id) \in Places
                                /\ Rank(Rows(d), id) \in 1..Cardinality(Rows(d))
<1>1. Rows(d) \in SUBSET Ids /\ Rows(d) \in SUBSET Nat /\ IsFiniteSet(Rows(d)) BY RowsFinite
<1>2. Cardinality(Rows(d)) <= Cardinality(Ids) /\ Cardinality(Rows(d)) \in Nat
      /\ Cardinality(Ids) \in Nat
  BY <1>1, FS_Subset, FS_CardinalityType, SheetAssumption
<1>3. Cardinality(Rows(d)) \in 0..Height BY <1>2, SheetAssumption DEF Room
<1>4. \A id \in Rows(d) : Rank(Rows(d), id) \in 1..Cardinality(Rows(d)) BY <1>1, RankIn
<1>5. \A id \in Rows(d) : Rank(Rows(d), id) \in Places
  BY <1>3, <1>4, SheetAssumption DEF Places
<1> QED BY <1>1, <1>3, <1>4, <1>5

\* REPLACE: the payments in their order, and below them nothing but hand rows.
Stands(now, d) == \A id \in Rows(d) : now[Rank(Rows(d), id)] = Cell(d, id)
Ends(now, d) == \A i \in Places : i > Cardinality(Rows(d)) => now[i] \in {Blank, HandRow}

\* values.update of REPLACE.
LEMMA ReplaceStands ==
  ASSUME Room, NEW now, NEW d
  PROVE  Stands(Replaced(now, d), d)
<1> SUFFICES ASSUME NEW id \in Rows(d)
             PROVE  Replaced(now, d)[Rank(Rows(d), id)] = Cell(d, id)
  BY DEF Stands
<1> DEFINE i == Rank(Rows(d), id)
           c == CHOOSE x \in Rows(d) : Rank(Rows(d), x) = i
<1>1. i \in Places BY RowsFit
<1>2. c \in Rows(d) /\ Rank(Rows(d), c) = Rank(Rows(d), id) OBVIOUS
<1>3. c = id BY <1>2, RowsFit, RankOne
<1>4. Replaced(now, d)[i] = Cell(d, c) BY <1>1 DEF Replaced
<1> QED BY <1>3, <1>4

\* values.batchClear spares the rows just written.
LEMMA ClearStands ==
  ASSUME Room, NEW now, NEW d, Stands(now, d)
  PROVE  Stands(Cleared(now, d), d) /\ Ends(Cleared(now, d), d)
<1>1. ASSUME NEW i \in Places
      PROVE  Cleared(now, d)[i] = IF i > Cardinality(Rows(d)) THEN Blank ELSE now[i]
  <2>1. i \in Int /\ Cardinality(Rows(d)) \in Int BY RowsFit DEF Places
  <2> QED BY <2>1 DEF Cleared, Tail
<1>2. Ends(Cleared(now, d), d) BY <1>1 DEF Ends
<1>3. ASSUME NEW id \in Rows(d) PROVE Cleared(now, d)[Rank(Rows(d), id)] = Cell(d, id)
  <2>1. Rank(Rows(d), id) \in Places /\ ~(Rank(Rows(d), id) > Cardinality(Rows(d)))
    BY RowsFit
  <2> QED BY <1>1, <2>1 DEF Stands
<1> QED BY <1>2, <1>3 DEF Stands

LEMMA StandsShows ==
  ASSUME Room, NEW now, NEW d, Stands(now, d)
  PROVE  \A id \in Rows(d) : \E i \in Places : now[i] = Cell(d, id)
BY RowsFit DEF Stands

\* A row by hand takes an empty place: it covers no payment.
LEMMA HandAddKeeps ==
  ASSUME TypeInv, HandAdd, NEW i \in Places
  PROVE  \/ sheet'[i] = sheet[i]
         \/ sheet[i] = Blank /\ sheet'[i] = HandRow
BY DEF TypeInv, TypeOK, Sheets, HandAdd

LEMMA CellNotBlank ==
  ASSUME NEW d, NEW id \in Rows(d)
  PROVE  Cell(d, id) # Blank
BY DEF Cell, Blank, Rows

-----------------------------------------------------------------------------
(* The sheet is never left without the rows of the last write *)

\* One run at a time, or at least none that writes from startRow on and clears.
Alone == \A r, q \in Runs : r = q
Apart == Alone \/ "replace" \notin Modes

\* What a run relies on between two calls: an upsert writes what it planned on
\* the sheet it read, and a REPLACE clears below the rows it wrote last.
ShowInv ==
  \A r \in Runs :
    /\ pc[r] = "write" /\ mode[r] = "upsert" => touched[r] = Touched(read[r], snap[r], prev[r])
    /\ pc[r] = "clear" => last = snap[r]
    /\ pc[r] \in {"clear", "save", "ok"} /\ mode[r] = "replace" => Stands(sheet, snap[r])
    /\ pc[r] \in {"save", "ok"} /\ mode[r] = "replace" => Ends(sheet, snap[r])

\* The rows of the last write stand, if the key tells rows apart.
Shown == KeyedOnce => LastExportShown

LEMMA ShowInit == Init => Shown /\ ShowInv
BY DEF Init, Shown, LastExportShown, Shows, ShowInv, Nothing, Rows

\* Entering a row by hand.
LEMMA ShowHand ==
  ASSUME Room, TypeInv, Shown, ShowInv, HandAdd
  PROVE  Shown' /\ ShowInv'
<1>1. \A i \in Places : sheet'[i] = sheet[i] \/ (sheet[i] = Blank /\ sheet'[i] = HandRow)
  BY HandAddKeeps
<1>2. UNCHANGED <<pc, mode, snap, prev, read, touched, last>> BY DEF HandAdd, setup, plan
<1>3. ASSUME LastExportShown PROVE LastExportShown'
  <2>1. ASSUME NEW id \in Rows(last) PROVE \E i \in Places : sheet'[i] = Cell(last, id)
    <3>1. PICK i \in Places : sheet[i] = Cell(last, id) BY <1>3 DEF LastExportShown, Shows
    <3>2. sheet'[i] = sheet[i] BY <1>1, <3>1, CellNotBlank
    <3> QED BY <3>1, <3>2
  <2> QED BY <1>2, <2>1 DEF LastExportShown, Shows
<1>4. ASSUME NEW d, Stands(sheet, d) PROVE Stands(sheet', d)
  <2>1. ASSUME NEW id \in Rows(d) PROVE sheet'[Rank(Rows(d), id)] = Cell(d, id)
    BY <1>1, <1>4, RowsFit, CellNotBlank DEF Stands
  <2> QED BY <2>1 DEF Stands
<1>5. ASSUME NEW d, Ends(sheet, d) PROVE Ends(sheet', d)
  BY <1>1, <1>5 DEF Ends
<1> QED BY <1>2, <1>3, <1>4, <1>5 DEF Shown, ShowInv

\* A write that reaches the sheet.
LEMMA ShowWritten ==
  ASSUME Room, TypeInv, ShowInv, NEW r \in Runs, pc[r] = "write", Written(r)
  PROVE  /\ KeyedOnce => \A id \in Rows(snap[r]) : \E i \in Places : sheet'[i] = Cell(snap[r], id)
         /\ mode[r] = "replace" => Stands(sheet', snap[r])
<1>1. mode[r] \in {"upsert", "replace"} BY SheetAssumption DEF TypeInv
<1>2. CASE mode[r] = "upsert"
  <2>1. touched[r] = Touched(read[r], snap[r], prev[r]) BY <1>2 DEF ShowInv
  <2>2. DOMAIN touched[r] \subseteq Places BY DEF TypeInv, TypeOK
  <2>3. sheet' = Upserted(sheet, touched[r]) BY <1>2 DEF Written
  <2> QED BY <1>2, <2>1, <2>2, <2>3, UpsertShows
<1>3. CASE mode[r] = "replace"
  <2>1. sheet' = Replaced(sheet, snap[r]) BY <1>3 DEF Written
  <2>2. Stands(sheet', snap[r]) BY <2>1, ReplaceStands
  <2> QED BY <2>2, StandsShows
<1> QED BY <1>1, <1>2, <1>3

\* A write, answered or not.
LEMMA ShowWrite ==
  ASSUME Room, Apart, TypeInv, Shown, ShowInv, NEW r \in Runs, Write(r)
  PROVE  Shown' /\ ShowInv'
<1>1. UNCHANGED <<mode, snap, prev, read, touched>> /\ pc[r] = "write"
  BY DEF Write, setup, plan
<1>2. mode[r] \in Modes /\ mode[r] \in {"upsert", "replace"}
  BY <1>1, SheetAssumption DEF TypeInv
<1>3. pc \in [Runs -> Steps] BY DEF TypeInv, TypeOK
<1>4. \A q \in Runs \ {r} : pc'[q] = pc[q] BY <1>3 DEF Write, Go
<1>5. \A q \in Runs \ {r} : pc[q] = "idle" \/ mode[q] # "replace"
  BY DEF Apart, Alone, TypeInv
<1>6. \A q \in Runs \ {r} : pc[q] # "clear" BY <1>5 DEF TypeInv
<1>7. CASE Written(r)
  <2>1. /\ KeyedOnce => \A id \in Rows(snap[r]) : \E i \in Places : sheet'[i] = Cell(snap[r], id)
        /\ mode[r] = "replace" => Stands(sheet', snap[r])
    BY <1>1, <1>7, ShowWritten
  <2>2. last' = snap[r] BY <1>7 DEF Written
  <2>3. Shown' BY <2>1, <2>2 DEF Shown, LastExportShown, Shows
  <2>4. \/ pc'[r] \in {"write", "failed"}
        \/ pc'[r] = "save" /\ mode[r] = "upsert"
        \/ pc'[r] = "clear" /\ mode[r] = "replace"
    BY <1>1, <1>2, <1>3 DEF Write, Go
  <2>5. ShowInv'
    BY <1>1, <1>2, <1>4, <1>5, <1>6, <2>1, <2>2, <2>4 DEF ShowInv
  <2> QED BY <2>3, <2>5
<1>8. CASE UNCHANGED <<sheet, last>> /\ pc'[r] \in {"write", "failed"}
  BY <1>1, <1>2, <1>4, <1>8 DEF Shown, LastExportShown, Shows, ShowInv
<1>9. Written(r) \/ (UNCHANGED <<sheet, last>> /\ pc'[r] \in {"write", "failed"})
  BY <1>1, <1>3 DEF Write, Go
<1> QED BY <1>7, <1>8, <1>9

\* The clear of a REPLACE, answered or not.
LEMMA ShowClear ==
  ASSUME Room, Apart, TypeInv, Shown, ShowInv, NEW r \in Runs, Clear(r)
  PROVE  Shown' /\ ShowInv'
<1>1. /\ UNCHANGED <<mode, snap, prev, read, touched, last>> /\ pc[r] = "clear"
      /\ mode[r] = "replace" /\ last = snap[r] /\ Stands(sheet, snap[r])
  BY DEF Clear, setup, plan, ShowInv, TypeInv
<1>2. \A q \in Runs : q = r BY <1>1 DEF Apart, Alone, TypeInv
<1>3. sheet' = Cleared(sheet, snap[r]) => Stands(sheet', snap[r]) /\ Ends(sheet', snap[r])
  BY <1>1, ClearStands
<1>4. Stands(sheet', snap[r]) BY <1>1, <1>3 DEF Clear
<1>5. pc'[r] = "save" => Ends(sheet', snap[r])
  BY <1>1, <1>3 DEF Clear, Go, TypeInv, TypeOK
<1>6. pc'[r] \in {"clear", "save", "failed"} BY <1>1 DEF Clear, Go, TypeInv, TypeOK
<1>7. Shown' BY <1>1, <1>4, StandsShows DEF Shown, LastExportShown, Shows
<1>8. ShowInv' BY <1>1, <1>2, <1>4, <1>5, <1>6 DEF ShowInv
<1> QED BY <1>7, <1>8

\* Every step keeps the rows of the last write.
LEMMA ShowStep ==
  ASSUME Room, Apart
  PROVE  TypeInv /\ Shown /\ ShowInv /\ [Next]_vars => Shown' /\ ShowInv'
<1> SUFFICES ASSUME TypeInv, Shown, ShowInv, [Next]_vars
             PROVE  Shown' /\ ShowInv'
  OBVIOUS
<1> USE DEF Shown, LastExportShown, Shows, ShowInv, TypeInv, TypeOK, Go, setup, plan
<1>1. ASSUME NEW r \in Runs, Fetch(r) PROVE Shown' /\ ShowInv'
  BY <1>1 DEF Fetch
<1>2. ASSUME NEW r \in Runs, LoadKeys(r) PROVE Shown' /\ ShowInv'
  BY <1>2 DEF LoadKeys
<1>3. ASSUME NEW r \in Runs, ReadSheet(r) PROVE Shown' /\ ShowInv'
  BY <1>3 DEF ReadSheet
<1>4. ASSUME NEW r \in Runs, Write(r) PROVE Shown' /\ ShowInv'
  BY <1>4, ShowWrite
<1>5. ASSUME NEW r \in Runs, Clear(r) PROVE Shown' /\ ShowInv'
  BY <1>5, ShowClear
<1>6. ASSUME NEW r \in Runs, Save(r) PROVE Shown' /\ ShowInv'
  BY <1>6 DEF Save
<1>7. ASSUME NEW r \in Runs, Log(r) PROVE Shown' /\ ShowInv'
  BY <1>7 DEF Log
<1>8. ASSUME Restart PROVE Shown' /\ ShowInv'
  BY <1>8 DEF Restart
<1>9. ASSUME HandAdd PROVE Shown' /\ ShowInv'
  BY <1>9, ShowHand
<1>10. ASSUME NEW id \in Ids, Change(id) PROVE Shown' /\ ShowInv'
  BY <1>10 DEF Change
<1>11. ASSUME UNCHANGED vars PROVE Shown' /\ ShowInv'
  BY <1>11 DEF vars
<1> QED BY <1>1, <1>2, <1>3, <1>4, <1>5, <1>6, <1>7, <1>8, <1>9, <1>10, <1>11
        DEF Next, Run

\* "Avval yozamiz, keyin tozalaymiz": whatever fails, goes unanswered or is cut
\* off by a restart after a write reached the sheet, every row of that write still
\* stands there, for any number of upserts under way together, or one run of
\* either mode.
THEOREM ExportShown ==
  ASSUME KeyedOnce, Room, Apart PROVE Spec => []LastExportShown
<1>1. TypeInv /\ Shown /\ ShowInv /\ [Next]_vars => Shown' /\ ShowInv' BY ShowStep
<1>2. Shown => LastExportShown BY DEF Shown
<1> QED BY <1>1, <1>2, TypeInit, TypeStep, ShowInit, PTL DEF Spec

LEMMA ShowExact == ShowInv => ReplaceExact
<1> SUFFICES ASSUME ShowInv, NEW r \in Runs, pc[r] = "ok", mode[r] = "replace"
             PROVE  /\ \A id \in Rows(snap[r]) :
                          sheet[Rank(Rows(snap[r]), id)] = Cell(snap[r], id)
                    /\ \A i \in Places : i > Cardinality(Rows(snap[r])) => sheet[i] \in {Blank, HandRow}
  BY Zenon DEF ReplaceExact
<1>1. Stands(sheet, snap[r]) /\ Ends(sheet, snap[r]) BY DEF ShowInv
<1> QED BY <1>1 DEF Stands, Ends

\* A REPLACE that ended well (run, after batchClear) has its rows in the order
\* of the query from startRow on, and below them only rows entered by hand since.
THEOREM ReplacedExactly ==
  ASSUME Room, Apart PROVE Spec => []ReplaceExact
<1>1. TypeInv /\ Shown /\ ShowInv /\ [Next]_vars => Shown' /\ ShowInv' BY ShowStep
<1> QED BY <1>1, TypeInit, TypeStep, ShowInit, ShowExact, PTL DEF Spec

-----------------------------------------------------------------------------
(* An upsert touches the rows it planned, and nothing else *)

\* Within the block a batch only writes over a row with the same key or blanks
\* a row an earlier export wrote.
LEMMA TouchedInBlock ==
  ASSUME NEW s, NEW d, NEW keys \in SUBSET Keys, NEW i \in DOMAIN Touched(s, d, keys),
         i \in 1..BlockEnd(s)
  PROVE  /\ s[i].key \in Keys \ {None}
         /\ \/ Touched(s, d, keys)[i] = Blank
            \/ Touched(s, d, keys)[i].key = s[i].key /\ s[i].key \in KeysIn(d)
<1>0. BlockEnd(s) \in Nat BY BlockEndIn, SheetAssumption
<1>1. CASE i \in Landing(s, d)
  <2>1. PICK id \in Rows(d) : Place(Plan(s), d, id) = i /\ Touched(s, d, keys)[i] = Cell(d, id)
    BY <1>1, TouchedAt
  <2>2. id \notin News(Plan(s), d) BY <1>0, <2>1, PlaceIs
  <2>3. KeyOf[id] # None /\ s[i].key = KeyOf[id] BY <2>1, <2>2, PlaceIs
  <2>4. KeyOf[id] \in Keys /\ KeyOf[id] \in KeysIn(d) BY DEF Keys, KeysIn, Rows
  <2> QED BY <2>1, <2>3, <2>4 DEF Cell
<1>2. CASE i \in Stale(Plan(s), d, keys) \ Landing(s, d)
  <2>1. PICK k \in keys : Plan(s).keyToIdx[k] = i BY <1>2 DEF Stale
  <2>2. k # None /\ s[i].key = k BY <1>0, <2>1, PlanIs
  <2>3. Touched(s, d, keys)[i] = Blank BY <1>2, TouchedAt
  <2> QED BY <2>2, <2>3
<1>3. DOMAIN Touched(s, d, keys) = Landing(s, d) \cup Stale(Plan(s), d, keys)
  BY TouchedWhere
<1> QED BY <1>1, <1>2, <1>3

\* Below the block a batch writes the new rows in their order.
LEMMA TouchedBelow ==
  ASSUME KeyedOnce, NEW s, NEW d, NEW keys,
         NEW n \in 1..Cardinality(News(Plan(s), d))
  PROVE  \E id \in News(Plan(s), d) :
            /\ Rank(News(Plan(s), d), id) = n
            /\ BlockEnd(s) + n \in DOMAIN Touched(s, d, keys)
            /\ Touched(s, d, keys)[BlockEnd(s) + n] = Cell(d, id)
<1> DEFINE N == News(Plan(s), d)
<1>1. N \in SUBSET Rows(d) BY DEF News
<1>2. N \in SUBSET Nat /\ IsFiniteSet(N) BY <1>1, RowsFinite
<1>3. PICK id \in N : Rank(N, id) = n BY <1>2, RankOnto
<1>4. id \in Rows(d) /\ Place(Plan(s), d, id) = BlockEnd(s) + n BY <1>1, <1>3, PlaceIs
<1> QED BY <1>3, <1>4, LandedIs

\* What the sheet holds once the batch is in: at one place one key at most.
LEMMA UpsertUnique ==
  ASSUME KeyedOnce, NEW s, NEW d, NEW keys \in SUBSET Keys,
         DOMAIN Touched(s, d, keys) \subseteq Places, Unique(s, BlockEnd(s))
  PROVE  LET u == Upserted(s, Touched(s, d, keys))
         IN  Unique(u, BlockEnd(s) + Cardinality(News(Plan(s), d)))
<1> DEFINE t == Touched(s, d, keys)
           u == Upserted(s, t)
           N == News(Plan(s), d)
           end == BlockEnd(s)
<1>1. end \in Nat /\ end <= Height /\ Height \in Nat BY BlockEndIn, SheetAssumption
<1>2. N \in SUBSET Rows(d) BY DEF News
<1>3. N \in SUBSET Nat /\ IsFiniteSet(N) /\ Cardinality(N) \in Nat
  BY <1>2, RowsFinite, FS_CardinalityType
<1>4. ASSUME NEW i \in 1..end, u[i].key \in Keys \ {None}
      PROVE  u[i].key = s[i].key
  <2>1. i \in Places BY <1>1 DEF Places
  <2>2. CASE i \in DOMAIN t
    <3>1. u[i] = t[i] BY <2>1, <2>2 DEF Upserted
    <3>2. t[i] # Blank BY <1>4, <3>1 DEF Blank
    <3> QED BY <2>2, <3>1, <3>2, TouchedInBlock
  <2>3. CASE i \notin DOMAIN t
    <3>1. u[i] = s[i] BY <2>1, <2>3 DEF Upserted
    <3> QED BY <3>1
  <2> QED BY <2>2, <2>3
<1>5. ASSUME NEW i \in (end + 1)..(end + Cardinality(N))
      PROVE  \E id \in N : Rank(N, id) = i - end /\ u[i] = Cell(d, id)
  <2>1. PICK n \in 1..Cardinality(N) : n = i - end /\ end + n = i
    <3>1. i - end \in 1..Cardinality(N) /\ end + (i - end) = i BY <1>1, <1>3
    <3> QED BY <3>1
  <2>2. PICK id \in N : Rank(N, id) = n /\ end + n \in DOMAIN t /\ t[end + n] = Cell(d, id)
    BY TouchedBelow
  <2>3. i \in DOMAIN t /\ t[i] = Cell(d, id) BY <2>1, <2>2
  <2>4. i \in Places BY <2>3
  <2>5. u[i] = t[i] BY <2>3, <2>4 DEF Upserted
  <2> HIDE DEF t, u, N, end
  <2> QED BY <2>1, <2>2, <2>3, <2>5
<1>6. \A id \in N : KeyOf[id] = None \/ \A i \in 1..end : s[i].key # KeyOf[id]
  <2> SUFFICES ASSUME NEW id \in N
               PROVE  KeyOf[id] = None \/ \A i \in 1..end : s[i].key # KeyOf[id]
    OBVIOUS
  <2>1. KeyOf[id] \in Keys /\ Plan(s).keyToIdx[KeyOf[id]] = 0
    BY <1>2 DEF News, Rows, Keys
  <2> QED BY <2>1, PlanIs
<1> HIDE DEF t, u, N
<1>7. SUFFICES ASSUME NEW i \in 1..(end + Cardinality(N)), NEW j \in 1..(end + Cardinality(N)),
                      u[i].key \in Keys \ {None}, u[i].key = u[j].key
               PROVE  i = j
  BY DEF Unique, u, t, N
<1>8. /\ i \in 1..end \/ i \in (end + 1)..(end + Cardinality(N))
      /\ j \in 1..end \/ j \in (end + 1)..(end + Cardinality(N))
  BY <1>1, <1>3
<1>9. \A id \in N : id \in Ids /\ \A x : Cell(x, id).key = KeyOf[id]
  BY <1>2 DEF Cell, Rows
<1>10. CASE i \in 1..end /\ j \in 1..end
  BY <1>4, <1>7, <1>10 DEF Unique
<1>11. CASE i \in 1..end /\ j \in (end + 1)..(end + Cardinality(N))
  <2>1. PICK id \in N : u[j] = Cell(d, id) BY <1>5, <1>11
  <2> QED BY <1>4, <1>6, <1>7, <1>9, <1>11, <2>1
<1>12. CASE j \in 1..end /\ i \in (end + 1)..(end + Cardinality(N))
  <2>1. PICK id \in N : u[i] = Cell(d, id) BY <1>5, <1>12
  <2> QED BY <1>4, <1>6, <1>7, <1>9, <1>12, <2>1
<1>13. CASE i \in (end + 1)..(end + Cardinality(N)) /\ j \in (end + 1)..(end + Cardinality(N))
  <2>1. PICK a \in N : Rank(N, a) = i - end /\ u[i] = Cell(d, a) BY <1>5, <1>13
  <2>2. PICK b \in N : Rank(N, b) = j - end /\ u[j] = Cell(d, b) BY <1>5, <1>13
  <2>3. KeyOf[a] = KeyOf[b] /\ KeyOf[a] # None BY <1>7, <1>9, <2>1, <2>2
  <2>4. a = b BY <1>9, <2>3 DEF KeyedOnce
  <2> QED BY <1>1, <1>13, <2>1, <2>2, <2>4
<1> QED BY <1>8, <1>10, <1>11, <1>12, <1>13

\* A key an earlier export wrote stays in a block without duplicates only while
\* the query selects it.
LEMMA UpsertCurrent ==
  ASSUME NEW s, NEW d, NEW keys \in SUBSET (Keys \ {None}),
         DOMAIN Touched(s, d, keys) \subseteq Places, Unique(s, BlockEnd(s)),
         NEW i \in 1..BlockEnd(s), Upserted(s, Touched(s, d, keys))[i].key \in keys
  PROVE  Upserted(s, Touched(s, d, keys))[i].key \in KeysIn(d)
<1> DEFINE t == Touched(s, d, keys)
           u == Upserted(s, t)
           end == BlockEnd(s)
           k == u[i].key
<1>1. end \in Nat /\ end <= Height /\ Height \in Nat BY BlockEndIn, SheetAssumption
<1>2. i \in Places BY <1>1 DEF Places
<1>3. k \in Keys \ {None} /\ keys \in SUBSET Keys OBVIOUS
<1> SUFFICES ASSUME k \notin KeysIn(d) PROVE FALSE OBVIOUS
<1>4. CASE i \in DOMAIN t
  <2>1. u[i] = t[i] BY <1>2, <1>4 DEF Upserted
  <2>2. t[i] # Blank BY <1>3, <2>1 DEF Blank
  <2> QED BY <1>3, <1>4, <2>1, <2>2, TouchedInBlock
<1>5. CASE i \notin DOMAIN t
  <2>1. u[i] = s[i] BY <1>2, <1>5 DEF Upserted
  <2>2. Plan(s).keyToIdx[k] # 0 BY <1>3, <2>1, PlanIs
  <2>3. /\ Plan(s).keyToIdx[k] \in 1..end
        /\ s[Plan(s).keyToIdx[k]].key = k
    BY <1>1, <1>3, <2>2, PlanIs
  <2>4. Plan(s).keyToIdx[k] = i BY <1>3, <2>1, <2>3 DEF Unique
  <2>5. i \in Stale(Plan(s), d, keys) BY <2>2, <2>4 DEF Stale
  <2> QED BY <1>5, <2>5, TouchedWhere, ZenonT(60)
<1> QED BY <1>4, <1>5

-----------------------------------------------------------------------------
(* With one run at a time only rows entered by hand come between what an      *)
(* upsert read and what it writes                                             *)

\* The sheet differs from s only where somebody filled a blank row.
HandOnly(now, s) == \A i \in Places : now[i] = s[i] \/ (s[i] = Blank /\ now[i] = HandRow)

\* From values.get to the log row, the sheet is what the run read, and after the
\* write what it planned, but for rows by hand; the saved keys are real keys.
UpsertInv ==
  /\ None \notin saved
  /\ \A r \in Runs :
       /\ None \notin prev[r]
       /\ mode[r] = "upsert" /\ pc[r] \in {"write", "save", "ok"} =>
             touched[r] = Touched(read[r], snap[r], prev[r])
       /\ mode[r] = "upsert" /\ pc[r] = "write" => HandOnly(sheet, read[r])
       /\ mode[r] = "upsert" /\ pc[r] \in {"save", "ok"} =>
             HandOnly(sheet, Upserted(read[r], touched[r]))

LEMMA UpsertInit == Init => UpsertInv
BY DEF Init, UpsertInv

LEMMA UpsertedOver ==
  ASSUME NEW now, NEW s, NEW t, HandOnly(now, s)
  PROVE  HandOnly(Upserted(now, t), Upserted(s, t))
BY DEF HandOnly, Upserted

\* Every step keeps UpsertInv.
LEMMA UpsertStep ==
  ASSUME Alone
  PROVE  TypeInv /\ UpsertInv /\ [Next]_vars => UpsertInv'
<1> SUFFICES ASSUME TypeInv, UpsertInv, [Next]_vars PROVE UpsertInv' OBVIOUS
<1> USE DEF UpsertInv, TypeInv, TypeOK, Go, setup, plan
<1>1. ASSUME NEW r \in Runs, Fetch(r) PROVE UpsertInv'
  BY <1>1 DEF Fetch
<1>2. ASSUME NEW r \in Runs, LoadKeys(r) PROVE UpsertInv'
  BY <1>2 DEF LoadKeys
<1>3. ASSUME NEW r \in Runs, ReadSheet(r) PROVE UpsertInv'
  BY <1>3 DEF ReadSheet, Alone, HandOnly
<1>4. ASSUME NEW r \in Runs, Write(r) PROVE UpsertInv'
  <2>1. CASE mode[r] = "upsert" /\ Written(r)
    <3>1. HandOnly(sheet', Upserted(read[r], touched[r]))
      BY <1>4, <2>1, UpsertedOver DEF Write, Written
    <3>2. UNCHANGED <<saved, mode, snap, prev, read, touched>> BY <1>4 DEF Write
    <3>3. \A q \in Runs : q = r BY DEF Alone
    <3>4. pc[r] = "write" /\ pc'[r] \in {"save", "failed"} BY <1>4, <2>1 DEF Write
    <3> QED BY <2>1, <3>1, <3>2, <3>3, <3>4
  <2>2. CASE mode[r] # "upsert"
    BY <1>4, <2>2 DEF Write, Alone
  <2>3. CASE mode[r] = "upsert" /\ UNCHANGED <<sheet, last>>
    <3>1. UNCHANGED <<saved, mode, snap, prev, read, touched>> BY <1>4 DEF Write
    <3>2. \A q \in Runs : q = r BY DEF Alone
    <3>3. pc[r] = "write" /\ (pc'[r] = "failed" \/ Written(r)) BY <1>4, <2>3 DEF Write
    <3> QED BY <2>1, <2>3, <3>1, <3>2, <3>3
  <2> QED BY <1>4, <2>1, <2>2, <2>3 DEF Write
<1>5. ASSUME NEW r \in Runs, Clear(r) PROVE UpsertInv'
  <2>1. mode[r] = "replace" BY <1>5 DEF Clear
  <2> QED BY <1>5, <2>1 DEF Clear, Alone
<1>6. ASSUME NEW r \in Runs, Save(r) PROVE UpsertInv'
  BY <1>6 DEF Save
<1>7. ASSUME NEW r \in Runs, Log(r) PROVE UpsertInv'
  BY <1>7 DEF Log
<1>8. ASSUME Restart PROVE UpsertInv'
  BY <1>8 DEF Restart
<1>9. ASSUME HandAdd PROVE UpsertInv'
  <2>1. ASSUME NEW s, HandOnly(sheet, s) PROVE HandOnly(sheet', s)
    <3>1. \A i \in Places : sheet'[i] = sheet[i] \/ (sheet[i] = Blank /\ sheet'[i] = HandRow)
      BY <1>9, HandAddKeeps
    <3> QED BY <2>1, <3>1 DEF HandOnly
  <2>2. UNCHANGED <<saved, pc, mode, snap, prev, read, touched>> BY <1>9 DEF HandAdd
  <2> QED BY <2>1, <2>2
<1>10. ASSUME NEW id \in Ids, Change(id) PROVE UpsertInv'
  BY <1>10 DEF Change
<1>11. ASSUME UNCHANGED vars PROVE UpsertInv'
  BY <1>11 DEF vars
<1> QED BY <1>1, <1>2, <1>3, <1>4, <1>5, <1>6, <1>7, <1>8, <1>9, <1>10, <1>11
        DEF Next, Run

\* Rows by hand carry no key, so they double none.
LEMMA UniqueUnderHand ==
  ASSUME NEW now, NEW u, NEW n \in Nat, 1..n \subseteq Places, HandOnly(now, u), Unique(u, n)
  PROVE  Unique(now, n)
<1>1. "hand" \notin Keys BY SheetAssumption DEF Keys
<1>2. ASSUME NEW i \in 1..n, now[i].key \in Keys PROVE now[i] = u[i]
  BY <1>1, <1>2 DEF HandOnly, HandRow
<1> SUFFICES ASSUME NEW i \in 1..n, NEW j \in 1..n,
                    now[i].key \in Keys \ {None}, now[i].key = now[j].key
             PROVE  i = j
  BY DEF Unique
<1>3. now[i] = u[i] /\ now[j] = u[j] BY <1>2
<1> QED BY <1>3 DEF Unique

LEMMA UpsertedClean ==
  ASSUME KeyedOnce PROVE TypeInv /\ UpsertInv => UpsertClean
<1> SUFFICES ASSUME TypeInv, UpsertInv, NEW r \in Runs, pc[r] \in {"save", "ok"},
                    mode[r] = "upsert", Unique(read[r], BlockEnd(read[r]))
             PROVE  /\ Unique(sheet, BlockEnd(read[r]) + Cardinality(News(Plan(read[r]), snap[r])))
                    /\ \A i \in 1..BlockEnd(read[r]) :
                          sheet[i].key \in prev[r] => sheet[i].key \in KeysIn(snap[r])
  BY Zenon DEF UpsertClean
<1> DEFINE s == read[r]
           d == snap[r]
           N == News(Plan(s), d)
           end == BlockEnd(s)
           n == end + Cardinality(N)
           t == Touched(s, d, prev[r])
           u == Upserted(s, t)
<1>1. /\ prev[r] \in SUBSET Keys /\ None \notin prev[r]
      /\ DOMAIN t \subseteq Places /\ HandOnly(sheet, u)
  <2>1. touched[r] = t BY DEF UpsertInv
  <2>2. DOMAIN t \subseteq Places BY <2>1 DEF TypeInv, TypeOK
  <2> QED BY <2>1, <2>2 DEF UpsertInv, TypeInv, TypeOK
<1>2. end \in Nat /\ end <= Height /\ Height \in Nat BY BlockEndIn, SheetAssumption
<1>3. N \in SUBSET Rows(d) BY DEF News
<1>4. Cardinality(N) \in Nat BY <1>3, RowsFinite, FS_CardinalityType
<1>5. n <= Height
  <2>1. CASE Cardinality(N) = 0 BY <1>2, <2>1
  <2>2. CASE Cardinality(N) # 0
    <3>1. Cardinality(N) \in 1..Cardinality(N) BY <1>4, <2>2
    <3>2. n \in DOMAIN t BY <3>1, TouchedBelow
    <3> HIDE DEF n, t
    <3> QED BY <1>1, <3>2 DEF Places
  <2> QED BY <2>1, <2>2
<1>6. n \in Nat /\ 1..n \subseteq Places BY <1>2, <1>4, <1>5 DEF Places
<1>7. Unique(u, n) BY <1>1, UpsertUnique
<1>8. Unique(sheet, n)
  <2> HIDE DEF n, u
  <2> QED BY <1>1, <1>6, <1>7, UniqueUnderHand
<1>9. ASSUME NEW i \in 1..end, sheet[i].key \in prev[r] PROVE sheet[i].key \in KeysIn(d)
  <2>1. i \in Places BY <1>2 DEF Places
  <2>2. "hand" \notin prev[r] BY <1>1, SheetAssumption DEF Keys
  <2>3. sheet[i] = u[i] BY <1>1, <1>9, <2>1, <2>2 DEF HandOnly, HandRow
  <2>4. u[i].key \in prev[r] BY <1>9, <2>3
  <2>5. u[i].key \in KeysIn(d) BY <1>1, <2>4, UpsertCurrent
  <2> QED BY <2>3, <2>5
<1> QED BY <1>8, <1>9

\* upsertRows leaves no key twice among the rows it planned, in a block that had
\* none twice, and no row there with a key that an earlier export saved
\* (saveUpsertKeys) and the query no longer selects.
THEOREM UpsertsCleanly ==
  ASSUME KeyedOnce, Alone PROVE Spec => []UpsertClean
<1>3. TypeInv /\ UpsertInv /\ [Next]_vars => UpsertInv' BY UpsertStep
<1>4. TypeInv /\ UpsertInv => UpsertClean BY UpsertedClean
<1> QED BY <1>3, <1>4, TypeInit, TypeStep, UpsertInit, PTL DEF Spec

\* A batch does not touch a row without a key of the database.
LEMMA HandInBlockStep ==
  ASSUME Alone, TypeInv, UpsertInv, [Next]_vars,
         NEW r \in Runs, pc[r] = "write", mode[r] = "upsert",
         NEW i \in 1..BlockEnd(read[r]), read[r][i] = HandRow, sheet[i] = HandRow
  PROVE  sheet'[i] = HandRow
<1>1. i \in Places BY BlockEndIn, SheetAssumption DEF Places
<1>2. touched[r] = Touched(read[r], snap[r], prev[r]) /\ prev[r] \in SUBSET Keys
  BY DEF UpsertInv, TypeInv, TypeOK
<1>3. i \notin DOMAIN touched[r]
  <2> SUFFICES ASSUME i \in DOMAIN touched[r] PROVE FALSE OBVIOUS
  <2>1. read[r][i].key \in Keys BY <1>2, TouchedInBlock
  <2> QED BY <2>1, SheetAssumption DEF Keys, HandRow
<1>4. Upserted(sheet, touched[r])[i] = sheet[i] BY <1>1, <1>3 DEF Upserted
<1>5. \A q \in Runs : q = r BY DEF Alone
<1>6. CASE Write(r) BY <1>4, <1>6 DEF Write, Written
<1>7. CASE HandAdd BY <1>1, <1>7, HandAddKeeps
<1>8. CASE UNCHANGED sheet BY <1>8
<1>9. Write(r) \/ HandAdd \/ UNCHANGED sheet
  BY <1>5 DEF Next, Run, Fetch, LoadKeys, ReadSheet, Clear, Save, Log, Restart, Change, vars
<1> QED BY <1>6, <1>7, <1>8, <1>9

\* An upsert leaves the hand-made rows of the block it read as they are, whatever
\* the keys: its updates and clears go to rows found by key.
THEOREM HandRowsKept ==
  ASSUME Alone PROVE Spec => HandInBlockKept
<1>3. TypeInv /\ UpsertInv /\ [Next]_vars => UpsertInv' BY UpsertStep
<1> DEFINE Kept == \A r \in Runs : pc[r] = "write" /\ mode[r] = "upsert" =>
              \A i \in 1..BlockEnd(read[r]) :
                 read[r][i] = HandRow /\ sheet[i] = HandRow => sheet'[i] = HandRow
<1>4. TypeInv /\ UpsertInv /\ [Next]_vars => Kept BY HandInBlockStep
<1>5. TypeInv /\ UpsertInv /\ [Next]_vars => [Kept]_vars BY <1>4
<1> HIDE DEF Kept
<1>6. Spec => [][Kept]_vars
  BY <1>3, <1>5, TypeInit, TypeStep, UpsertInit, PTL DEF Spec
<1> QED BY <1>6 DEF Kept, HandInBlockKept
=============================================================================
