----------------------------- MODULE MCBankSync -----------------------------
(* Small statements for model checking BankSync. *)
EXTENDS BankSync, TLC

CONSTANTS d1, d2, d3

MCDocs == {d1, d2, d3}
RaceDocs == {d1, d2}
MCAmounts == {1, 2}

Line(d, day) == [doc |-> d, day |-> day, amt |-> 1, state |-> 3]
Mirrored(id, d, day) ==
  [id |-> id, ext |-> [doc |-> d, day |-> day, amt |-> 1],
   b2 |-> IF d \in B2Docs THEN d ELSE NoDoc, day |-> day, amt |-> 1,
   st |-> "COMPLETED"]

\* d1 and d3 are mirrored; d2 is on the statement of the same day or one day
\* earlier. Two rows missing beside a third line are more than MAX_CANDIDATES.
MCLedgers == {[d \in MCDocs |-> Line(d, IF d = d2 THEN e ELSE 3)] : e \in {2, 3}}
MCTxs == {Mirrored(1, d1, 3), Mirrored(2, d3, 3)}
\* Both on the statement of today.
RaceLedgers == {[d \in RaceDocs |-> Line(d, Today)]}
RaceTxs == {Mirrored(1, d1, Today)}

OwnGen == [d \in Docs |-> d]
LimitOf(bk, ft, casc, cr, ps) ==
  [k \in Kinds |-> CASE k = "bank" -> bk [] k = "fault" -> ft
                      [] k = "dbfault" -> casc [] k = "crash" -> cr
                      [] k = "pass" -> ps]
QuietLimit == LimitOf(2, 1, 0, 0, 1)
RaceLimit == LimitOf(1, 1, 1, 1, 1)
=============================================================================
