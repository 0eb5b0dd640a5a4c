----------------------------- MODULE MCKvDerive -----------------------------
(* Small statements for model checking KvDerive: one client document. *)
EXTENDS KvDerive, TLC

CONSTANTS d1

Line(d, day) == [doc |-> d, day |-> day, amt |-> 1, state |-> 3]
OneDoc == {d1}
OneLedger == {[d \in OneDoc |-> Line(d, 2)]}
OneTx == {[id |-> 1, ext |-> [doc |-> d1, day |-> 2, amt |-> 1], b2 |-> d1,
           day |-> 2, amt |-> 1, st |-> "COMPLETED"]}
OwnGen == [d \in OneDoc |-> d]
MCAmounts == {1, 2}

LimitOf(bk, ft, casc, cr, ps) ==
  [k \in Kinds |-> CASE k = "bank" -> bk [] k = "fault" -> ft
                      [] k = "dbfault" -> casc [] k = "crash" -> cr
                      [] k = "pass" -> ps]
SettleLimit == LimitOf(2, 0, 1, 1, 1)
=============================================================================
