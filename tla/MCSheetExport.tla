--------------------------- MODULE MCSheetExport ---------------------------
(* A sheet whose key is the row's id. *)
EXTENDS SheetExport, TLC
CONSTANTS MaxId, k1, k2

MCIds == 1..MaxId
MCKeyOf == [id \in MCIds |-> <<k1, k2>>[id]]

\* A row by hand on top; an old append left the row of payment 1 far below.
MCBefore == (1 :> HandRow) @@ (7 :> [key |-> k1, val |-> "old"])
=============================================================================
