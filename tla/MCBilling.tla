----------------------------- MODULE MCBilling -----------------------------
(* A customer with two stages to pay, a customer with one. *)
EXTENDS Billing, TLC

CONSTANTS anna, bek, cA, cB, a1, a2, b1, t1, t2, t3, w1, w2

MCOwner == cA :> anna @@ cB :> bek
MCContractOf == a1 :> cA @@ a2 :> cA @@ b1 :> cB
MCPrice == a1 :> 2 @@ a2 :> 1 @@ b1 :> 2
MCRank == a1 :> 1 @@ a2 :> 2 @@ b1 :> 3
MCAmount == t1 :> 2 @@ t2 :> 1 @@ t3 :> 3
MCPayer == t1 :> anna @@ t2 :> anna @@ t3 :> bek

\* Each request has customers of its own.
ApartServes == w1 :> {t1, t2} @@ w2 :> {t3}
ApartReach == w1 :> {a1, a2} @@ w2 :> {b1}
\* Two requests about one transaction.
SharedServes == w1 :> {t1} @@ w2 :> {t1}
\* Two requests about two transactions of one customer.
RivalServes == w1 :> {t1} @@ w2 :> {t2}
AnyReach == [w \in Workers |-> Stages]

\* The theorem about requests that have nothing in common applies to the runs
\* with these constants.
ASSUME ApartAssumption == Serves = ApartServes /\ Reach = ApartReach => Apart
=============================================================================
