----------------------------- MODULE PlanLedger -----------------------------
(***************************************************************************)
(* What the owner of the repository is promised about the plans the        *)
(* Support agent proposes (agents/reja.py): a plan is decided once, only   *)
(* an approved plan reaches origin, it does so before anything is said     *)
(* about its outcome, and "applied" is said only of a plan that is there.  *)
(***************************************************************************)
CONSTANT Tokens

VARIABLES verdict, published, told

ledger == <<verdict, published, told>>

Verdicts == {"open", "approved", "rejected", "lapsed"}
Outcomes == {"applied", "failed"}

Init ==
    /\ verdict = [t \in Tokens |-> "open"]
    /\ published = {}
    /\ told = [t \in Tokens |-> {}]

Decide(t, v) ==
    /\ verdict[t] = "open"
    /\ verdict' = [verdict EXCEPT ![t] = v]
    /\ UNCHANGED <<published, told>>

Publish(t) ==
    /\ verdict[t] = "approved" /\ told[t] = {}
    /\ published' = published \cup {t}
    /\ UNCHANGED <<verdict, told>>

Tell(t, o) ==
    /\ verdict[t] # "open"
    /\ o = "applied" => t \in published
    /\ told' = [told EXCEPT ![t] = @ \cup {o}]
    /\ UNCHANGED <<verdict, published>>

Next == \E t \in Tokens :
    \/ \E v \in Verdicts \ {"open"} : Decide(t, v)
    \/ Publish(t)
    \/ \E o \in Outcomes : Tell(t, o)

Spec == Init /\ [][Next]_ledger
=============================================================================
