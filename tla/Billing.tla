------------------------------ MODULE Billing ------------------------------
(***************************************************************************)
(* Incoming transactions and the stages of the contracts they pay:         *)
(* PaymentsService (src/backend/src/payments/payments.service.ts) and the  *)
(* recalculation in ContractsService                                       *)
(* (src/backend/src/contracts/contracts.service.ts).                       *)
(*                                                                         *)
(* autoMatch is called by upsertOne for every new incoming row and by a    *)
(* button; linkManual, unlink and ignore are requests of an operator.  A   *)
(* request reads, decides, writes its payments in one database             *)
(* transaction and then recalculates every stage it touched, one awaited   *)
(* query after the other and without a lock, so requests interleave        *)
(* between any two of them.  The database is PostgreSQL at READ COMMITTED: *)
(* the rows a deleteMany removes are those committed when it runs.         *)
(***************************************************************************)
EXTENDS Integers, FiniteSets, FiniteSetsExt

CONSTANTS
  Customers,
  Contracts,
  Owner,       \* [Contracts -> Customers]
  Stages,
  ContractOf,  \* [Stages -> Contracts]
  Price,       \* [Stages -> Nat \ {0}], the amount of a stage
  Rank,        \* FIFO order of the stages: dueDate, contractId, ordinal
  Late,        \* the stages whose dueDate has passed
  Standing,    \* the statuses contracts are created with
  Txns,        \* incoming transactions
  Amount,      \* [Txns -> Nat \ {0}]
  Payer,       \* [Txns -> Customers or NoCustomer], by the INN of the sender
  NoCustomer,
  Workers,     \* requests that may run at the same time
  Serves,      \* [Workers -> SUBSET Txns], the transactions they are about
  Reach,       \* [Workers -> SUBSET Stages], the stages an operator links
  Ops,         \* which of "auto", "link", "unlink", "ignore", "delete", "crash" happen
  Limit        \* number of requests

Requests == {"auto", "link", "unlink"}
MatchStatus == {"UNMATCHED", "AUTO", "MANUAL", "PARTIAL", "IGNORED"}
StageStatus == {"PENDING", "PARTIAL", "PAID", "OVERDUE"}
ContractStatus == {"DRAFT", "ACTIVE", "COMPLETED", "CANCELLED", "SUSPENDED"}

ASSUME ContractAssumption ==
  /\ IsFiniteSet(Stages)
  /\ Owner \in [Contracts -> Customers] /\ ContractOf \in [Stages -> Contracts]
  /\ Price \in [Stages -> Nat \ {0}] /\ Rank \in [Stages -> Nat]
  /\ \A r, s \in Stages : Rank[r] = Rank[s] => r = s
  /\ Late \subseteq Stages /\ Standing \subseteq ContractStatus \ {"COMPLETED"}

ASSUME RequestAssumption ==
  /\ Amount \in [Txns -> Nat \ {0}]
  /\ NoCustomer \notin Customers /\ Payer \in [Txns -> Customers \cup {NoCustomer}]
  /\ Serves \in [Workers -> SUBSET Txns] /\ Reach \in [Workers -> SUBSET Stages]
  /\ Ops \subseteq Requests \cup {"ignore", "delete", "crash"} /\ Limit \in Nat

VARIABLES
  live,      \* Transaction rows that exist
  match,     \* matchStatus of each transaction
  payments,  \* Payment rows
  batch,     \* number of commits so far: tells the rows of two commits apart
  stage,     \* ContractStage rows: paidAmount and status
  contract,  \* status of each contract
  job,       \* what each request is doing, with what it has read
  made       \* number of requests so far

txnRows == <<live, match>>
vars == <<live, match, payments, batch, stage, contract, job, made>>

Payment == [batch : Nat, txn : Txns, stage : Stages, amount : Nat \ {0}]

\* at: the next query; plan: amounts to allocate; seen: the stages of the
\* payments read; gone: the rows deleted in the open transaction; dirty and
\* closing: stages and contracts still to recalculate; paid: the sum read.
Resting == [at |-> "idle", op |-> "none", txn |-> "none", plan |-> [s \in Stages |-> 0],
            seen |-> {}, gone |-> {}, dirty |-> {}, closing |-> {}, target |-> "none",
            paid |-> 0]

-----------------------------------------------------------------------------
(* Sums and the allocation *)

Total(rows) == MapThenSumSet(LAMBDA p : p.amount, rows)
Paid(s) == Total({p \in payments : p.stage = s})
Allocated(t) == Total({p \in payments : p.txn = t})
SumOver(S, f) == MapThenSumSet(LAMBDA s : f[s], S)
Least(a, b) == IF a <= b THEN a ELSE b
Positive(a) == IF a >= 0 THEN a ELSE 0

Open(c) == {s \in Stages : /\ Owner[ContractOf[s]] = c
                           /\ contract[ContractOf[s]] \in {"ACTIVE", "SUSPENDED"}
                           /\ stage[s].status # "PAID"}

\* A stage with nothing left to pay is passed over.
OweInFull(s) == Price[s]                                            \* slip
Owe(s) == Positive(Price[s] - stage[s].paid)
OweUpTo(s, S) == SumOver({r \in S : Rank[r] < Rank[s]}, [r \in Stages |-> Owe(r)])

\* The FIFO loop of autoMatch: a stage gets what the older ones leave.
PlanWithoutBreak(t, S) ==                                           \* slip
  [s \in Stages |-> IF s \in S THEN Least(Owe(s), Amount[t] - OweUpTo(s, S)) ELSE 0]
PlanNewestFirst(t, S) ==                                            \* slip
  [s \in Stages |-> IF s \in S
     THEN Least(Owe(s), Positive(Amount[t] - SumOver({r \in S : Rank[r] > Rank[s]},
                                                     [r \in Stages |-> Owe(r)])))
     ELSE 0]
Plan(t, S) ==
  [s \in Stages |-> IF s \in S THEN Least(Owe(s), Positive(Amount[t] - OweUpTo(s, S)))
                    ELSE 0]
Rows(t, plan) == {[batch |-> batch, txn |-> t, stage |-> s, amount |-> plan[s]]
                    : s \in {r \in Stages : plan[r] > 0}}
VerdictStrict(t, plan, full) ==                                     \* slip
  IF SumOver(Stages, plan) > Amount[t] THEN full ELSE "PARTIAL"
Verdict(t, plan, full) ==
  IF SumOver(Stages, plan) >= Amount[t] THEN full ELSE "PARTIAL"

StatusAfter(s, paid) ==
  CASE paid = 0 /\ s \in Late -> "OVERDUE"
    [] paid = 0 /\ s \notin Late -> "PENDING"
    [] paid > 0 /\ paid < Price[s] -> "PARTIAL"
    [] OTHER -> "PAID"

SettledInPart(c) ==                                                 \* slip
  \E s \in Stages : ContractOf[s] = c /\ stage[s].status = "PAID"
Settled(c) == \A s \in Stages : ContractOf[s] = c => stage[s].status = "PAID"

Init ==
  /\ live = Txns
  /\ match = [t \in Txns |-> "UNMATCHED"]
  /\ payments = {}
  /\ batch = 0
  /\ stage = [s \in Stages |-> [paid |-> 0, status |-> "PENDING"]]
  /\ contract \in [Contracts -> Standing]
  /\ job = [w \in Workers |-> Resting]
  /\ made = 0

Accept(op) == op \in Ops /\ made < Limit /\ made' = made + 1
Set(w, j) == job' = [job EXCEPT ![w] = j]
Rest(w) == Set(w, Resting)

\* After the commit: the stages and contracts to recalculate.
Recalculate(w, dirty, closing) ==
  Set(w, [job[w] EXCEPT !.at = "recalc", !.dirty = dirty, !.closing = closing,
                        !.gone = {}])

-----------------------------------------------------------------------------
(* autoMatch *)

\* The row is read; matched rows and rows of unknown senders are refused.
StartAuto(w) ==
  /\ job[w].at = "idle" /\ Accept("auto")
  /\ \E t \in Serves[w] \cap live :
       /\ match[t] \notin {"AUTO", "MANUAL", "PARTIAL"} /\ Payer[t] # NoCustomer
       /\ Set(w, [Resting EXCEPT !.at = "stages", !.op = "auto", !.txn = t])
  /\ UNCHANGED <<txnRows, payments, batch, stage, contract>>

AutoStages(w) ==
  LET t == job[w].txn
      open == Open(Payer[t]) IN
  /\ job[w].at = "stages"
  /\ Set(w, IF open = {} THEN [job[w] EXCEPT !.at = "nothing"]
            ELSE [job[w] EXCEPT !.at = "commit", !.plan = Plan(t, open)])
  /\ UNCHANGED <<txnRows, payments, batch, stage, contract, made>>

\* No open stage: the transaction is only marked.
AutoNothing(w) ==
  /\ job[w].at = "nothing"
  /\ match' = IF job[w].txn \in live THEN [match EXCEPT ![job[w].txn] = "UNMATCHED"]
              ELSE match
  /\ Rest(w)
  /\ UNCHANGED <<live, payments, batch, stage, contract, made>>

\* Payments and matchStatus commit together; when the row is gone the
\* foreign key rolls everything back.
AutoCommit(w) ==
  LET t == job[w].txn
      plan == job[w].plan
      paid == {s \in Stages : plan[s] > 0} IN
  /\ job[w].at = "commit"
  /\ IF t \in live
     THEN /\ payments' = payments \cup Rows(t, plan)
          /\ batch' = batch + 1
          /\ match' = [match EXCEPT ![t] = Verdict(t, plan, "AUTO")]
          /\ Recalculate(w, paid, {ContractOf[s] : s \in paid})
     ELSE Rest(w) /\ UNCHANGED <<payments, batch, match>>
  /\ UNCHANGED <<live, stage, contract, made>>

-----------------------------------------------------------------------------
(* linkManual and unlink *)

\* The row and its payments are read outside the transaction.
StartLink(w) ==
  /\ job[w].at = "idle" /\ Accept("link")
  /\ \E t \in Serves[w] \cap live :
     \E plan \in [Stages -> 0 .. Amount[t]] :
       /\ SumOver(Stages, plan) \in 1 .. Amount[t]
       /\ \A s \in Stages : plan[s] > 0 => s \in Reach[w]
       /\ Set(w, [Resting EXCEPT !.at = "erase", !.op = "link", !.txn = t, !.plan = plan,
                    !.seen = {p.stage : p \in {q \in payments : q.txn = t}}])
  /\ UNCHANGED <<txnRows, payments, batch, stage, contract>>

StartUnlink(w) ==
  /\ job[w].at = "idle" /\ Accept("unlink")
  /\ \E t \in Serves[w] \cap live :
       Set(w, [Resting EXCEPT !.at = "erase", !.op = "unlink", !.txn = t,
                 !.seen = {p.stage : p \in {q \in payments : q.txn = t}}])
  /\ UNCHANGED <<txnRows, payments, batch, stage, contract>>

EraseForgotten(w) ==                                                \* slip
  /\ job[w].at = "erase"
  /\ Set(w, [job[w] EXCEPT !.at = IF job[w].op = "link" THEN "linked" ELSE "unlinked"])
  /\ UNCHANGED <<txnRows, payments, batch, stage, contract, made>>

\* deleteMany, the first statement of the transaction; linkManual leaves it
\* out when it has read no payment.
Erase(w) ==
  LET none == job[w].op = "link" /\ job[w].seen = {} IN
  /\ job[w].at = "erase"
  /\ Set(w, [job[w] EXCEPT !.at = IF job[w].op = "link" THEN "linked" ELSE "unlinked",
               !.gone = IF none THEN {} ELSE {p \in payments : p.txn = job[w].txn}])
  /\ UNCHANGED <<txnRows, payments, batch, stage, contract, made>>

AffectedByPlan(w) == {s \in Stages : job[w].plan[s] > 0}            \* slip
Affected(w) == job[w].seen \cup {s \in Stages : job[w].plan[s] > 0}

LinkCommit(w) ==
  LET t == job[w].txn
      plan == job[w].plan IN
  /\ job[w].at = "linked"
  /\ IF t \in live
     THEN /\ payments' = (payments \ job[w].gone) \cup Rows(t, plan)
          /\ batch' = batch + 1
          /\ match' = [match EXCEPT ![t] = Verdict(t, plan, "MANUAL")]
          /\ Recalculate(w, Affected(w), {})
     ELSE Rest(w) /\ UNCHANGED <<payments, batch, match>>
  /\ UNCHANGED <<live, stage, contract, made>>

UnlinkCommit(w) ==
  /\ job[w].at = "unlinked"
  /\ IF job[w].txn \in live
     THEN /\ payments' = payments \ job[w].gone
          /\ match' = [match EXCEPT ![job[w].txn] = "UNMATCHED"]
          /\ Recalculate(w, job[w].seen, {})
     ELSE Rest(w) /\ UNCHANGED <<payments, match>>
  /\ UNCHANGED <<live, batch, stage, contract, made>>

-----------------------------------------------------------------------------
(* recalcStage and recalcContract: a read and a write each *)

RecalcRead(w) ==
  /\ job[w].at = "recalc"
  /\ \E s \in job[w].dirty :
       Set(w, [job[w] EXCEPT !.at = "write", !.target = s, !.paid = Paid(s)])
  /\ UNCHANGED <<txnRows, payments, batch, stage, contract, made>>

RecalcWrite(w) ==
  LET s == job[w].target IN
  /\ job[w].at = "write"
  /\ stage' = [stage EXCEPT ![s] = [paid |-> job[w].paid,
                                    status |-> StatusAfter(s, job[w].paid)]]
  /\ Set(w, [job[w] EXCEPT !.at = "recalc", !.dirty = @ \ {s}])
  /\ UNCHANGED <<txnRows, payments, batch, contract, made>>

CloseRead(w) ==
  /\ job[w].at = "recalc" /\ job[w].dirty = {}
  /\ \E c \in job[w].closing :
       Set(w, IF Settled(c) THEN [job[w] EXCEPT !.at = "close", !.target = c]
              ELSE [job[w] EXCEPT !.closing = @ \ {c}])
  /\ UNCHANGED <<txnRows, payments, batch, stage, contract, made>>

CloseWrite(w) ==
  /\ job[w].at = "close"
  /\ contract' = [contract EXCEPT ![job[w].target] = "COMPLETED"]
  /\ Set(w, [job[w] EXCEPT !.at = "recalc", !.closing = @ \ {job[w].target}])
  /\ UNCHANGED <<txnRows, payments, batch, stage, made>>

Respond(w) ==
  /\ job[w].at = "recalc" /\ job[w].dirty = {} /\ job[w].closing = {}
  /\ Rest(w)
  /\ UNCHANGED <<txnRows, payments, batch, stage, contract, made>>

-----------------------------------------------------------------------------
\* ignore only marks the row; its payments stay.
Ignore == /\ Accept("ignore")
          /\ \E t \in live : match' = [match EXCEPT ![t] = "IGNORED"]
          /\ UNCHANGED <<live, payments, batch, stage, contract, job>>

\* detectChanges deletes a mirrored row; the foreign key takes its payments
\* along.
SyncDelete == /\ Accept("delete")
              /\ \E t \in live : /\ live' = live \ {t}
                                 /\ payments' = {p \in payments : p.txn # t}
              /\ UNCHANGED <<match, batch, stage, contract, job>>

\* The server stops: what was committed stays, open transactions roll back
\* and no recalculation is resumed.
Crash == /\ Accept("crash")
         /\ job' = [w \in Workers |-> Resting]
         /\ UNCHANGED <<txnRows, payments, batch, stage, contract>>

Step(w) == \/ StartAuto(w) \/ AutoStages(w) \/ AutoNothing(w) \/ AutoCommit(w)
           \/ StartLink(w) \/ StartUnlink(w) \/ Erase(w) \/ LinkCommit(w)
           \/ UnlinkCommit(w) \/ RecalcRead(w) \/ RecalcWrite(w) \/ CloseRead(w)
           \/ CloseWrite(w) \/ Respond(w)

Next == (\E w \in Workers : Step(w)) \/ Ignore \/ SyncDelete \/ Crash

Spec == Init /\ [][Next]_vars

-----------------------------------------------------------------------------
Ats == {"idle", "stages", "nothing", "commit", "erase", "linked", "unlinked",
        "recalc", "write", "close"}
Jobs == [at : Ats, op : Requests \cup {"none"}, txn : Txns \cup {"none"},
         plan : [Stages -> Nat], seen : SUBSET Stages, gone : SUBSET Payment,
         dirty : SUBSET Stages, closing : SUBSET Contracts,
         target : Stages \cup Contracts \cup {"none"}, paid : Nat]

TypeOK ==
  /\ live \subseteq Txns
  /\ match \in [Txns -> MatchStatus]
  /\ payments \subseteq Payment
  /\ batch \in Nat /\ made \in Nat
  /\ stage \in [Stages -> [paid : Nat, status : StageStatus]]
  /\ contract \in [Contracts -> ContractStatus]
  /\ job \in [Workers -> Jobs]

\* A stage that no request has still to recalculate shows the sum of its
\* payments, and once something is paid the status that follows from the sum
\* (recalcStage).
Balanced(s) == /\ stage[s].paid = Paid(s)
               /\ Paid(s) # 0 => stage[s].status = StatusAfter(s, Paid(s))
StagesBalanced ==
  \A s \in Stages : (\A w \in Workers : s \notin job[w].dirty) => Balanced(s)

\* matchStatus tells how much of a transaction is allocated: all of it, a
\* part, or nothing (autoMatch, linkManual, unlink).
MatchTold ==
  \A t \in live :
    CASE match[t] \in {"AUTO", "MANUAL"} -> Allocated(t) = Amount[t]
      [] match[t] = "PARTIAL" -> Allocated(t) < Amount[t]
      [] match[t] = "UNMATCHED" -> Allocated(t) = 0
      [] OTHER -> TRUE

\* A transaction is never allocated beyond its amount: autoMatch does not
\* match again what is matched already.
TxnNotOverspent == \A t \in live : Allocated(t) <= Amount[t]

AutoPays(w) == job[w].at = "commit" /\ job'[w].at # "commit"

\* When autoMatch allocates, an older open stage of the payer is paid in full
\* before a younger one receives anything (the FIFO order of its query).
OldestFirst ==
  [][\A w \in Workers : AutoPays(w) =>
       \A r, s \in Open(Payer[job[w].txn]) :
         Rank[r] < Rank[s] /\ Paid(s)' > Paid(s) => Paid(r)' >= Price[r]]_vars

\* autoMatch gives a stage no more than it still owes.
AutoWithinPrice ==
  [][\A w \in Workers : AutoPays(w) =>
       \A s \in Stages : Paid(s)' > Paid(s) => Paid(s)' <= Price[s]]_vars

PaidUp(c) == \A s \in Stages : ContractOf[s] = c => Paid(s) >= Price[s]

\* When autoMatch answers, a contract it has paid into is COMPLETED exactly
\* when the payments of all its stages reach their amounts (recalcContract).
AutoCloses ==
  [][\A w \in Workers :
       job[w].op = "auto" /\ job[w].at = "recalc" /\ job'[w].at = "idle" =>
         \A s \in Stages : job[w].plan[s] > 0 =>
           (contract[ContractOf[s]] = "COMPLETED" <=> PaidUp(ContractOf[s]))]_vars

-----------------------------------------------------------------------------
(* Requests that have no stage and no transaction in common *)

Mine(w) == Reach[w] \cup {s \in Stages : \E t \in Serves[w] :
                                          Owner[ContractOf[s]] = Payer[t]}
Apart == \A v, w \in Workers : v # w => /\ Serves[v] \cap Serves[w] = {}
                                        /\ Mine(v) \cap Mine(w) = {}
=============================================================================
