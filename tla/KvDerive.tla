------------------------------ MODULE KvDerive ------------------------------
(***************************************************************************)
(* The OplataKv ledger beside the mirrored bank account.  BankSync keeps   *)
(* the Transaction rows and cascades its changes into OplataKv; here       *)
(* OplataKvService.syncFromTransactions                                    *)
(* (src/backend/src/oplata-kv/oplata-kv.service.ts) derives OplataKv rows  *)
(* from the client payments among them.  It is started by a cron and by a  *)
(* button, takes no lock, and reads the transactions, then the rows it     *)
(* already made, before it writes: every step below is one awaited query.  *)
(*                                                                         *)
(* A row's id is the composite its transaction had when it was derived;    *)
(* its link sourceTxId follows the composite, its id never does.           *)
(* Left out are the minDate filter and the limit of the query (lines 2174  *)
(* to 2211): a derivation reads every client payment.                      *)
(***************************************************************************)
EXTENDS BankSync

CONSTANTS
  Clients,   \* the documents categorised CLIENT that carry a contract number
  Derivers   \* the callers of syncFromTransactions: "cron", "button"

ASSUME DeriveAssumption == Clients \subseteq Docs /\ Derivers \subseteq {"cron", "button"}

VARIABLE job   \* each caller's step, and the rows it has read or will write

dvars == <<vars, job>>

Idle == [at |-> "idle", seen |-> {}, create |-> {}, update |-> {}]
Target(t) == [id |-> t.ext, src |-> t.ext, date |-> t.day, amt |-> t.amt]

DeriveInit == Init /\ job = [q \in Derivers |-> Idle]

\* The button is one of the bounded user-started passes.
DeriveStart(q) ==
  /\ job[q].at = "idle"
  /\ IF q = "button" THEN Spend("pass") ELSE UNCHANGED spent
  /\ job' = [job EXCEPT ![q] = [Idle EXCEPT !.at = "match",
                 !.seen = {t \in txs : t.ext.doc \in Clients}]]
  /\ UNCHANGED <<ledger, db, lock, pc, hand, scan, check>>

\* Rows linked to a transaction are compared with it; the others are created.
DateDiffers(k, t) == k.date # t.day                                  \* slip
Differs(k, t) == k.amt # t.amt \/ k.date # t.day
DeriveMatch(q) ==
  LET seen == job[q].seen IN
  /\ job[q].at = "match"
  /\ job' = [job EXCEPT ![q] = [Idle EXCEPT !.at = "create",
       !.create = {Target(t) : t \in {u \in seen : \A k \in kv : k.src # u.ext}},
       !.update = {[k EXCEPT !.amt = t.amt, !.date = t.day] :
                     <<k, t>> \in {w \in kv \X seen : /\ w[1].src = w[2].ext
                                                      /\ Differs(w[1], w[2])}}]]
  /\ UNCHANGED vars

\* createMany with skipDuplicates: a row whose id or link is taken is passed
\* over in silence.
DeriveCreate(q) ==
  /\ job[q].at = "create"
  /\ kv' = kv \cup {r \in job[q].create : \A k \in kv : k.id # r.id /\ k.src # r.src}
  /\ job' = [job EXCEPT ![q] = [@ EXCEPT !.at = "update", !.create = {}]]
  /\ UNCHANGED <<ledger, txs, nextId, log, lock, pc, hand, scan, check, spent>>

\* One awaited update per row, by row id; the link is left alone.
DeriveUpdate(q) ==
  /\ job[q].at = "update"
  /\ \E r \in job[q].update :
       /\ kv' = {IF k.id = r.id THEN [k EXCEPT !.amt = r.amt, !.date = r.date]
                 ELSE k : k \in kv}
       /\ job' = [job EXCEPT ![q].update = @ \ {r}]
  /\ UNCHANGED <<ledger, txs, nextId, log, lock, pc, hand, scan, check, spent>>

DeriveDone(q) == /\ job[q].at = "update" /\ job[q].update = {}
                 /\ job' = [job EXCEPT ![q] = Idle]
                 /\ UNCHANGED vars

Derive(q) == \/ DeriveMatch(q) \/ DeriveCreate(q)
             \/ DeriveUpdate(q) \/ DeriveDone(q)

\* A crash takes the derivation down with the passes.
DeriveCrash == Crash /\ job' = [q \in Derivers |-> Idle]

DeriveNext ==
  \/ \E p \in Callers : (Start(p) \/ Work(p)) /\ UNCHANGED job
  \/ BankStep /\ UNCHANGED job
  \/ DeriveCrash
  \/ \E q \in Derivers : DeriveStart(q) \/ Derive(q)

DeriveSpec == DeriveInit /\ [][DeriveNext]_dvars

\* Both crons keep firing and every query returns.
DeriveFairSpec ==
  /\ DeriveSpec
  /\ \A p \in Callers : WF_dvars(Work(p) /\ UNCHANGED job)
  /\ \A p \in Callers : WF_dvars(StartCron(p) /\ UNCHANGED job)
  /\ \A q \in Derivers : WF_dvars(Derive(q))
  /\ \A q \in Derivers : WF_dvars(q = "cron" /\ DeriveStart(q))

-----------------------------------------------------------------------------
Booked(t) == \E k \in kv : k.src = t.ext /\ k.amt = t.amt /\ k.date = t.day
Reported(t) == \E k \in kv : k.id = t.ext /\ \A u \in txs : u.ext # k.src

\* Once the bank settles, every client payment has an OplataKv row linked to
\* it that carries its amount and its date, or its id is taken by a row whose
\* link is broken, which the derivation reports as not written
\* (syncFromTransactions): it repairs everything else that a failed cascade, a
\* stale read or a crash left behind.
KvSettles == <>[](\A t \in txs : t.ext.doc \in Clients => Booked(t) \/ Reported(t))
=============================================================================
