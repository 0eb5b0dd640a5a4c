----------------------------- MODULE Correction -----------------------------
(***************************************************************************)
(* Requests to correct a payment with a wrong contract: CorrectionService  *)
(* (submit, approve, reject, correct directly, clear) and AgentAiService   *)
(* (the cron, the run on submit, recheck and act from the chat).  Every    *)
(* await is a step of its own: the code keeps nothing locked across one,   *)
(* and only the agent's claim is a conditional update.                     *)
(***************************************************************************)
EXTENDS Naturals

CONSTANTS
    Reqs,          \* requests, numbers in the order of submission
    Payments, Contracts,
    Proposals,     \* the contracts that are proposed, None for no proposal
    Submitters,    \* calls from the web, Telegram or TR support: with a file or not
    Staff,         \* calls of reviewers
    Agents,        \* calls that run the AI agent or the tools of its chat; a call
                   \* handles one request after another, and may be of Staff as well
    Cron,          \* the cron tick
    Rechecks,      \* whether the chat asks the agent to look again
    MaxTrouble,    \* bound: failed calls, restarts and clearings
    None

Procs == Submitters \cup Staff \cup Agents

ASSUME CorrectionAssumption ==
    /\ Reqs \subseteq Nat /\ Cron \in Agents /\ Rechecks \in BOOLEAN
    /\ MaxTrouble \in Nat /\ Proposals \subseteq Contracts \cup {None}
    /\ Submitters \cap (Staff \cup Agents) = {} /\ Cron \notin Staff
    /\ None \notin Reqs /\ None \notin Payments /\ None \notin Contracts
    /\ None \notin {"processing", "needs_review", "done", "user", "agent", "chat"}

VARIABLES
    req,        \* XatoCorrectionRequest; "new" before it is created, "cleared" after;
                \* put (ghost): what the decision that approved it had entered
    contract,   \* the payment's contract, as entered by hand
    job,        \* what each process is at, with what it has read; put (ghost): what it
                \* has entered on which payment
    trouble

vars == <<req, contract, job, trouble>>

Idle == [step |-> "idle", id |-> None, payment |-> None, contract |-> None,
         file |-> FALSE, verdict |-> None, as |-> None, put |-> None]

Init ==
    /\ req = [id \in Reqs |-> [status |-> "new", payment |-> None, contract |-> None,
                               file |-> FALSE, agent |-> None, applied |-> None, put |-> None]]
    /\ contract = [t \in Payments |-> None]
    /\ job = [p \in Procs |-> Idle]
    /\ trouble = MaxTrouble

Trouble == trouble > 0 /\ trouble' = trouble - 1
At(p, s) == job[p].step = s
Go(p, s) == job' = [job EXCEPT ![p].step = s]
Stop(p) == job' = [job EXCEPT ![p] = Idle]
Pending(id) == req[id].status = "pending"
Exists(id) == req[id].status \notin {"new", "cleared"}

\* An error: processRequest leaves the request to the staff, every other caller
\* is just told.
Throw_slip1(p) == IF job[p].as = "agent" THEN Go(p, "done") ELSE Stop(p)
Throw(p) ==
    IF job[p].as = "agent" /\ ~At(p, "leave") /\ ~At(p, "claim") THEN Go(p, "leave") ELSE Stop(p)

-----------------------------------------------------------------------------
\* persistRequest, first half: no pending request of this payment.  A contract
\* need not be proposed.
Submit(p) ==
    /\ p \in Submitters \cup Staff /\ At(p, "idle")
    /\ \E t \in Payments, c \in Proposals, f \in BOOLEAN :
        /\ ~\E id \in Reqs : Pending(id) /\ req[id].payment = t
        /\ job' = [job EXCEPT ![p] = [Idle EXCEPT !.step = "create", !.payment = t,
                                                  !.contract = c, !.file = f]]
    /\ UNCHANGED <<req, contract, trouble>>

\* Second half: the request is created.  directCorrect creates it without the
\* file and goes on to approve it with the file.
Create(p) ==
    /\ At(p, "create")
    /\ \E id \in Reqs :
        /\ req[id].status = "new" /\ \A j \in Reqs : j < id => req[j].status # "new"
        /\ req' = [req EXCEPT ![id].status = "pending", ![id].payment = job[p].payment,
                              ![id].contract = job[p].contract,
                              ![id].file = p \in Submitters /\ job[p].file]
        /\ job' = [job EXCEPT ![p] = IF p \in Submitters THEN Idle
                                     ELSE [@ EXCEPT !.step = "review", !.id = id,
                                                    !.verdict = "approve", !.as = "user"]]
    /\ UNCHANGED <<contract, trouble>>

\* approve and reject read the request: it must be pending, and an approval
\* needs a contract and a file.
Reviewable_slip1(id, v, c, file) == Pending(id) /\ (v = "reject" \/ file \/ req[id].file)
Reviewable(id, v, c, file) ==
    Pending(id) /\ (v = "reject" \/ (c # None /\ (file \/ req[id].file)))
Verdict(v) == IF v = "approve" THEN "enter" ELSE "refuse"

\* A decision on request id: the contract given, else the one proposed.
Decision(id, v, c, who) ==
    [Idle EXCEPT !.step = Verdict(v), !.id = id, !.as = who, !.payment = req[id].payment,
                 !.contract = c]
Offers(id) == Contracts \cup {req[id].contract}

\* A reviewer decides on a request, or corrects the payment of one directly.
Take(p, id) ==
    /\ p \in Staff /\ At(p, "idle")
    /\ \E c \in Offers(id), f \in BOOLEAN, v \in {"approve", "reject"} :
        /\ Reviewable(id, v, c, f) /\ (v = "reject" => c = req[id].contract)
        /\ job' = [job EXCEPT ![p] = Decision(id, v, c, "user")]
    /\ UNCHANGED <<req, contract, trouble>>

\* actOnAriza: the same over the chat, without a file.
Act(p, id) ==
    /\ p \in Agents \ {Cron} /\ At(p, "idle")
    /\ \E c \in Offers(id), v \in {"approve", "reject"} :
        /\ Reviewable(id, v, c, FALSE) /\ (v = "reject" => c = req[id].contract)
        /\ job' = [job EXCEPT ![p] = Decision(id, v, c, "chat")]
    /\ UNCHANGED <<req, contract, trouble>>

\* The same for the agent and directCorrect, which come with a verdict.
Review(p) ==
    /\ At(p, "review")
    /\ IF Reviewable(job[p].id, job[p].verdict, job[p].contract, job[p].file)
       THEN job' = [job EXCEPT ![p].step = Verdict(job[p].verdict),
                               ![p].file = FALSE, ![p].verdict = None]
       ELSE Throw(p)
    /\ UNCHANGED <<req, contract, trouble>>

\* approve: setContractManual.
Enter(p) ==
    /\ At(p, "enter")
    /\ job' = [job EXCEPT ![p].step = "write", ![p].put = <<job[p].payment, job[p].contract>>]
    /\ contract' = [contract EXCEPT ![job[p].payment] = job[p].contract]
    /\ UNCHANGED <<req, trouble>>

Decided(p) == IF job[p].as = "user" THEN Stop(p) ELSE Go(p, "done")

\* approve and reject: update by id, whatever the request is by now.  approve
\* records the contract the decider entered.
Applied_slip1(p) == contract[job[p].payment]
Applied(p) == job[p].contract
Write(p) ==
    /\ At(p, "write")
    /\ IF Exists(job[p].id)
       THEN /\ Decided(p)
            /\ req' = [req EXCEPT ![job[p].id].status = "approved", ![job[p].id].file = TRUE,
                                  ![job[p].id].applied = Applied(p), ![job[p].id].put = job[p].put]
       ELSE Throw(p) /\ UNCHANGED req
    /\ UNCHANGED <<contract, trouble>>

Refuse(p) ==
    /\ At(p, "refuse")
    /\ IF Exists(job[p].id)
       THEN /\ Decided(p)
            /\ req' = [req EXCEPT ![job[p].id].status = "rejected"]
       ELSE Throw(p) /\ UNCHANGED req
    /\ UNCHANGED <<contract, trouble>>

SetAgent(id, s) ==
    req' = IF Exists(id) THEN [req EXCEPT ![id].agent = s] ELSE req

\* processRequest and actOnAriza: agentState 'done'.
Done(p) ==
    /\ At(p, "done")
    /\ IF Exists(job[p].id) THEN Stop(p) ELSE Throw(p)
    /\ SetAgent(job[p].id, "done")
    /\ UNCHANGED <<contract, trouble>>

-----------------------------------------------------------------------------
Waiting(id) == Pending(id) /\ req[id].agent = None
Listed(id) == Waiting(id) /\ req[id].file
Task(id) == [step |-> "claim", id |-> id, payment |-> req[id].payment,
             contract |-> req[id].contract, file |-> FALSE, verdict |-> None, as |-> "agent", put |-> None]

\* processPending of the cron, the oldest first; the run a submit starts, or
\* one by hand, whose list may be old.
Look(p, id) ==
    /\ p \in Agents /\ At(p, "idle") /\ Listed(id)
    /\ p = Cron => \A j \in Reqs : Listed(j) => id <= j
    /\ job' = [job EXCEPT ![p] = Task(id)]
    /\ UNCHANGED <<req, contract, trouble>>

\* processRequest: updateMany where pending and agentState null.
Claimable_slip1(id) == Pending(id)
Claimable(id) == Waiting(id)
Claim(p) ==
    /\ At(p, "claim")
    /\ IF Claimable(job[p].id)
       THEN Go(p, "think") /\ SetAgent(job[p].id, "processing")
       ELSE Stop(p) /\ UNCHANGED req
    /\ UNCHANGED <<contract, trouble>>

\* The model's answer after the guards on object and signature.
Answers == {"approve", "reject", "human"}
Think(p) ==
    /\ At(p, "think")
    /\ \E v \in Answers :
        job' = [job EXCEPT ![p].step = IF v = "human" THEN "leave" ELSE "review",
                           ![p].verdict = IF v = "human" THEN None ELSE v]
    /\ UNCHANGED <<req, contract, trouble>>

\* processRequest: agentState 'needs_review', a missing request is ignored.
Leave_slip1(p) ==
    /\ At(p, "leave") /\ Stop(p) /\ SetAgent(job[p].id, None)
    /\ UNCHANGED <<contract, trouble>>
Leave(p) ==
    /\ At(p, "leave") /\ Stop(p) /\ SetAgent(job[p].id, "needs_review")
    /\ UNCHANGED <<contract, trouble>>

\* recheckAriza: the requests found, then agentState null, then processRequest.
Recheck(p, id) ==
    /\ Rechecks /\ p \in Agents \ {Cron} /\ At(p, "idle")
    /\ Pending(id) /\ req[id].agent \in {None, "needs_review"}
    /\ job' = [job EXCEPT ![p] = [Task(id) EXCEPT !.step = "reset", !.as = "chat"]]
    /\ UNCHANGED <<req, contract, trouble>>

Reset(p) ==
    /\ At(p, "reset")
    /\ IF Exists(job[p].id) THEN Go(p, "look") ELSE Stop(p)
    /\ SetAgent(job[p].id, None)
    /\ UNCHANGED <<contract, trouble>>

LookAgain(p) ==
    /\ At(p, "look")
    /\ job' = [job EXCEPT ![p] = IF Waiting(job[p].id) THEN Task(job[p].id) ELSE Idle]
    /\ UNCHANGED <<req, contract, trouble>>

-----------------------------------------------------------------------------
\* Any call of a process may fail: an upload, the database, the model.
Fail(p) ==
    /\ ~At(p, "idle") /\ Trouble /\ Throw(p)
    /\ UNCHANGED <<req, contract>>

\* clearRequests.
Clear ==
    /\ Trouble
    /\ \E S \in {{"pending"}, {"approved"}, {"rejected"}, {"pending", "approved", "rejected"}} :
        /\ \E id \in Reqs : req[id].status \in S
        /\ req' = [id \in Reqs |-> IF req[id].status \in S
                                   THEN [req[id] EXCEPT !.status = "cleared"] ELSE req[id]]
    /\ UNCHANGED <<contract, job>>

Restart ==
    /\ Trouble /\ \E p \in Procs : ~At(p, "idle")
    /\ job' = [p \in Procs |-> Idle]
    /\ UNCHANGED <<req, contract>>

Step(p) ==
    \/ Create(p) \/ Review(p) \/ Enter(p) \/ Write(p) \/ Refuse(p) \/ Done(p)
    \/ Claim(p) \/ Think(p) \/ Leave(p) \/ Reset(p) \/ LookAgain(p)

Begin(p, id) == Take(p, id) \/ Act(p, id) \/ Look(p, id) \/ Recheck(p, id)

Next ==
    \/ \E p \in Procs : Submit(p) \/ Step(p) \/ Fail(p)
    \/ \E p \in Procs, id \in Reqs : Begin(p, id)
    \/ Clear \/ Restart

Spec == Init /\ [][Next]_vars

\* The cron ticks for ever and a run of it goes on to its end.
FairSpec == Spec /\ WF_vars(Step(Cron) \/ \E id \in Reqs : Look(Cron, id))

-----------------------------------------------------------------------------
Steps == {"idle", "create", "review", "enter", "write", "refuse", "done",
          "claim", "think", "leave", "reset", "look"}
Entries == Payments \X Contracts
Jobs == [step : Steps, id : Reqs \cup {None}, payment : Payments \cup {None},
         contract : Contracts \cup {None}, file : BOOLEAN,
         verdict : {"approve", "reject", None}, as : {"user", "agent", "chat", None}, put : Entries \cup {None}]
Requests == [status : {"new", "pending", "approved", "rejected", "cleared"},
             payment : Payments \cup {None}, contract : Contracts \cup {None}, file : BOOLEAN,
             agent : {"processing", "needs_review", "done", None},
             applied : Contracts \cup {None}, put : Entries \cup {None}]

\* Types of the requests, the payments and the processes.
TypeOK ==
    /\ req \in [Reqs -> Requests] /\ job \in [Procs -> Jobs]
    /\ contract \in [Payments -> Contracts \cup {None}]
    /\ trouble \in 0..MaxTrouble

\* What an approved request says was applied is what the decision that
\* approved it had entered on its payment (approve records what it gave to
\* setContractManual), whoever decided beside it and whatever was cleared or
\* cut off.
ApprovedEntered ==
    \A id \in Reqs : req[id].status = "approved" =>
        req[id].put = <<req[id].payment, req[id].applied>>

AgentSteps == {"think", "review", "enter", "write", "refuse", "done", "leave"}
Works(p, id) == job[p].as = "agent" /\ job[p].step \in AgentSteps /\ job[p].id = id

\* The cron and the run on submit never work on one request together (the
\* "atomik claim" of processRequest).
AgentAlone ==
    \A p, q \in Agents, id \in Reqs : Works(p, id) /\ Works(q, id) => p = q

\* The agent is done only with a request that was decided.
DoneIsDecided ==
    \A id \in Reqs : req[id].agent = "done" => ~Pending(id)

\* The agent looks at every request with a file, unless a person is quicker.
AgentLooks == \A id \in Reqs : Listed(id) ~> ~Listed(id)
=============================================================================
