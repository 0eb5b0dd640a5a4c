-------------------------- MODULE CorrectionProofs --------------------------
(* An approved request tells what its decision entered on the payment, and    *)
(* the agent works alone on a request, for any requests, payments and calls.  *)
EXTENDS Correction, TLAPS

\* A request once created keeps its payment, and once decided is pending no more.
Kept ==
    \A id \in Reqs : req[id].status # "new" =>
        /\ req'[id].status # "new" /\ req'[id].payment = req[id].payment
        /\ ~Pending(id) => ~Pending(id)'

ReqSound(id) ==
    /\ req[id].status # "new" => req[id].payment \in Payments
    /\ req[id].status = "new" => req[id].agent = None
    /\ req[id].status = "approved" => req[id].put = <<req[id].payment, req[id].applied>>
    /\ req[id].agent = "done" => ~Pending(id)

\* What a process holds of its request is still true of it.
JobSound(p) ==
    /\ job[p].step = "create" =>
        job[p].payment \in Payments /\ job[p].as # "agent"
    /\ job[p].step \notin {"idle", "create"} =>
        /\ job[p].id \in Reqs /\ req[job[p].id].status # "new"
        /\ job[p].payment = req[job[p].id].payment
    /\ job[p].step = "enter" => job[p].contract \in Contracts
    /\ job[p].step = "write" => job[p].put = <<job[p].payment, job[p].contract>>
    /\ job[p].step = "done" => ~Pending(job[p].id)

CInv ==
    /\ TypeOK
    /\ \A id \in Reqs : ReqSound(id)
    /\ \A p \in Procs : JobSound(p)

LEMMA IdleFacts == Idle \in Jobs /\ Idle.step = "idle"
BY DEF Idle, Jobs, Steps

\* A process that does not move stays sound while the requests are kept.
LEMMA OthersSound ==
    ASSUME CInv, Kept, NEW q \in Procs, job'[q] = job[q]
    PROVE  JobSound(q)'
<1>1. JobSound(q) /\ job[q] \in Jobs
    BY DEF CInv, TypeOK
<1>2. CASE job[q].step \in {"idle", "create"}
    BY <1>1, <1>2 DEF JobSound
<1>3. CASE job[q].step \notin {"idle", "create"}
    <2> DEFINE i == job[q].id
    <2>1. /\ i \in Reqs /\ req[i].status # "new"
          /\ job[q].payment = req[i].payment
        BY <1>1, <1>3 DEF JobSound
    <2>2. req'[i].status # "new" /\ req'[i].payment = req[i].payment /\ (~Pending(i) => ~Pending(i)')
        BY <2>1 DEF Kept
    <2> QED BY <1>1, <1>3, <2>1, <2>2 DEF JobSound, Pending
<1> QED BY <1>2, <1>3

\* A step that moves one process, to a job that fits.
LEMMA OneMoves ==
    ASSUME CInv, Kept, NEW p \in Procs, NEW j \in Jobs, job' = [job EXCEPT ![p] = j],
           JobSound(p)', req' \in [Reqs -> Requests], \A id \in Reqs : ReqSound(id)',
           contract' \in [Payments -> Contracts \cup {None}],
           trouble' \in 0..MaxTrouble
    PROVE  CInv'
<1>1. job' \in [Procs -> Jobs]
    BY DEF CInv, TypeOK
<1>2. ASSUME NEW q \in Procs PROVE JobSound(q)'
    <2>1. CASE q = p
        BY <2>1
    <2>2. CASE q # p
        <3>1. job'[q] = job[q]
            BY <2>2 DEF CInv, TypeOK
        <3> QED BY <3>1, OthersSound
    <2> QED BY <2>1, <2>2
<1> QED BY <1>1, <1>2 DEF CInv, TypeOK

\* The same when the requests and the payments stay as they are.
LEMMA OnlyMoves ==
    ASSUME CInv, NEW p \in Procs, NEW j \in Jobs, job' = [job EXCEPT ![p] = j],
           JobSound(p)', UNCHANGED <<req, contract>>, trouble' \in 0..MaxTrouble
    PROVE  CInv'
<1>1. Kept
    BY DEF Kept, Pending
<1>2. \A id \in Reqs : ReqSound(id)'
    BY DEF CInv, ReqSound, Pending
<1>3. TypeOK
    BY DEF CInv
<1> QED BY <1>1, <1>2, <1>3, OneMoves DEF TypeOK

\* What is known of the job of a process that has a request at hand.
LEMMA AtHand ==
    ASSUME CInv, NEW p \in Procs, job[p].step \notin {"idle", "create"}
    PROVE  /\ job[p] \in Jobs /\ job[p].id \in Reqs /\ req[job[p].id] \in Requests
           /\ req[job[p].id].status # "new" /\ req[job[p].id].payment \in Payments
           /\ job[p].payment = req[job[p].id].payment
BY DEF CInv, TypeOK, JobSound, ReqSound

LEMMA StopFacts ==
    ASSUME CInv, NEW p \in Procs, Stop(p)
    PROVE  job' = [job EXCEPT ![p] = Idle] /\ JobSound(p)'
<1>1. job' = [job EXCEPT ![p] = Idle] /\ job'[p] = Idle
    BY DEF Stop, CInv, TypeOK
<1> QED BY <1>1, IdleFacts DEF JobSound

\* The next step of the same job.
LEMMA GoFacts ==
    ASSUME CInv, NEW p \in Procs, NEW s \in Steps, Go(p, s)
    PROVE  /\ [job[p] EXCEPT !.step = s] \in Jobs
           /\ job' = [job EXCEPT ![p] = [job[p] EXCEPT !.step = s]]
           /\ job'[p].step = s /\ job'[p].id = job[p].id /\ job'[p].payment = job[p].payment
           /\ job'[p].contract = job[p].contract /\ job'[p].as = job[p].as
<1>1. job[p] \in Jobs /\ job \in [Procs -> Jobs]
    BY DEF CInv, TypeOK
<1>2. job' = [job EXCEPT ![p] = [job[p] EXCEPT !.step = s]]
    BY <1>1 DEF Go
<1>3. [job[p] EXCEPT !.step = s] \in Jobs
    BY <1>1 DEF Jobs
<1> QED BY <1>1, <1>2, <1>3 DEF Jobs

\* A job that goes on to a step that asks for nothing more stays sound.
LEMMA GoSound ==
    ASSUME CInv, Kept, NEW p \in Procs, job[p].step \notin {"idle", "create"},
           NEW s \in Steps \ {"idle", "create", "enter", "write", "done"}, Go(p, s)
    PROVE  JobSound(p)'
<1>1. /\ job'[p].step = s /\ job'[p].id = job[p].id /\ job'[p].payment = job[p].payment
      /\ job'[p].contract = job[p].contract
    BY GoFacts
<1>2. job[p].id \in Reqs /\ req'[job[p].id].status # "new"
      /\ job[p].payment = req'[job[p].id].payment
    BY AtHand DEF Kept
<1> QED BY <1>1, <1>2 DEF JobSound

LEMMA StepNames ==
    /\ "idle" \in Steps /\ "create" \in Steps /\ "review" \in Steps /\ "enter" \in Steps
    /\ "write" \in Steps /\ "refuse" \in Steps /\ "done" \in Steps /\ "claim" \in Steps
    /\ "think" \in Steps /\ "leave" \in Steps /\ "reset" \in Steps /\ "look" \in Steps
BY DEF Steps

\* An error of a process leaves it sound.
LEMMA ThrowMoves ==
    ASSUME CInv, NEW p \in Procs, Throw(p), job[p].step \notin {"idle"},
           UNCHANGED <<req, contract>>, trouble' \in 0..MaxTrouble
    PROVE  CInv'
<1>1. Kept
    BY DEF Kept, Pending
<1>2. CASE Stop(p)
    BY <1>2, StopFacts, IdleFacts, OnlyMoves
<1>3. CASE Go(p, "leave") /\ job[p].as = "agent"
    <2>1. job[p].step # "create"
        BY <1>3 DEF CInv, JobSound
    <2>2. JobSound(p)'
        BY <1>1, <1>3, <2>1, GoSound, StepNames
    <2> QED BY <1>3, <2>2, GoFacts, StepNames, OnlyMoves
<1> QED BY <1>2, <1>3 DEF Throw


\* Before the first request (persistRequest) everything is sound.
THEOREM InvInit == Init => CInv
<1> SUFFICES ASSUME Init PROVE CInv
    OBVIOUS
<1>1. TypeOK
    BY IdleFacts, CorrectionAssumption DEF Init, TypeOK, Requests
<1>2. \A id \in Reqs : ReqSound(id)
    BY CorrectionAssumption DEF Init, ReqSound
<1>3. \A p \in Procs : JobSound(p)
    BY IdleFacts DEF Init, JobSound
<1> QED BY <1>1, <1>2, <1>3 DEF CInv

\* Steps that only move a process.
LEMMA MoveSteps ==
    ASSUME CInv, NEW p \in Procs
    PROVE  /\ Submit(p) => CInv'
           /\ LookAgain(p) => CInv'
           /\ Think(p) => CInv'
           /\ Review(p) => CInv'
           /\ Fail(p) => CInv'
<1>0. TypeOK /\ job \in [Procs -> Jobs] /\ trouble \in 0..MaxTrouble /\ trouble \in Nat
    BY CorrectionAssumption DEF CInv, TypeOK
<1>1. ASSUME Submit(p) PROVE CInv'
    <2>1. PICK t \in Payments, c \in Proposals :
            \E f \in BOOLEAN : job' = [job EXCEPT ![p] = [Idle EXCEPT !.step = "create", !.payment = t,
                                                                   !.contract = c, !.file = f]]
        BY <1>1 DEF Submit
    <2>2. PICK f \in BOOLEAN : job' = [job EXCEPT ![p] = [Idle EXCEPT !.step = "create", !.payment = t,
                                                                   !.contract = c, !.file = f]]
        BY <2>1
    <2> DEFINE j == [Idle EXCEPT !.step = "create", !.payment = t, !.contract = c, !.file = f]
    <2>3. j \in Jobs /\ j.step = "create" /\ j.payment = t /\ j.contract = c /\ j.as = None
        BY StepNames, CorrectionAssumption DEF Idle, Jobs
    <2>4. job' = [job EXCEPT ![p] = j] /\ job'[p] = j
        BY <1>0, <2>2
    <2>5. JobSound(p)'
        <3> HIDE DEF j
        <3> QED BY <2>3, <2>4, CorrectionAssumption DEF JobSound
    <2> HIDE DEF j
    <2> QED BY <1>0, <1>1, <2>3, <2>4, <2>5, OnlyMoves DEF Submit
<1>6. ASSUME LookAgain(p) PROVE CInv'
    <2> DEFINE i == job[p].id
    <2>1. At(p, "look") /\ UNCHANGED <<req, contract, trouble>>
        BY <1>6 DEF LookAgain
    <2>2. i \in Reqs
        BY <2>1, AtHand DEF At
    <2>3. CASE ~Waiting(i)
        <3>1. Stop(p)
            BY <1>6, <2>3 DEF LookAgain, Stop
        <3> QED BY <1>0, <2>1, <3>1, StopFacts, IdleFacts, OnlyMoves
    <2>4. CASE Waiting(i)
        <3>1. job' = [job EXCEPT ![p] = Task(i)] /\ Pending(i)
            BY <1>6, <2>4 DEF LookAgain, Waiting
        <3>2. req[i].payment \in Payments /\ req[i] \in Requests /\ req[i].status # "new"
            BY <2>2, <3>1 DEF CInv, TypeOK, ReqSound, Pending
        <3>3. /\ Task(i) \in Jobs /\ Task(i).step = "claim" /\ Task(i).id = i
              /\ Task(i).payment = req[i].payment
            BY <2>2, <3>2, StepNames DEF Jobs, Requests, Task
        <3>4. job'[p] = Task(i)
            BY <1>0, <3>1
        <3>5. JobSound(p)'
            BY <2>1, <2>2, <3>2, <3>3, <3>4 DEF JobSound
        <3> QED BY <1>0, <2>1, <3>1, <3>3, <3>5, OnlyMoves
    <2> QED BY <2>3, <2>4
<1>7. ASSUME Think(p) PROVE CInv'
    <2>1. At(p, "think") /\ UNCHANGED <<req, contract, trouble>>
        BY <1>7 DEF Think
    <2>2. PICK v \in Answers :
            job' = [job EXCEPT ![p].step = IF v = "human" THEN "leave" ELSE "review",
                               ![p].verdict = IF v = "human" THEN None ELSE v]
        BY <1>7 DEF Think
    <2> DEFINE j == [job[p] EXCEPT !.step = IF v = "human" THEN "leave" ELSE "review",
                                   !.verdict = IF v = "human" THEN None ELSE v]
    <2>3. job' = [job EXCEPT ![p] = j] /\ job'[p] = j
        BY <1>0, <2>2
    <2>4. job[p] \in Jobs
        BY <1>0
    <2>5. /\ j \in Jobs /\ j.step \in {"leave", "review"} /\ j.id = job[p].id
          /\ j.payment = job[p].payment /\ j.contract = job[p].contract
        BY <2>4, StepNames DEF Jobs, Answers
    <2>6. JobSound(p)'
        <3> HIDE DEF j
        <3>1. job[p].id \in Reqs /\ req[job[p].id].status # "new"
              /\ job[p].payment = req[job[p].id].payment
            BY <2>1, AtHand DEF At
        <3> QED BY <2>1, <2>3, <2>5, <3>1 DEF JobSound
    <2> HIDE DEF j
    <2> QED BY <1>0, <2>1, <2>3, <2>5, <2>6, OnlyMoves
<1>8. ASSUME Review(p) PROVE CInv'
    <2>1. At(p, "review") /\ UNCHANGED <<req, contract, trouble>>
        BY <1>8 DEF Review
    <2>2. CASE Throw(p)
        BY <1>0, <2>1, <2>2, ThrowMoves DEF At
    <2>3. CASE /\ Reviewable(job[p].id, job[p].verdict, job[p].contract, job[p].file)
               /\ job' = [job EXCEPT ![p].step = Verdict(job[p].verdict),
                                     ![p].file = FALSE, ![p].verdict = None]
        <3> DEFINE j == [job[p] EXCEPT !.step = Verdict(job[p].verdict), !.file = FALSE, !.verdict = None]
        <3>1. job' = [job EXCEPT ![p] = j] /\ job'[p] = j
            BY <1>0, <2>3
        <3>2. job[p] \in Jobs
            BY <1>0
        <3>3. /\ j \in Jobs /\ j.step \in {"enter", "refuse"} /\ j.id = job[p].id
              /\ j.payment = job[p].payment /\ j.contract = job[p].contract
              /\ j.step = "enter" => job[p].verdict # "reject"
            BY <3>2, StepNames DEF Jobs, Verdict
        <3>5. j.step = "enter" => j.contract \in Contracts
            <4> HIDE DEF j
            <4> QED BY <2>3, <3>2, <3>3 DEF Reviewable, Jobs
        <3>4. JobSound(p)'
            <4> HIDE DEF j
            <4>1. job[p].id \in Reqs /\ req[job[p].id].status # "new"
                  /\ job[p].payment = req[job[p].id].payment
                BY <2>1, AtHand DEF At
            <4> QED BY <2>1, <3>1, <3>3, <3>5, <4>1 DEF JobSound
        <3> HIDE DEF j
        <3> QED BY <1>0, <2>1, <3>1, <3>3, <3>4, OnlyMoves
    <2> QED BY <1>8, <2>2, <2>3 DEF Review
<1>9. ASSUME Fail(p) PROVE CInv'
    <2>1. trouble' \in 0..MaxTrouble
        BY <1>0, <1>9, CorrectionAssumption DEF Fail, Trouble
    <2> QED BY <1>9, <2>1, ThrowMoves DEF Fail, At
<1> QED BY <1>1, <1>6, <1>7, <1>8, <1>9

\* Steps by which a process takes a request up.
LEMMA BeginSteps ==
    ASSUME CInv, NEW p \in Procs, NEW id \in Reqs
    PROVE  /\ Take(p, id) => CInv'
           /\ Act(p, id) => CInv'
           /\ Look(p, id) => CInv'
           /\ Recheck(p, id) => CInv'
<1>0. TypeOK /\ job \in [Procs -> Jobs] /\ trouble \in 0..MaxTrouble /\ trouble \in Nat
    BY CorrectionAssumption DEF CInv, TypeOK
<1>a. req[id] \in Requests /\ (Pending(id) => req[id].payment \in Payments /\ req[id].status # "new")
    BY <1>0 DEF CInv, TypeOK, ReqSound, Pending
<1>b. ASSUME NEW c \in Offers(id), NEW v \in {"approve", "reject"}, NEW f \in BOOLEAN,
             NEW who \in {"user", "chat"}, Reviewable(id, v, c, f),
             job' = [job EXCEPT ![p] = Decision(id, v, c, who)],
             UNCHANGED <<req, contract, trouble>>
      PROVE  CInv'
    <2> DEFINE j == Decision(id, v, c, who)
    <2>1. Pending(id) /\ c \in Contracts \cup {None} /\ (v = "approve" => c \in Contracts)
        BY <1>a, <1>b DEF Reviewable, Offers, Requests
    <2>2. /\ j \in Jobs /\ j.step \in {"enter", "refuse"} /\ j.id = id /\ j.payment = req[id].payment
          /\ j.step = "enter" => j.contract \in Contracts
        BY <1>a, <2>1, StepNames DEF Jobs, Idle, Verdict, Decision
    <2>3. job' = [job EXCEPT ![p] = j] /\ job'[p] = j
        BY <1>0, <1>b
    <2>4. JobSound(p)'
        <3> HIDE DEF j
        <3> QED BY <1>a, <1>b, <2>1, <2>2, <2>3 DEF JobSound
    <2> HIDE DEF j
    <2> QED BY <1>0, <1>b, <2>2, <2>3, <2>4, OnlyMoves
<1>2. ASSUME Take(p, id) PROVE CInv'
    BY <1>2, <1>b DEF Take
<1>3. ASSUME Act(p, id) PROVE CInv'
    BY <1>3, <1>b DEF Act
<1>4. ASSUME Look(p, id) PROVE CInv'
    <2> DEFINE j == Task(id)
    <2>2. Pending(id) /\ job' = [job EXCEPT ![p] = j]
        BY <1>4 DEF Look, Listed, Waiting
    <2>3. j \in Jobs /\ j.step \in {"claim"} /\ j.id = id /\ j.payment = req[id].payment
        BY <1>a, <2>2, StepNames DEF Jobs, Requests, Task
    <2>4. JobSound(p)'
        <3>1. job'[p] = j
            BY <1>0, <2>2
        <3>2. UNCHANGED req
            BY <1>4 DEF Look
        <3> HIDE DEF j
        <3> QED BY <1>a, <2>2, <2>3, <3>1, <3>2 DEF JobSound
    <2> HIDE DEF j
    <2> QED BY <1>0, <1>4, <2>2, <2>3, <2>4, OnlyMoves DEF Look
<1>5. ASSUME Recheck(p, id) PROVE CInv'
    <2> DEFINE j == [Task(id) EXCEPT !.step = "reset", !.as = "chat"]
    <2>2. Pending(id) /\ job' = [job EXCEPT ![p] = j]
        BY <1>5 DEF Recheck
    <2>3. j \in Jobs /\ j.step \in {"reset"} /\ j.id = id /\ j.payment = req[id].payment
        BY <1>a, <2>2, StepNames DEF Jobs, Requests, Task
    <2>4. JobSound(p)'
        <3>1. job'[p] = j
            BY <1>0, <2>2
        <3>2. UNCHANGED req
            BY <1>5 DEF Recheck
        <3> HIDE DEF j
        <3> QED BY <1>a, <2>2, <2>3, <3>1, <3>2 DEF JobSound
    <2> HIDE DEF j
    <2> QED BY <1>0, <1>5, <2>2, <2>3, <2>4, OnlyMoves DEF Recheck
<1> QED BY <1>2, <1>3, <1>4, <1>5

\* A step that changes one request.
LEMMA OneRequest ==
    ASSUME CInv, NEW id \in Reqs, NEW r \in Requests, req' = [req EXCEPT ![id] = r],
           r.status # "new", r.payment \in Payments,
           req[id].status # "new" => r.payment = req[id].payment,
           r.status = "pending" => req[id].status \in {"new", "pending"},
           r.status = "approved" => r.put = <<r.payment, r.applied>>,
           r.agent = "done" => r.status # "pending"
    PROVE  Kept /\ req' \in [Reqs -> Requests] /\ \A i \in Reqs : ReqSound(i)'
<1>1. req \in [Reqs -> Requests] /\ \A i \in Reqs : ReqSound(i)
    BY DEF CInv, TypeOK
<1>2. \A i \in Reqs : req'[i] = IF i = id THEN r ELSE req[i]
    BY <1>1
<1>3. Kept
    BY <1>2 DEF Kept, Pending
<1>4. ASSUME NEW i \in Reqs PROVE ReqSound(i)'
    BY <1>1, <1>2 DEF ReqSound, Pending
<1> QED BY <1>1, <1>2, <1>3, <1>4

\* SetAgent on the request a process has at hand.
LEMMA AgentSet ==
    ASSUME CInv, NEW id \in Reqs, req[id].status # "new",
           NEW s \in {"processing", "needs_review", "done", None}, SetAgent(id, s),
           s = "done" => ~Pending(id)
    PROVE  Kept /\ req' \in [Reqs -> Requests] /\ \A i \in Reqs : ReqSound(i)'
<1>1. req \in [Reqs -> Requests] /\ ReqSound(id)
    BY DEF CInv, TypeOK
<1>2. CASE Exists(id)
    <2> DEFINE r == [req[id] EXCEPT !.agent = s]
    <2>1. req' = [req EXCEPT ![id] = r]
        BY <1>1, <1>2 DEF SetAgent
    <2>2. req[id] \in Requests
        BY <1>1
    <2>3. /\ r \in Requests /\ r.status = req[id].status /\ r.payment = req[id].payment
          /\ r.contract = req[id].contract /\ r.applied = req[id].applied /\ r.put = req[id].put
          /\ r.agent = s
        BY <2>2 DEF Requests
    <2> HIDE DEF r
    <2> QED BY <1>1, <2>1, <2>3, OneRequest DEF ReqSound, Pending
<1>3. CASE ~Exists(id)
    <2>1. req' = req
        BY <1>3 DEF SetAgent
    <2> QED BY <1>1, <2>1 DEF CInv, Kept, ReqSound, Pending
<1> QED BY <1>2, <1>3

LEMMA CreateStep ==
    ASSUME CInv, NEW p \in Procs, Create(p)
    PROVE  CInv'
<1>0. job \in [Procs -> Jobs] /\ req \in [Reqs -> Requests] /\ job[p] \in Jobs /\ TypeOK
    BY DEF CInv, TypeOK
<1>1. /\ At(p, "create") /\ UNCHANGED <<contract, trouble>>
    BY DEF Create
<1>2. job[p].payment \in Payments
    BY <1>1 DEF CInv, JobSound, At
<1>3. PICK id \in Reqs :
        /\ req[id].status = "new"
        /\ req' = [req EXCEPT ![id].status = "pending", ![id].payment = job[p].payment,
                              ![id].contract = job[p].contract,
                              ![id].file = p \in Submitters /\ job[p].file]
        /\ job' = [job EXCEPT ![p] = IF p \in Submitters THEN Idle
                                     ELSE [@ EXCEPT !.step = "review", !.id = id,
                                                    !.verdict = "approve", !.as = "user"]]
    BY DEF Create
<1> DEFINE b == p \in Submitters /\ job[p].file
           r == [req[id] EXCEPT !.status = "pending", !.payment = job[p].payment,
                                !.contract = job[p].contract, !.file = b]
<1>4. req' = [req EXCEPT ![id] = r]
    BY <1>0, <1>3
<1>5. b \in BOOLEAN
    BY <1>0 DEF Jobs
<1>6. req[id] \in Requests /\ req[id].agent = None
    BY <1>0, <1>3 DEF CInv, ReqSound
<1>7. /\ r \in Requests /\ r.status = "pending" /\ r.payment = job[p].payment
      /\ r.contract = job[p].contract /\ r.agent = None
    <2>1. job[p].contract \in Contracts \cup {None}
        BY <1>0 DEF Jobs
    <2> HIDE DEF b
    <2> QED BY <1>2, <1>5, <1>6, <2>1 DEF Requests
<1>8. Kept /\ req' \in [Reqs -> Requests] /\ (\A i \in Reqs : ReqSound(i)')
    <2> HIDE DEF r
    <2> QED BY <1>1, <1>2, <1>3, <1>4, <1>7, OneRequest, CorrectionAssumption
<1>9. CASE p \in Submitters
    <2>1. Stop(p)
        BY <1>3, <1>9 DEF Stop
    <2> QED BY <1>0, <1>1, <1>8, <2>1, StopFacts, IdleFacts, OneMoves DEF TypeOK
<1>10. CASE p \notin Submitters
    <2> DEFINE j == [job[p] EXCEPT !.step = "review", !.id = id, !.verdict = "approve", !.as = "user"]
    <2>1. job' = [job EXCEPT ![p] = j] /\ job'[p] = j
        BY <1>0, <1>3, <1>10
    <2>2. /\ j \in Jobs /\ j.step = "review" /\ j.id = id /\ j.payment = job[p].payment
          /\ j.contract = job[p].contract
        BY <1>0, StepNames DEF Jobs
    <2>3. req'[id] = r
        BY <1>0, <1>4
    <2>4. JobSound(p)'
        <3> HIDE DEF j, r
        <3> QED BY <1>2, <1>7, <2>1, <2>2, <2>3 DEF JobSound
    <2> HIDE DEF j, r
    <2> QED BY <1>0, <1>1, <1>8, <2>1, <2>2, <2>4, OneMoves DEF TypeOK
<1> QED BY <1>9, <1>10

\* The job of a process that has entered the contract.
LEMMA EntersJob ==
    ASSUME CInv, NEW p \in Procs, Enter(p)
    PROVE  \E j \in Jobs :
             /\ job' = [job EXCEPT ![p] = j] /\ job'[p] = j
             /\ j.step = "write" /\ j.id = job[p].id /\ j.payment = job[p].payment
             /\ j.contract = job[p].contract /\ j.as = job[p].as
             /\ j.put = <<job[p].payment, job[p].contract>>
             /\ job[p].contract \in Contracts
<1> DEFINE e == <<job[p].payment, job[p].contract>>
           j == [job[p] EXCEPT !.step = "write", !.put = e]
<1>0. job \in [Procs -> Jobs] /\ job[p] \in Jobs
    BY DEF CInv, TypeOK
<1>1. At(p, "enter") /\ job' = [job EXCEPT ![p] = j] /\ job'[p] = j
    BY <1>0 DEF Enter
<1>2. job[p].contract \in Contracts /\ job[p].payment \in Payments
    BY <1>1, AtHand DEF CInv, JobSound, At
<1>3. e \in Entries
    BY <1>2 DEF Entries
<1>4. /\ j \in Jobs /\ j.step = "write" /\ j.id = job[p].id /\ j.payment = job[p].payment
      /\ j.contract = job[p].contract /\ j.as = job[p].as /\ j.put = e
    <2> HIDE DEF e
    <2> QED BY <1>0, <1>3, StepNames DEF Jobs
<1> HIDE DEF j
<1> QED BY <1>1, <1>2, <1>4

LEMMA EnterStep ==
    ASSUME CInv, NEW p \in Procs, Enter(p)
    PROVE  CInv'
<1>0. TypeOK
    BY DEF CInv
<1>1. /\ At(p, "enter") /\ UNCHANGED <<req, trouble>>
      /\ contract' = [contract EXCEPT ![job[p].payment] = job[p].contract]
    BY DEF Enter
<1>2. /\ job[p].id \in Reqs /\ req[job[p].id].status # "new"
      /\ job[p].payment = req[job[p].id].payment /\ job[p].payment \in Payments
    BY <1>1, AtHand DEF At
<1>3. PICK j \in Jobs :
        /\ job' = [job EXCEPT ![p] = j] /\ job'[p] = j
        /\ j.step = "write" /\ j.id = job[p].id /\ j.payment = job[p].payment
        /\ j.contract = job[p].contract
        /\ j.put = <<job[p].payment, job[p].contract>>
        /\ job[p].contract \in Contracts
    BY EntersJob
<1>4. Kept /\ \A id \in Reqs : ReqSound(id)'
    BY <1>1 DEF CInv, Kept, ReqSound, Pending
<1>5. JobSound(p)'
    BY <1>1, <1>2, <1>3 DEF JobSound
<1>6. contract' \in [Payments -> Contracts \cup {None}]
    BY <1>0, <1>1, <1>2, <1>3 DEF TypeOK
<1> QED BY <1>0, <1>1, <1>3, <1>4, <1>5, <1>6, OneMoves DEF TypeOK

\* Steps that decide on a request, or say how far the agent is.
LEMMA DecideMoves ==
    ASSUME CInv, NEW p \in Procs, job[p].step \notin {"idle", "create"}, Decided(p),
           Kept, req' \in [Reqs -> Requests], \A id \in Reqs : ReqSound(id)',
           req'[job[p].id].status # "pending", UNCHANGED <<contract, trouble>>
    PROVE  CInv'
<1>0. TypeOK
    BY DEF CInv
<1>1. CASE Stop(p)
    BY <1>0, <1>1, StopFacts, IdleFacts, OneMoves DEF TypeOK
<1>2. CASE Go(p, "done")
    <2>1. /\ job'[p].step = "done" /\ job'[p].id = job[p].id /\ job'[p].payment = job[p].payment
          /\ job'[p].contract = job[p].contract
        BY <1>2, GoFacts, StepNames
    <2>2. job[p].id \in Reqs /\ req'[job[p].id].status # "new"
          /\ job[p].payment = req'[job[p].id].payment
        BY AtHand DEF Kept
    <2>3. JobSound(p)'
        BY <2>1, <2>2 DEF JobSound, Pending
    <2> QED BY <1>0, <1>2, <2>3, GoFacts, StepNames, OneMoves DEF TypeOK
<1> QED BY <1>1, <1>2 DEF Decided

LEMMA WriteStep ==
    ASSUME CInv, NEW p \in Procs, Write(p)
    PROVE  CInv'
<1> DEFINE i == job[p].id
<1>1. At(p, "write") /\ UNCHANGED <<contract, trouble>>
    BY DEF Write
<1>2. /\ i \in Reqs /\ req[i] \in Requests /\ req[i].status # "new" /\ req[i].payment \in Payments
      /\ job[p].payment = req[i].payment
    BY <1>1, AtHand DEF At
<1>3. job[p].put = <<job[p].payment, job[p].contract>> /\ job[p] \in Jobs /\ ReqSound(i) /\ TypeOK
    BY <1>1, <1>2 DEF CInv, TypeOK, JobSound, At
<1>4. CASE Exists(i)
    <2> DEFINE r == [req[i] EXCEPT !.status = "approved", !.file = TRUE, !.applied = job[p].contract,
                                   !.put = job[p].put]
    <2>1. req' = [req EXCEPT ![i] = r] /\ Decided(p)
        BY <1>3, <1>4 DEF Write, Applied, TypeOK
    <2>2. /\ r \in Requests /\ r.status = "approved" /\ r.payment = req[i].payment
          /\ r.put = job[p].put /\ r.applied = job[p].contract
        BY <1>2, <1>3 DEF Requests, Jobs
    <2>3. Kept /\ req' \in [Reqs -> Requests] /\ (\A k \in Reqs : ReqSound(k)')
        <3> HIDE DEF r
        <3>1. r.put = <<r.payment, r.applied>>
            BY <1>2, <1>3, <2>2
        <3>2. r.payment \in Payments /\ r.status # "new" /\ r.status # "pending"
            BY <1>2, <2>2
        <3> QED BY <1>2, <2>1, <2>2, <3>1, <3>2, OneRequest
    <2>4. req'[i] = r
        BY <1>2, <1>3, <2>1 DEF TypeOK
    <2>5. req'[i].status # "pending"
        <3> HIDE DEF r
        <3> QED BY <2>2, <2>4
    <2> QED BY <1>1, <2>1, <2>3, <2>5, DecideMoves DEF At
<1>5. CASE ~Exists(i)
    BY <1>1, <1>3, <1>5, ThrowMoves DEF Write, At, TypeOK
<1> QED BY <1>4, <1>5

LEMMA RefuseStep ==
    ASSUME CInv, NEW p \in Procs, Refuse(p)
    PROVE  CInv'
<1> DEFINE i == job[p].id
<1>1. At(p, "refuse") /\ UNCHANGED <<contract, trouble>>
    BY DEF Refuse
<1>2. /\ i \in Reqs /\ req[i] \in Requests /\ req[i].status # "new" /\ req[i].payment \in Payments
      /\ job[p].payment = req[i].payment
    BY <1>1, AtHand DEF At
<1>3. ReqSound(i) /\ TypeOK
    BY <1>1, <1>2 DEF CInv, JobSound, At
<1>4. CASE Exists(i)
    <2> DEFINE r == [req[i] EXCEPT !.status = "rejected"]
    <2>1. req' = [req EXCEPT ![i] = r] /\ Decided(p)
        BY <1>3, <1>4 DEF Refuse, TypeOK
    <2>2. /\ r \in Requests /\ r.status = "rejected" /\ r.payment = req[i].payment
          /\ r.contract = req[i].contract
        BY <1>2 DEF Requests
    <2>3. Kept /\ req' \in [Reqs -> Requests] /\ (\A k \in Reqs : ReqSound(k)')
        <3> HIDE DEF r
        <3> QED BY <1>1, <1>2, <1>3, <2>1, <2>2, OneRequest DEF ReqSound
    <2>4. req'[i] = r
        BY <1>2, <1>3, <2>1 DEF TypeOK
    <2>5. req'[i].status # "pending"
        <3> HIDE DEF r
        <3> QED BY <2>2, <2>4
    <2> QED BY <1>1, <2>1, <2>3, <2>5, DecideMoves DEF At
<1>5. CASE ~Exists(i)
    BY <1>1, <1>3, <1>5, ThrowMoves DEF Refuse, At, TypeOK
<1> QED BY <1>4, <1>5

\* Steps that set agentState.
LEMMA AgentStateSteps ==
    ASSUME CInv, NEW p \in Procs
    PROVE  /\ Done(p) => CInv'
           /\ Claim(p) => CInv'
           /\ Leave(p) => CInv'
           /\ Reset(p) => CInv'
<1> DEFINE i == job[p].id
<1>0. TypeOK
    BY DEF CInv
<1>1. ASSUME Done(p) PROVE CInv'
    <2>1. At(p, "done") /\ SetAgent(i, "done") /\ UNCHANGED <<contract, trouble>>
        BY <1>1 DEF Done
    <2>2. i \in Reqs /\ req[i].status # "new"
        BY <2>1, AtHand DEF At
    <2>3. ~Pending(i)
        BY <2>1 DEF CInv, JobSound, At
    <2>4. Kept /\ req' \in [Reqs -> Requests] /\ (\A k \in Reqs : ReqSound(k)')
        BY <2>1, <2>2, <2>3, AgentSet
    <2>5. CASE Stop(p)
        BY <1>0, <2>1, <2>4, <2>5, StopFacts, IdleFacts, OneMoves DEF TypeOK
    <2>6. CASE ~Exists(i) /\ Throw(p)
        <3>1. req' = req
            BY <2>1, <2>6 DEF SetAgent
        <3> QED BY <1>0, <2>1, <2>6, <3>1, ThrowMoves DEF At, TypeOK
    <2> QED BY <1>1, <2>5, <2>6 DEF Done
<1>2. ASSUME Claim(p) PROVE CInv'
    <2>1. At(p, "claim") /\ UNCHANGED <<contract, trouble>>
        BY <1>2 DEF Claim
    <2>2. i \in Reqs /\ req[i].status # "new" /\ job[p].step \notin {"idle", "create"}
        BY <2>1, AtHand DEF At
    <2>3. CASE Go(p, "think") /\ SetAgent(i, "processing")
        <3>1. Kept /\ req' \in [Reqs -> Requests] /\ (\A k \in Reqs : ReqSound(k)')
            BY <2>1, <2>2, <2>3, AgentSet
        <3>2. JobSound(p)'
            BY <2>2, <2>3, <3>1, GoSound, StepNames
        <3> QED BY <1>0, <2>1, <2>3, <3>1, <3>2, GoFacts, StepNames, OneMoves DEF TypeOK
    <2>4. CASE Stop(p) /\ UNCHANGED req
        BY <1>0, <2>1, <2>4, StopFacts, IdleFacts, OnlyMoves DEF TypeOK
    <2> QED BY <1>2, <2>3, <2>4 DEF Claim
<1>3. ASSUME Leave(p) PROVE CInv'
    <2>1. At(p, "leave") /\ Stop(p) /\ SetAgent(i, "needs_review") /\ UNCHANGED <<contract, trouble>>
        BY <1>3 DEF Leave
    <2>2. i \in Reqs /\ req[i].status # "new"
        BY <2>1, AtHand DEF At
    <2>3. Kept /\ req' \in [Reqs -> Requests] /\ (\A k \in Reqs : ReqSound(k)')
        BY <2>1, <2>2, AgentSet
    <2> QED BY <1>0, <2>1, <2>3, StopFacts, IdleFacts, OneMoves DEF TypeOK
<1>4. ASSUME Reset(p) PROVE CInv'
    <2>1. At(p, "reset") /\ SetAgent(i, None) /\ UNCHANGED <<contract, trouble>>
        BY <1>4 DEF Reset
    <2>2. i \in Reqs /\ req[i].status # "new" /\ job[p].step \notin {"idle", "create"}
        BY <2>1, AtHand DEF At
    <2>3. Kept /\ req' \in [Reqs -> Requests] /\ (\A k \in Reqs : ReqSound(k)')
        BY <2>1, <2>2, AgentSet, CorrectionAssumption
    <2>4. CASE Stop(p)
        BY <1>0, <2>1, <2>3, <2>4, StopFacts, IdleFacts, OneMoves DEF TypeOK
    <2>5. CASE Go(p, "look")
        <3>1. JobSound(p)'
            BY <2>2, <2>3, <2>5, GoSound, StepNames
        <3> QED BY <1>0, <2>1, <2>3, <2>5, <3>1, GoFacts, StepNames, OneMoves DEF TypeOK
    <2> QED BY <1>4, <2>4, <2>5 DEF Reset
<1> QED BY <1>1, <1>2, <1>3, <1>4

LEMMA ClearStep == CInv /\ Clear => CInv'
<1> SUFFICES ASSUME CInv, Clear PROVE CInv'
    OBVIOUS
<1>0. TypeOK /\ trouble' \in 0..MaxTrouble
    BY CorrectionAssumption DEF CInv, TypeOK, Clear, Trouble
<1>1. PICK S \in {{"pending"}, {"approved"}, {"rejected"}, {"pending", "approved", "rejected"}} :
        req' = [id \in Reqs |-> IF req[id].status \in S
                               THEN [req[id] EXCEPT !.status = "cleared"] ELSE req[id]]
    BY DEF Clear
<1>2. ASSUME NEW id \in Reqs
      PROVE  /\ req'[id] \in Requests /\ req'[id].payment = req[id].payment
             /\ req'[id].contract = req[id].contract /\ req'[id].applied = req[id].applied
             /\ req'[id].put = req[id].put /\ req'[id].agent = req[id].agent
             /\ \/ req'[id].status = req[id].status
                \/ req'[id].status = "cleared" /\ req[id].status # "new"
    <2>1. req[id] \in Requests
        BY <1>0 DEF TypeOK
    <2>2. CASE req[id].status \in S
        <3>1. req'[id] = [req[id] EXCEPT !.status = "cleared"]
            BY <1>1, <2>2
        <3> QED BY <1>1, <2>1, <2>2, <3>1 DEF Requests
    <2>3. CASE req[id].status \notin S
        BY <1>1, <2>1, <2>3
    <2> QED BY <2>2, <2>3
<1>3. UNCHANGED <<contract, job>>
    BY DEF Clear
<1>4. Kept
    BY <1>2, <1>3 DEF Kept, Pending
<1>5. \A id \in Reqs : ReqSound(id)'
    BY <1>2, <1>3 DEF CInv, ReqSound, Pending
<1>6. \A p \in Procs : JobSound(p)'
    BY <1>3, <1>4, OthersSound
<1>7. req' \in [Reqs -> Requests]
    <2>1. req' = [id \in Reqs |-> req'[id]]
        BY <1>1
    <2> QED BY <1>2, <2>1
<1> QED BY <1>0, <1>3, <1>5, <1>6, <1>7 DEF CInv, TypeOK

LEMMA RestartStep == CInv /\ Restart => CInv'
<1> SUFFICES ASSUME CInv, Restart PROVE CInv'
    OBVIOUS
<1>1. TypeOK /\ trouble' \in 0..MaxTrouble
    BY CorrectionAssumption DEF CInv, TypeOK, Restart, Trouble
<1>2. UNCHANGED <<req, contract>> /\ job' = [p \in Procs |-> Idle]
    BY DEF Restart
<1>3. \A p \in Procs : JobSound(p)'
    BY <1>2, IdleFacts DEF JobSound
<1>4. \A id \in Reqs : ReqSound(id)'
    BY <1>2 DEF CInv, ReqSound, Pending
<1> QED BY <1>1, <1>2, <1>3, <1>4, IdleFacts DEF CInv, TypeOK

\* Every step of a submission, a decision or the agent keeps it so.
THEOREM InvStep == CInv /\ [Next]_vars => CInv'
<1> SUFFICES ASSUME CInv, [Next]_vars PROVE CInv'
    OBVIOUS
<1>1. ASSUME NEW p \in Procs, Submit(p) \/ Step(p) \/ Fail(p) PROVE CInv'
    BY <1>1, MoveSteps, CreateStep, EnterStep, WriteStep, RefuseStep, AgentStateSteps DEF Step
<1>2. ASSUME NEW p \in Procs, NEW id \in Reqs, Begin(p, id) PROVE CInv'
    BY <1>2, BeginSteps DEF Begin
<1>3. CASE Clear
    BY <1>3, ClearStep
<1>4. CASE Restart
    BY <1>4, RestartStep
<1>5. CASE UNCHANGED vars
    BY <1>5 DEF vars, CInv, TypeOK, ReqSound, JobSound, Pending
<1> QED BY <1>1, <1>2, <1>3, <1>4, <1>5 DEF Next

\* What CorrectionService and AgentAiService keep true between any two awaits.
THEOREM CorrectionInv == Spec => []CInv
<1> QED BY InvInit, InvStep, PTL DEF Spec

\* The types of the requests, the payments and the processes.
THEOREM CorrectionTypeCorrect == Spec => []TypeOK
<1>1. CInv => TypeOK
    BY DEF CInv
<1> QED BY <1>1, CorrectionInv, PTL

\* What an approved request says was applied is what the decision that approved
\* it (approve) had entered on its payment.
THEOREM CorrectionEntered == Spec => []ApprovedEntered
<1>1. CInv => ApprovedEntered
    BY DEF CInv, ReqSound, ApprovedEntered
<1> QED BY <1>1, CorrectionInv, PTL

\* The agent is done only with a request that was decided.
THEOREM CorrectionDone == Spec => []DoneIsDecided
<1>1. CInv => DoneIsDecided
    BY DEF CInv, ReqSound, DoneIsDecided
<1> QED BY <1>1, CorrectionInv, PTL

-----------------------------------------------------------------------------
(* The agent works alone on a request as long as nobody asks it to look again *)
(* from the chat: a request somebody works on has an agentState, and a claim   *)
(* needs one that is null.                                                     *)

\* Where a process may stand when there are no rechecks.
Placed(p) ==
    /\ job[p].step \notin {"reset", "look"}
    /\ job[p].as = "agent" => job[p].step \in AgentSteps \cup {"claim"}

AInv ==
    /\ \A p \in Procs : Placed(p)
    /\ \A p \in Agents, id \in Reqs : Works(p, id) => req[id].agent # None
    /\ AgentAlone

Marked == \A id \in Reqs : req[id].agent # None => req'[id].agent # None

LEMMA AgentsAreProcs == Agents \subseteq Procs
BY DEF Procs

\* A step of one process that starts no work keeps the agent alone.
LEMMA AloneKept ==
    ASSUME AInv, Marked, NEW p \in Procs, \A q \in Procs : q # p => job'[q] = job[q],
           Placed(p)', \A id \in Reqs : Works(p, id)' => Works(p, id)
    PROVE  AInv'
<1>1. \A q \in Procs : Placed(q)'
    BY DEF AInv, Placed
<1>2. \A q \in Procs, id \in Reqs : Works(q, id)' => Works(q, id)
    BY DEF Works
<1>3. \A q \in Agents, id \in Reqs : Works(q, id)' => req'[id].agent # None
    BY <1>2, AgentsAreProcs DEF AInv, Marked
<1>4. AgentAlone'
    BY <1>2, AgentsAreProcs DEF AInv, AgentAlone
<1> QED BY <1>1, <1>3, <1>4 DEF AInv

LEMMA Untouched == ASSUME req' = req PROVE Marked
BY DEF Marked

LEMMA SetMarks ==
    ASSUME CInv, NEW id \in Reqs, NEW s, s # None, SetAgent(id, s)
    PROVE  Marked
<1>1. req \in [Reqs -> Requests]
    BY DEF CInv, TypeOK
<1>2. CASE Exists(id)
    <2>1. \A i \in Reqs : req'[i] = IF i = id THEN [req[i] EXCEPT !.agent = s] ELSE req[i]
        BY <1>1, <1>2 DEF SetAgent
    <2>2. req[id] \in Requests
        BY <1>1
    <2>3. [req[id] EXCEPT !.agent = s].agent = s
        BY <2>2 DEF Requests
    <2> QED BY <2>1, <2>3 DEF Marked
<1>3. CASE ~Exists(id)
    BY <1>3 DEF SetAgent, Marked
<1> QED BY <1>2, <1>3

LEMMA MovesOne ==
    ASSUME CInv, NEW p \in Procs, NEW j, job' = [job EXCEPT ![p] = j]
    PROVE  job'[p] = j /\ \A q \in Procs : q # p => job'[q] = job[q]
BY DEF CInv, TypeOK

\* A process that stops.
LEMMA StopAlone ==
    ASSUME CInv, AInv, Marked, NEW p \in Procs, Stop(p)
    PROVE  AInv'
<1>1. job'[p] = Idle /\ \A q \in Procs : q # p => job'[q] = job[q]
    BY MovesOne DEF Stop
<1>2. Idle.step = "idle" /\ Idle.as # "agent"
    BY CorrectionAssumption DEF Idle
<1>3. Placed(p)' /\ \A id \in Reqs : Works(p, id)' => Works(p, id)
    BY <1>1, <1>2 DEF Placed, Works
<1> QED BY <1>1, <1>3, AloneKept

\* A process that takes up a job that is not yet the agent's work.
LEMMA TakesAlone ==
    ASSUME CInv, AInv, Marked, NEW p \in Procs, NEW j, job' = [job EXCEPT ![p] = j],
           j.step \notin {"reset", "look"}, j.as = "agent" => j.step = "claim"
    PROVE  AInv'
<1>1. job'[p] = j /\ \A q \in Procs : q # p => job'[q] = job[q]
    BY MovesOne
<1>2. Placed(p)' /\ \A id \in Reqs : Works(p, id)' => Works(p, id)
    BY <1>1 DEF Placed, Works, AgentSteps
<1> QED BY <1>1, <1>2, AloneKept

\* A process that goes on with its job.
LEMMA GoAlone ==
    ASSUME CInv, AInv, Marked, NEW p \in Procs, NEW j \in Jobs, job' = [job EXCEPT ![p] = j],
           j.as = job[p].as, j.id = job[p].id, j.step \in AgentSteps, job[p].step # "claim"
    PROVE  AInv'
<1>1. job'[p] = j /\ \A q \in Procs : q # p => job'[q] = job[q]
    BY MovesOne
<1>2. Placed(p)'
    BY <1>1 DEF Placed, AgentSteps
<1>3. \A id \in Reqs : Works(p, id)' => Works(p, id)
    BY <1>1 DEF Works, AInv, Placed
<1> QED BY <1>1, <1>2, <1>3, AloneKept

LEMMA GoOnAlone ==
    ASSUME CInv, AInv, Marked, NEW p \in Procs, NEW s \in AgentSteps, Go(p, s), job[p].step # "claim"
    PROVE  AInv'
<1>1. s \in Steps
    BY DEF AgentSteps, Steps
<1>2. /\ [job[p] EXCEPT !.step = s] \in Jobs
      /\ job' = [job EXCEPT ![p] = [job[p] EXCEPT !.step = s]]
    BY <1>1, GoFacts
<1>3. job[p] \in Jobs
    BY DEF CInv, TypeOK
<1>4. /\ [job[p] EXCEPT !.step = s].as = job[p].as /\ [job[p] EXCEPT !.step = s].id = job[p].id
      /\ [job[p] EXCEPT !.step = s].step = s
    BY <1>3 DEF Jobs
<1> QED BY <1>2, <1>4, GoAlone

LEMMA ThrowAlone ==
    ASSUME CInv, AInv, Marked, NEW p \in Procs, Throw(p)
    PROVE  AInv'
<1>1. CASE Stop(p)
    BY <1>1, StopAlone
<1>2. CASE Go(p, "leave") /\ job[p].step # "claim"
    BY <1>2, GoOnAlone DEF AgentSteps
<1> QED BY <1>1, <1>2 DEF Throw, At

LEMMA AloneTakes ==
    ASSUME CInv, AInv, ~Rechecks, NEW p \in Procs
    PROVE  /\ Submit(p) => AInv'
           /\ \A id \in Reqs : Begin(p, id) => AInv'
<1>1. ASSUME Submit(p) PROVE AInv'
    <2>1. PICK t \in Payments, c \in Proposals :
            \E f \in BOOLEAN : job' = [job EXCEPT ![p] = [Idle EXCEPT !.step = "create", !.payment = t,
                                                                   !.contract = c, !.file = f]]
        BY <1>1 DEF Submit
    <2>2. PICK f \in BOOLEAN : job' = [job EXCEPT ![p] = [Idle EXCEPT !.step = "create", !.payment = t,
                                                                   !.contract = c, !.file = f]]
        BY <2>1
    <2> DEFINE j == [Idle EXCEPT !.step = "create", !.payment = t, !.contract = c, !.file = f]
    <2>3. j.step = "create" /\ j.as # "agent" /\ job' = [job EXCEPT ![p] = j]
        BY <2>2, CorrectionAssumption DEF Idle
    <2> HIDE DEF j
    <2> QED BY <1>1, <2>3, TakesAlone, Untouched DEF Submit
<1>a. ASSUME NEW id \in Reqs, NEW c, NEW v, NEW who \in {"user", "chat"},
             job' = [job EXCEPT ![p] = Decision(id, v, c, who)], UNCHANGED <<req, contract, trouble>>
      PROVE  AInv'
    <2> DEFINE j == Decision(id, v, c, who)
    <2>1. j.step \in {"enter", "refuse"} /\ j.as # "agent"
        BY DEF Idle, Verdict, Decision
    <2>2. job' = [job EXCEPT ![p] = j]
        BY <1>a
    <2> HIDE DEF j
    <2> QED BY <1>a, <2>1, <2>2, TakesAlone, Untouched
<1>2. ASSUME NEW id \in Reqs, Take(p, id) PROVE AInv'
    BY <1>2, <1>a DEF Take
<1>3. ASSUME NEW id \in Reqs, Act(p, id) PROVE AInv'
    BY <1>3, <1>a DEF Act
<1>4. ASSUME NEW id \in Reqs, Look(p, id) PROVE AInv'
    <2>1. job' = [job EXCEPT ![p] = Task(id)] /\ Task(id).step = "claim" /\ Marked
        BY <1>4, Untouched DEF Look, Task
    <2> QED BY <2>1, TakesAlone
<1>5. \A id \in Reqs : ~Recheck(p, id)
    BY DEF Recheck
<1> QED BY <1>1, <1>2, <1>3, <1>4, <1>5 DEF Begin

LEMMA AloneCreate ==
    ASSUME CInv, AInv, NEW p \in Procs, Create(p)
    PROVE  AInv'
<1>0. req \in [Reqs -> Requests] /\ job \in [Procs -> Jobs]
    BY DEF CInv, TypeOK
<1>1. PICK id \in Reqs :
        /\ req[id].status = "new"
        /\ req' = [req EXCEPT ![id].status = "pending", ![id].payment = job[p].payment,
                              ![id].contract = job[p].contract,
                              ![id].file = p \in Submitters /\ job[p].file]
        /\ job' = [job EXCEPT ![p] = IF p \in Submitters THEN Idle
                                     ELSE [@ EXCEPT !.step = "review", !.id = id,
                                                    !.verdict = "approve", !.as = "user"]]
    BY DEF Create
<1>2. req[id].agent = None
    BY <1>1 DEF CInv, ReqSound
<1>3. \A i \in Reqs : i # id => req'[i] = req[i]
    BY <1>0, <1>1
<1>4. Marked
    BY <1>2, <1>3 DEF Marked
<1>5. CASE p \in Submitters
    <2>1. Stop(p)
        BY <1>1, <1>5 DEF Stop
    <2> QED BY <1>4, <2>1, StopAlone
<1>6. CASE p \notin Submitters
    <2> DEFINE j == [job[p] EXCEPT !.step = "review", !.id = id, !.verdict = "approve", !.as = "user"]
    <2>1. job' = [job EXCEPT ![p] = j]
        BY <1>0, <1>1, <1>6
    <2>2. job[p] \in Jobs
        BY <1>0
    <2>3. j.step = "review" /\ j.as = "user"
        BY <2>2 DEF Jobs
    <2> HIDE DEF j
    <2> QED BY <1>4, <2>1, <2>3, TakesAlone
<1> QED BY <1>5, <1>6

LEMMA AloneSteps ==
    ASSUME CInv, AInv, NEW p \in Procs
    PROVE  /\ Think(p) => AInv'
           /\ Review(p) => AInv'
           /\ Enter(p) => AInv'
           /\ Write(p) => AInv'
           /\ Refuse(p) => AInv'
           /\ Fail(p) => AInv'
           /\ Reset(p) => AInv'
           /\ LookAgain(p) => AInv'
<1>0. job \in [Procs -> Jobs] /\ job[p] \in Jobs /\ req \in [Reqs -> Requests]
    BY DEF CInv, TypeOK
<1>1. ASSUME Think(p) PROVE AInv'
    <2>1. PICK v \in Answers :
            job' = [job EXCEPT ![p].step = IF v = "human" THEN "leave" ELSE "review",
                               ![p].verdict = IF v = "human" THEN None ELSE v]
        BY <1>1 DEF Think
    <2> DEFINE j == [job[p] EXCEPT !.step = IF v = "human" THEN "leave" ELSE "review",
                                   !.verdict = IF v = "human" THEN None ELSE v]
    <2>2. job' = [job EXCEPT ![p] = j]
        BY <1>0, <2>1
    <2>3. j \in Jobs /\ j.as = job[p].as /\ j.id = job[p].id /\ j.step \in AgentSteps
        BY <1>0, StepNames DEF Jobs, AgentSteps, Answers
    <2>4. Marked /\ job[p].step # "claim"
        BY <1>1, Untouched DEF Think, At
    <2> HIDE DEF j
    <2> QED BY <2>2, <2>3, <2>4, GoAlone
<1>2. ASSUME Review(p) PROVE AInv'
    <2>0. Marked /\ job[p].step # "claim"
        BY <1>2, Untouched DEF Review, At
    <2>1. CASE Throw(p)
        BY <2>0, <2>1, ThrowAlone
    <2>2. CASE job' = [job EXCEPT ![p].step = Verdict(job[p].verdict),
                                  ![p].file = FALSE, ![p].verdict = None]
        <3> DEFINE j == [job[p] EXCEPT !.step = Verdict(job[p].verdict), !.file = FALSE, !.verdict = None]
        <3>1. job' = [job EXCEPT ![p] = j]
            BY <1>0, <2>2
        <3>2. j \in Jobs /\ j.as = job[p].as /\ j.id = job[p].id /\ j.step \in AgentSteps
            BY <1>0, StepNames DEF Jobs, AgentSteps, Verdict
        <3> HIDE DEF j
        <3> QED BY <2>0, <3>1, <3>2, GoAlone
    <2> QED BY <1>2, <2>1, <2>2 DEF Review
<1>3. ASSUME Enter(p) PROVE AInv'
    <2>1. PICK j \in Jobs :
            job' = [job EXCEPT ![p] = j] /\ j.as = job[p].as /\ j.id = job[p].id /\ j.step = "write"
        BY <1>3, EntersJob
    <2>2. Marked /\ job[p].step # "claim"
        BY <1>3, Untouched DEF Enter, At
    <2> QED BY <2>1, <2>2, GoAlone DEF AgentSteps
<1>4. ASSUME Marked, Decided(p), job[p].step # "claim" PROVE AInv'
    BY <1>4, StopAlone, GoOnAlone DEF Decided, AgentSteps
<1>5. ASSUME Write(p) PROVE AInv'
    <2>1. job[p].step # "claim"
        BY <1>5 DEF Write, At
    <2>2. CASE Throw(p) /\ UNCHANGED req
        BY <2>2, Untouched, ThrowAlone
    <2>3. CASE /\ Decided(p)
               /\ req' = [req EXCEPT ![job[p].id].status = "approved", ![job[p].id].file = TRUE,
                                     ![job[p].id].applied = Applied(p), ![job[p].id].put = job[p].put]
        <3>1. \A i \in Reqs : req'[i].agent = req[i].agent
            BY <1>0, <2>3 DEF Requests
        <3> QED BY <1>4, <2>1, <2>3, <3>1 DEF Marked
    <2> QED BY <1>5, <2>2, <2>3 DEF Write
<1>6. ASSUME Refuse(p) PROVE AInv'
    <2>1. job[p].step # "claim"
        BY <1>6 DEF Refuse, At
    <2>2. CASE Throw(p) /\ UNCHANGED req
        BY <2>2, Untouched, ThrowAlone
    <2>3. CASE Decided(p) /\ req' = [req EXCEPT ![job[p].id].status = "rejected"]
        <3>1. \A i \in Reqs : req'[i].agent = req[i].agent
            BY <1>0, <2>3 DEF Requests
        <3> QED BY <1>4, <2>1, <2>3, <3>1 DEF Marked
    <2> QED BY <1>6, <2>2, <2>3 DEF Refuse
<1>7. ASSUME Fail(p) PROVE AInv'
    BY <1>7, Untouched, ThrowAlone DEF Fail
<1>8. ~Reset(p) /\ ~LookAgain(p)
    BY DEF Reset, LookAgain, At, AInv, Placed
<1> QED BY <1>1, <1>2, <1>3, <1>5, <1>6, <1>7, <1>8

LEMMA AloneAgent ==
    ASSUME CInv, AInv, NEW p \in Procs
    PROVE  /\ Done(p) => AInv'
           /\ Leave(p) => AInv'
           /\ Claim(p) => AInv'
<1> DEFINE i == job[p].id
<1>1. ASSUME Done(p) PROVE AInv'
    <2>1. At(p, "done") /\ SetAgent(i, "done")
        BY <1>1 DEF Done
    <2>2. Marked
        BY <2>1, AtHand, SetMarks, CorrectionAssumption DEF At
    <2> QED BY <1>1, <2>2, StopAlone, ThrowAlone DEF Done
<1>2. ASSUME Leave(p) PROVE AInv'
    <2>1. At(p, "leave") /\ Stop(p) /\ SetAgent(i, "needs_review")
        BY <1>2 DEF Leave
    <2>2. Marked
        BY <2>1, AtHand, SetMarks, CorrectionAssumption DEF At
    <2> QED BY <2>1, <2>2, StopAlone
<1>3. ASSUME Claim(p) PROVE AInv'
    <2>1. At(p, "claim") /\ i \in Reqs
        BY <1>3, AtHand DEF Claim, At
    <2>2. CASE Stop(p) /\ UNCHANGED req
        BY <2>2, Untouched, StopAlone
    <2>3. CASE Waiting(i) /\ Go(p, "think") /\ SetAgent(i, "processing")
        <3>1. Marked /\ req[i].agent = None
            BY <2>1, <2>3, SetMarks, CorrectionAssumption DEF Waiting
        <3>2. req'[i].agent = "processing"
            <4>1. Exists(i)
                BY <2>3 DEF Waiting, Pending, Exists
            <4>2. req \in [Reqs -> Requests] /\ req[i] \in Requests
                BY <2>1 DEF CInv, TypeOK
            <4>3. req'[i] = [req[i] EXCEPT !.agent = "processing"]
                BY <2>1, <2>3, <4>1, <4>2 DEF SetAgent
            <4> QED BY <4>2, <4>3 DEF Requests
        <3>3. /\ job'[p].step = "think" /\ job'[p].id = i /\ job'[p].as = job[p].as
              /\ job' = [job EXCEPT ![p] = [job[p] EXCEPT !.step = "think"]]
            BY <2>3, GoFacts, StepNames
        <3>4. \A q \in Procs : q # p => job'[q] = job[q]
            BY <3>3, MovesOne
        <3>5. \A q \in Procs : Placed(q)'
            BY <3>3, <3>4 DEF AInv, Placed, AgentSteps
        <3>6. \A q \in Agents, id \in Reqs : Works(q, id)' => Works(q, id) \/ (q = p /\ id = i)
            BY <3>3, <3>4, AgentsAreProcs DEF Works
        <3>7. \A q \in Agents : ~Works(q, i)
            BY <2>1, <3>1 DEF AInv
        <3>8. \A q \in Agents, id \in Reqs : Works(q, id)' => req'[id].agent # None
            BY <3>1, <3>2, <3>6, CorrectionAssumption DEF AInv, Marked
        <3>9. AgentAlone'
            <4>1. ASSUME NEW q \in Agents, NEW r \in Agents, NEW id \in Reqs,
                         Works(q, id)', Works(r, id)'
                  PROVE  q = r
                <5>1. CASE id = i
                    BY <3>6, <3>7, <4>1, <5>1
                <5>2. CASE id # i
                    BY <3>6, <4>1, <5>2 DEF AInv, AgentAlone
                <5> QED BY <5>1, <5>2
            <4> QED BY <4>1 DEF AgentAlone
        <3> QED BY <3>5, <3>8, <3>9 DEF AInv
    <2> QED BY <1>3, <2>2, <2>3 DEF Claim, Claimable
<1> QED BY <1>1, <1>2, <1>3

\* Clearing and restarts start no work.
LEMMA AloneOthers ==
    ASSUME CInv, AInv
    PROVE  /\ Clear => AInv'
           /\ Restart => AInv'
           /\ UNCHANGED vars => AInv'
<1>0. req \in [Reqs -> Requests]
    BY DEF CInv, TypeOK
<1>1. ASSUME UNCHANGED job, \A id \in Reqs : req'[id].agent = req[id].agent PROVE AInv'
    BY <1>1 DEF AInv, Placed, Works, AgentAlone
<1>2. ASSUME Clear PROVE AInv'
    <2>1. PICK S \in {{"pending"}, {"approved"}, {"rejected"}, {"pending", "approved", "rejected"}} :
            req' = [id \in Reqs |-> IF req[id].status \in S
                                   THEN [req[id] EXCEPT !.status = "cleared"] ELSE req[id]]
        BY <1>2 DEF Clear
    <2>2. ASSUME NEW id \in Reqs PROVE req'[id].agent = req[id].agent
        <3>1. req[id] \in Requests
            BY <1>0
        <3> QED BY <2>1, <3>1 DEF Requests
    <2> QED BY <1>1, <1>2, <2>2 DEF Clear
<1>3. ASSUME Restart PROVE AInv'
    <2>1. UNCHANGED req /\ job' = [p \in Procs |-> Idle]
        BY <1>3 DEF Restart
    <2>2. Idle.step = "idle" /\ Idle.as # "agent"
        BY CorrectionAssumption DEF Idle
    <2> QED BY <2>1, <2>2, AgentsAreProcs DEF AInv, Placed, Works, AgentAlone
<1>4. ASSUME UNCHANGED vars PROVE AInv'
    BY <1>1, <1>4 DEF vars
<1> QED BY <1>2, <1>3, <1>4

LEMMA AloneNext == CInv /\ AInv /\ ~Rechecks /\ [Next]_vars => AInv'
<1> SUFFICES ASSUME CInv, AInv, ~Rechecks, [Next]_vars PROVE AInv'
    OBVIOUS
<1>1. ASSUME NEW p \in Procs, Step(p) \/ Fail(p) PROVE AInv'
    BY <1>1, AloneCreate, AloneSteps, AloneAgent DEF Step
<1>2. ASSUME NEW p \in Procs, NEW id \in Reqs, Begin(p, id) PROVE AInv'
    BY <1>2, AloneTakes
<1>3. ASSUME NEW p \in Procs, Submit(p) PROVE AInv'
    BY <1>3, AloneTakes
<1>4. CASE Clear \/ Restart \/ UNCHANGED vars
    BY <1>4, AloneOthers
<1> QED BY <1>1, <1>2, <1>3, <1>4 DEF Next

\* Without rechecks no two runs of the agent work on one request together.
THEOREM CorrectionAlone == ASSUME ~Rechecks PROVE Spec => []AgentAlone
<1>1. Init => AInv
    <2>1. Idle.step = "idle" /\ Idle.as # "agent"
        BY CorrectionAssumption DEF Idle
    <2> QED BY <2>1, AgentsAreProcs DEF Init, AInv, Placed, Works, AgentAlone
<1>2. CInv /\ AInv /\ [Next]_vars => AInv'
    BY AloneNext
<1>3. AInv => AgentAlone
    BY DEF AInv
<1> QED BY <1>1, <1>2, <1>3, CorrectionInv, PTL DEF Spec
=============================================================================
