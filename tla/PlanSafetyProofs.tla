-------------------------- MODULE PlanSafetyProofs --------------------------
(***************************************************************************)
(* What the plan executor may leave behind, for any plans, files and       *)
(* bounds, when no stop separates phase 2 from the deploy lock and no edit *)
(* by hand meets a file the bot is replacing: only whole plans on origin,  *)
(* a "failed" that is true, no residue in the checkout.                    *)
(***************************************************************************)
EXTENDS PlanLedgerProofs

-----------------------------------------------------------------------------
(* Branches *)

\* Plan u applied to the tree x.
Applied(x, u) == [f \in Files |-> IF f \in Touch[u] THEN u ELSE x[f]]

\* Branch s starts with branch b.
Extending(s, b) == Len(b) <= Len(s) /\ \A i \in 1..Len(b) : s[i] = b[i]

DevStep(x, y) == \E f \in Files : x[f] # "dev" /\ y = [x EXCEPT ![f] = "dev"]
PlanStep(s, i) ==
    \E u \in Tokens :
        /\ verdict[u] = "approved" /\ s[i] = Applied(s[i - 1], u)
        /\ \A j \in 1..(i - 1) : \A g \in Files : s[j][g] # u

\* Every commit is a developer's or a plan the branch did not have before.
Grown(s) == \A i \in 2..Len(s) : DevStep(s[i - 1], s[i]) \/ PlanStep(s, i)
NoHand(s) == \A i \in 1..Len(s) : \A f \in Files : s[i][f] # "hand"

LEMMA ExtendingPrefix ==
    ASSUME NEW s \in Seq(Trees), NEW b \in Seq(Trees), IsPrefix(b, s)
    PROVE  Extending(s, b)
<1>1. Len(b) <= Len(s) /\ SubSeq(b, 1, Len(b)) = SubSeq(s, 1, Len(b))
    BY DEF IsPrefix
<1>2. ASSUME NEW i \in 1..Len(b) PROVE s[i] = b[i]
    <2>1. SubSeq(b, 1, Len(b))[i] = b[i] /\ SubSeq(s, 1, Len(b))[i] = s[i]
        BY <1>1
    <2> QED BY <1>1, <2>1
<1> QED BY <1>1, <1>2 DEF Extending

LEMMA PrefixExtending ==
    ASSUME NEW s \in Seq(Trees), NEW b \in Seq(Trees), Extending(s, b)
    PROVE  IsPrefix(b, s)
<1>1. Len(b) <= Len(s) /\ \A i \in 1..Len(b) : s[i] = b[i]
    BY DEF Extending
<1>2. SubSeq(b, 1, Len(b)) = SubSeq(s, 1, Len(b))
    <2>1. SubSeq(b, 1, Len(b)) \in Seq(Trees) /\ Len(SubSeq(b, 1, Len(b))) = Len(b)
        BY SubSeqProperties
    <2>2. SubSeq(s, 1, Len(b)) \in Seq(Trees) /\ Len(SubSeq(s, 1, Len(b))) = Len(b)
        BY <1>1, SubSeqProperties
    <2>3. ASSUME NEW i \in 1..Len(b) PROVE SubSeq(b, 1, Len(b))[i] = SubSeq(s, 1, Len(b))[i]
        BY <1>1, <2>3
    <2> HIDE DEF IsPrefix
    <2> QED BY <2>1, <2>2, <2>3, SeqEqual
<1> QED BY <1>1, <1>2 DEF IsPrefix

LEMMA ExtendingSelf ==
    ASSUME NEW s \in Seq(Trees)
    PROVE  Extending(s, s)
BY DEF Extending

LEMMA ExtendingAppend ==
    ASSUME NEW s \in Seq(Trees), NEW x \in Trees, NEW b \in Seq(Trees), Extending(s, b)
    PROVE  Extending(Append(s, x), b)
BY DEF Extending

LEMMA AppliedFacts ==
    ASSUME NEW x \in Trees, NEW u \in Tokens
    PROVE  /\ Applied(x, u) \in Trees
           /\ \A f \in Touch[u] : f \in Files /\ Applied(x, u)[f] = u
           /\ \A f \in Files : Applied(x, u)[f] \in {u, x[f]}
BY PlanAssumption DEF Applied, Trees, Contents

\* What is not published is in no tree of origin.
LEMMA NotPublished ==
    ASSUME NEW u \in Tokens, u \notin Published, NEW i \in 1..Len(origin), NEW g \in Files
    PROVE  origin[i][g] # u
BY DEF Published, InBranch

\* A branch of fresh plans and developers' commits consists of whole plans.
LEMMA GrownWhole ==
    ASSUME RepoType, Grown(origin)
    PROVE  WholePlansPushed
<1> DEFINE By(i, t) == origin[i] = [f \in Files |-> IF f \in Touch[t] THEN t ELSE origin[i - 1][f]]
           ByDev(i) == \E f \in Files : origin[i] = [origin[i - 1] EXCEPT ![f] = "dev"]
<1>1. ASSUME NEW i \in 2..Len(origin)
      PROVE  ByDev(i) \/ \E t \in Tokens : verdict[t] = "approved" /\ By(i, t)
    BY DEF Grown, DevStep, PlanStep, Applied
<1>2. ASSUME NEW i \in 2..Len(origin), NEW t \in Tokens, By(i, t)
      PROVE  \A j \in 1..(i - 1) : \A g \in Files : origin[j][g] # t
    <2>1. i \in 1..Len(origin) /\ i - 1 \in 1..Len(origin)
        BY DEF RepoType
    <2>2. origin[i] \in Trees /\ origin[i - 1] \in Trees
        BY <2>1 DEF RepoType
    <2>3. PICK h \in Touch[t] : h \in Files
        BY PlanAssumption
    <2>4. \A g \in Files : origin[i][g] = IF g \in Touch[t] THEN t ELSE origin[i - 1][g]
        BY <1>2
    <2>5. CASE DevStep(origin[i - 1], origin[i])
        <3>1. PICK f \in Files : origin[i - 1][f] # "dev" /\ origin[i] = [origin[i - 1] EXCEPT ![f] = "dev"]
            BY <2>5 DEF DevStep
        <3>2. origin[i][f] = "dev"
            BY <2>2, <3>1 DEF Trees
        <3> QED BY <2>4, <3>1, <3>2, PlanAssumption
    <2>6. CASE PlanStep(origin, i)
        <3>1. PICK u \in Tokens :
                  /\ origin[i] = Applied(origin[i - 1], u)
                  /\ \A j \in 1..(i - 1) : \A g \in Files : origin[j][g] # u
            BY <2>6 DEF PlanStep
        <3>2. PICK g \in Touch[u] : g \in Files
            BY PlanAssumption
        <3>3. origin[i][g] = u
            BY <2>2, <3>1, <3>2, AppliedFacts
        <3>4. i - 1 \in 1..(i - 1)
            BY <2>1
        <3>5. origin[i - 1][g] # u
            BY <3>1, <3>2, <3>4
        <3>6. t = u
            BY <2>4, <3>2, <3>3, <3>5
        <3> QED BY <3>1, <3>6
    <2> QED BY <2>5, <2>6 DEF Grown
<1>3. ASSUME NEW i \in 2..Len(origin), NEW j \in 2..Len(origin), NEW t \in Tokens, By(i, t), By(j, t)
      PROVE  ~(i < j)
    <2>1. PICK h \in Touch[t] : h \in Files
        BY PlanAssumption
    <2>2. origin[i][h] = t
        BY <1>3, <2>1
    <2>3. i < j => i \in 1..(j - 1)
        BY DEF RepoType
    <2> QED BY <1>2, <1>3, <2>1, <2>2, <2>3
<1>4. ASSUME NEW i \in 2..Len(origin), NEW j \in 2..Len(origin), NEW t \in Tokens, By(i, t), By(j, t)
      PROVE  i = j
    <2>1. ~(i < j) /\ ~(j < i)
        BY <1>3, <1>4
    <2> QED BY <2>1 DEF RepoType
<1>5. \A i \in 2..Len(origin) : ByDev(i) \/ \E t \in Tokens : verdict[t] = "approved" /\ By(i, t)
    BY <1>1
<1>6. \A i, j \in 2..Len(origin) : \A t \in Tokens : By(i, t) /\ By(j, t) => i = j
    BY <1>4
<1> QED BY <1>5, <1>6, Zenon DEF WholePlansPushed

-----------------------------------------------------------------------------
(* Only whole plans are pushed *)

\* The steps before a plan's own push, and those with its tree in hand.
Before == {"begin", "prepare", "flock", "recheck", "write", "commit", "save", "push"}
Fitting == {"write", "commit", "save", "push"}

\* A plan is not on origin before it is claimed and its own push was tried.
Fresh(u) == u \notin run \/ pc[u] \in Before => u \notin Published

\* What will be pushed is the reviewed branch and exactly plan u on top of it.
Fitted(u) ==
    /\ pc[u] = "write" => head = base /\ idx = Tip(base)
    /\ pc[u] = "commit" => head = base /\ idx = Applied(Tip(base), u)
    /\ pc[u] \in {"save", "push"} => head = Append(base, Applied(Tip(base), u))
    /\ pc[u] \in Fitting => base # <<>> /\ Extending(origin, base)

WholeInv == Grown(origin) /\ NoHand(origin) /\ \A u \in Tokens : Fresh(u) /\ Fitted(u)

\* A step that leaves origin and the tree in hand as they were.
WholeKept ==
    /\ origin' = origin /\ run \subseteq run'
    /\ \A u \in Tokens : verdict[u] = "approved" => verdict'[u] = "approved"
    /\ \A u \in Tokens : pc'[u] \in Before => pc[u] \in Before \/ u \notin run
    /\ \A u \in Tokens : pc'[u] \in Fitting =>
         /\ pc'[u] = pc[u] \/ {pc[u], pc'[u]} \subseteq {"save", "push"}
         /\ head' = head /\ base' = base /\ idx' = idx

LEMMA WholeKeeps ==
    ASSUME WholeInv, WholeKept
    PROVE  WholeInv'
<1>1. Published' = Published
    BY DEF WholeKept, Published
<1>2. Grown(origin)' /\ NoHand(origin)'
    BY DEF WholeInv, WholeKept, Grown, PlanStep, NoHand
<1>3. ASSUME NEW u \in Tokens PROVE Fresh(u)' /\ Fitted(u)'
    <2>1. Fresh(u) /\ Fitted(u)
        BY DEF WholeInv
    <2>2. Fresh(u)'
        BY <1>1, <2>1 DEF WholeKept, Fresh
    <2>3. Fitted(u)'
        BY <2>1 DEF WholeKept, Fitted, Fitting, Extending
    <2> QED BY <2>2, <2>3
<1> QED BY <1>2, <1>3 DEF WholeInv

\* The actions that leave them so.
LEMMA WholeQuiet ==
    ASSUME LedgerInv, ~Stops, ~LateEdits, NEW t \in Tokens, NEW a \in BOOLEAN, NEW f \in Files
    PROVE  /\ Offer(t) => WholeKept
           /\ Press(t, a) => WholeKept
           /\ Close(t) => WholeKept
           /\ Begin(t) => WholeKept
           /\ Prepare(t) => WholeKept
           /\ TakeFlock(t) => WholeKept
           /\ SaveCommit(t) => WholeKept
           /\ Ask(t) => WholeKept
           /\ SavePushed(t) => WholeKept
           /\ Undo(t) => WholeKept
           /\ Unstage(t) => WholeKept
           /\ Restored(t) => WholeKept
           /\ Report(t) => WholeKept
           /\ Finish(t) => WholeKept
           /\ Leave(t) => WholeKept
           /\ StopEnds(t) => WholeKept
           /\ RecoverRead(t) => WholeKept
           /\ RecoverScan(t) => WholeKept
           /\ RecoverTell(t) => WholeKept
           /\ RecoverEnd(t) => WholeKept
           /\ WriteFile(t, f) => WholeKept
           /\ RestoreFile(t, f) => WholeKept
           /\ RecoverFile(t, f) => WholeKept
           /\ Announce(t) => WholeKept
<1> USE DEF LedgerInv, TypeOK, kv, json, repo, local, said, Go, ProcType
<1>1. Offer(t) => WholeKept
    BY DEF Offer, WholeKept
<1>2. Press(t, a) => WholeKept
    BY DEF Press, Claim, WholeKept, Fitting, Claimed
<1>3. Close(t) => WholeKept
    BY DEF Close, WholeKept, Before, Fitting
<1>4. Begin(t) => WholeKept
    BY DEF Begin, WholeKept, Before, Fitting
<1>5. Prepare(t) => WholeKept
    BY DEF Prepare, WholeKept, Before, Fitting, Exclusive, Holding, Writing
<1>6. TakeFlock(t) => WholeKept
    BY DEF TakeFlock, WholeKept, Before, Fitting
<1>7. SaveCommit(t) => WholeKept
    BY DEF SaveCommit, WholeKept, Before
<1>8. Ask(t) => WholeKept
    BY DEF Ask, AskRemote, WholeKept, Before, Fitting
<1>9. SavePushed(t) => WholeKept
    BY DEF SavePushed, WholeKept, Before, Fitting
<1>10. Undo(t) => WholeKept
    BY DEF Undo, WholeKept, Before, Fitting, Exclusive, Holding, Writing
<1>11. Unstage(t) => WholeKept
    BY DEF Unstage, WholeKept, Before, Fitting, Exclusive, Holding, Writing
<1>12. Restored(t) => WholeKept
    BY DEF Restored, WholeKept, Before, Fitting
<1>13. Report(t) => WholeKept
    BY DEF Report, WholeKept, Before, Fitting
<1>14. Finish(t) => WholeKept
    BY DEF Finish, WholeKept, Before, Fitting
<1>15. Leave(t) => WholeKept
    BY DEF Leave, WholeKept, Before, Fitting, Exclusive, Holding, Writing
<1>16. StopEnds(t) => WholeKept
    BY DEF StopEnds, Idle, WholeKept, Before, Fitting
<1>17. RecoverRead(t) => WholeKept
    BY DEF RecoverRead, Idle, WholeKept, Before, Fitting
<1>18. RecoverScan(t) => WholeKept
    BY DEF RecoverScan, WholeKept, Before, Fitting, Modes, Holding, Writing
<1>19. RecoverTell(t) => WholeKept
    BY DEF RecoverTell, WholeKept, Before, Fitting
<1>20. RecoverEnd(t) => WholeKept
    BY DEF RecoverEnd, WholeKept, Before, Fitting
<1>21. WriteFile(t, f) => WholeKept
    BY DEF WriteFile, WholeKept, Before, Fitting
<1>22. RestoreFile(t, f) => WholeKept
    BY DEF RestoreFile, WholeKept
<1>23. RecoverFile(t, f) => WholeKept
    BY DEF RecoverFile, WholeKept
<1>24. Announce(t) => WholeKept
    BY DEF Announce, Send, WholeKept, Before, Fitting
<1> QED BY <1>1, <1>2, <1>3, <1>4, <1>5, <1>6, <1>7, <1>8, <1>9, <1>10, <1>11, <1>12, <1>13,
       <1>14, <1>15, <1>16, <1>17, <1>18, <1>19, <1>20, <1>21, <1>22, <1>23, <1>24

LEMMA WholeAround ==
    ASSUME LedgerInv, ~Stops, ~LateEdits, NEW k \in Leases
    PROVE  /\ Purge => WholeKept
           /\ Expire(k) => WholeKept
           /\ Crash => WholeKept
           /\ Boot => WholeKept
           /\ Booted => WholeKept
           /\ DeployReset => WholeKept
           /\ DeployEnd => WholeKept
<1> USE DEF LedgerInv, TypeOK, kv, json, repo, local, said, Go, ProcType
<1>1. Purge => WholeKept
    BY DEF Purge, WholeKept
<1>2. Expire(k) => WholeKept
    BY DEF Expire, WholeKept
<1>3. Crash => WholeKept
    BY DEF Crash, Idle, WholeKept, Before, Fitting
<1>4. Boot => WholeKept
    BY DEF Boot, WholeKept
<1>5. Booted => WholeKept
    BY DEF Booted, WholeKept
<1>6. DeployReset => WholeKept
    BY PlanAssumption DEF DeployReset, WholeKept, Fitting, Locked, Writing
<1>7. DeployEnd => WholeKept
    BY DEF DeployEnd, WholeKept
<1> QED BY <1>1, <1>2, <1>3, <1>4, <1>5, <1>6, <1>7

\* The review, the staging and the commit keep to the reviewed branch.
LEMMA WholeBuild ==
    ASSUME LedgerInv, WholeInv, ~Stops, ~LateEdits, NEW t \in Tokens
    PROVE  /\ Review(t) => WholeInv'
           /\ Add(t) => WholeInv'
           /\ Commit(t) => WholeInv'
<1> USE DEF LedgerInv, TypeOK, kv, json, repo, local, said, Go, ProcType
<1>0. ASSUME origin' = origin, verdict' = verdict, run' = run,
             \A u \in Tokens : pc'[u] \in Before => pc[u] \in Before,
             \A u \in Tokens \ {t} : pc'[u] \notin Fitting,
             Fitted(t)'
      PROVE  WholeInv'
    <2>1. Published' = Published
        BY <1>0 DEF Published
    <2>2. Grown(origin)' /\ NoHand(origin)'
        BY <1>0 DEF WholeInv, Grown, PlanStep, NoHand
    <2>3. ASSUME NEW u \in Tokens PROVE Fresh(u)' /\ Fitted(u)'
        <3>1. Fresh(u)'
            BY <1>0, <2>1 DEF WholeInv, Fresh
        <3>2. u # t => Fitted(u)'
            BY <1>0 DEF Fitted, Fitting
        <3> QED BY <1>0, <3>1, <3>2
    <2> QED BY <2>2, <2>3 DEF WholeInv
<1>1. Review(t) => WholeInv'
    <2> SUFFICES ASSUME Review(t) PROVE WholeInv'
        OBVIOUS
    <2>1. UNCHANGED <<origin, verdict, run, head, idx, base>>
        BY DEF Review
    <2>2. \A u \in Tokens : pc'[u] \in Before => pc[u] \in Before
        BY DEF Review, Before
    <2>3. \A u \in Tokens \ {t} : pc'[u] \notin Fitting
        BY DEF Review, Fitting, Exclusive, Holding, Writing
    <2>4. Fitted(t)'
        <3>1. CASE pc'[t] = "write"
            <4>1. origin = head /\ head = base /\ idx = Tip(head)
                BY <3>1 DEF Review, Preconditions
            <4>2. Extending(origin, base) /\ base # <<>>
                BY <4>1, ExtendingSelf DEF RepoType
            <4> QED BY <2>1, <3>1, <4>1, <4>2 DEF Fitted, Fitting, Extending, Tip
        <3>2. CASE pc'[t] # "write"
            BY <3>2 DEF Review, Fitted, Fitting
        <3> QED BY <3>1, <3>2
    <2> QED BY <1>0, <2>1, <2>2, <2>3, <2>4
<1>2. Add(t) => WholeInv'
    <2> SUFFICES ASSUME Add(t) PROVE WholeInv'
        OBVIOUS
    <2>1. UNCHANGED <<origin, verdict, run, head, base>>
        BY DEF Add
    <2>2. \A u \in Tokens : pc'[u] \in Before => pc[u] \in Before
        BY DEF Add, Before
    <2>3. \A u \in Tokens \ {t} : pc'[u] \notin Fitting
        BY DEF Add, Fitting, Exclusive, Holding, Writing
    <2>4. Fitted(t)'
        <3>1. Fitted(t) /\ pc[t] = "write" /\ pc'[t] \in {"commit", "undo"}
            BY DEF Add, WholeInv
        <3>2. head = base /\ idx = Tip(base) /\ base # <<>> /\ Extending(origin, base)
            BY <3>1 DEF Fitted, Fitting
        <3>3. \A f \in Touch[t] : work[f] = t
            BY DEF Add, Carried, CarriedBy
        <3>4. idx' = Applied(idx, t)
            BY <3>3 DEF Add, Applied
        <3> QED BY <2>1, <3>1, <3>2, <3>4 DEF Fitted, Fitting, Extending, Tip
    <2> QED BY <1>0, <2>1, <2>2, <2>3, <2>4
<1>3. Commit(t) => WholeInv'
    <2> SUFFICES ASSUME Commit(t) PROVE WholeInv'
        OBVIOUS
    <2>1. UNCHANGED <<origin, verdict, run, idx, base>>
        BY DEF Commit
    <2>2. \A u \in Tokens : pc'[u] \in Before => pc[u] \in Before
        BY DEF Commit, Before
    <2>3. \A u \in Tokens \ {t} : pc'[u] \notin Fitting
        BY DEF Commit, Fitting, Exclusive, Holding, Writing
    <2>4. Fitted(t)'
        <3>1. Fitted(t) /\ pc[t] = "commit" /\ pc'[t] \in {"save", "undo"}
            BY DEF Commit, WholeInv
        <3>2. head = base /\ idx = Applied(Tip(base), t) /\ base # <<>> /\ Extending(origin, base)
            BY <3>1 DEF Fitted, Fitting
        <3>3. pc'[t] = "save" => head' = Append(head, idx)
            BY DEF Commit
        <3> QED BY <2>1, <3>1, <3>2, <3>3 DEF Fitted, Fitting, Extending, Tip
    <2> QED BY <1>0, <2>1, <2>2, <2>3, <2>4
<1> QED BY <1>1, <1>2, <1>3

\* A developer's commit is one of the branch's whole commits.
LEMMA WholeDev ==
    ASSUME LedgerInv, WholeInv, NEW f \in Files, DevPush(f)
    PROVE  WholeInv'
<1> USE DEF LedgerInv, TypeOK, kv, json, repo, local, said
<1> DEFINE x == [Tip(origin) EXCEPT ![f] = "dev"]
<1>1. origin' = Append(origin, x) /\ Tip(origin)[f] # "dev" /\ UNCHANGED <<verdict, run, pc, head, base, idx>>
    BY DEF DevPush
<1>2. Tip(origin) \in Trees /\ x \in Trees
    BY BranchFacts, TreeFacts, ContentFacts DEF RepoType
<1>3. Published' = Published
    BY DevPublishesNothing
<1>4. Len(origin') = Len(origin) + 1 /\ origin'[Len(origin) + 1] = x
      /\ \A i \in 1..Len(origin) : origin'[i] = origin[i]
    BY <1>1, <1>2 DEF RepoType
<1>5. Grown(origin)'
    <2> SUFFICES ASSUME NEW i \in 2..Len(origin')
                 PROVE  DevStep(origin'[i - 1], origin'[i]) \/ PlanStep(origin, i)'
        BY DEF Grown
    <2>1. CASE i <= Len(origin)
        <3>1. i \in 2..Len(origin) /\ \A j \in 1..i : origin'[j] = origin[j]
            BY <1>4, <2>1 DEF RepoType
        <3>2. DevStep(origin[i - 1], origin[i]) \/ PlanStep(origin, i)
            BY <3>1 DEF WholeInv, Grown
        <3>3. origin'[i] = origin[i] /\ origin'[i - 1] = origin[i - 1]
              /\ \A j \in 1..(i - 1) : origin'[j] = origin[j]
            BY <3>1
        <3>4. PlanStep(origin, i) => PlanStep(origin, i)'
            BY <1>1, <3>3 DEF PlanStep
        <3> QED BY <3>2, <3>3, <3>4
    <2>2. CASE i = Len(origin) + 1
        <3>1. origin'[i - 1] = Tip(origin) /\ origin'[i] = x
            BY <1>4, <2>2 DEF RepoType, Tip
        <3> QED BY <1>1, <3>1 DEF DevStep
    <2> QED BY <1>4, <2>1, <2>2 DEF RepoType
<1>6. NoHand(origin)'
    <2> SUFFICES ASSUME NEW i \in 1..Len(origin'), NEW g \in Files PROVE origin'[i][g] # "hand"
        BY DEF NoHand
    <2>1. Tip(origin)[g] # "hand"
        BY DEF Tip, RepoType, WholeInv, NoHand
    <2>2. x[g] # "hand"
        BY <1>2, <2>1 DEF Trees
    <2>3. i \in 1..Len(origin) \/ i = Len(origin) + 1
        BY <1>4 DEF RepoType
    <2> HIDE DEF x
    <2> QED BY <1>4, <2>2, <2>3 DEF WholeInv, NoHand
<1>7. ASSUME NEW u \in Tokens PROVE Fresh(u)' /\ Fitted(u)'
    <2>1. Fresh(u) /\ Fitted(u)
        BY DEF WholeInv
    <2>2. Fresh(u)'
        BY <1>1, <1>3, <2>1 DEF Fresh
    <2>3. Extending(origin, base) => Extending(origin, base)'
        <3> HIDE DEF x
        <3> QED BY <1>1, <1>2, ExtendingAppend DEF RepoType, LocalType, Extending
    <2>4. Fitted(u)'
        BY <1>1, <2>1, <2>3 DEF Fitted, Tip
    <2> QED BY <2>2, <2>4
<1> QED BY <1>5, <1>6, <1>7 DEF WholeInv

\* A plan's push adds that plan, whole, and it was not there before.
LEMMA WholePush ==
    ASSUME LedgerInv, WholeInv, NEW t \in Tokens, Push(t)
    PROVE  WholeInv'
<1> USE DEF LedgerInv, TypeOK, kv, json, repo, local, said, Go, ProcType
<1>1. /\ Alive /\ pc[t] = "push" /\ UNCHANGED <<verdict, run, head, base, idx>>
      /\ pc' = [pc EXCEPT ![t] = "pushed"] \/ pc' = [pc EXCEPT ![t] = "ask"]
    BY DEF Push
<1>2. CASE origin' = origin
    <2>1. WholeKept
        BY <1>1, <1>2 DEF WholeKept, Before, Fitting
    <2> QED BY <2>1, WholeKeeps
<1>3. CASE IsPrefix(origin, head) /\ origin' = head
    <2> DEFINE x == Applied(Tip(base), t)
    <2>1. head = Append(base, x) /\ base # <<>> /\ Extending(origin, base)
        BY <1>1 DEF WholeInv, Fitted, Fitting
    <2>2. t \notin Published /\ verdict[t] = "approved" /\ t \in run
        BY <1>1 DEF WholeInv, Fresh, Before, Approved, InHand, Writing, Claimed
    <2>3. Tip(base) \in Trees /\ x \in Trees
        BY <2>1, BranchFacts, AppliedFacts DEF LocalType
    <2>4. Len(head) = Len(base) + 1 /\ head[Len(base) + 1] = x
          /\ \A i \in 1..Len(base) : head[i] = base[i]
        <3> HIDE DEF x
        <3> QED BY <2>1, <2>3 DEF LocalType
    <2>5. Extending(head, origin)
        BY <1>3, ExtendingPrefix DEF RepoType
    <2>6. Len(origin) # Len(base) + 1
        <3> SUFFICES ASSUME Len(origin) = Len(base) + 1 PROVE FALSE
            OBVIOUS
        <3>1. PICK g \in Touch[t] : g \in Files
            BY PlanAssumption
        <3>2. Len(base) + 1 \in 1..Len(origin)
            BY DEF RepoType, LocalType
        <3>3. origin[Len(base) + 1] = x
            BY <2>4, <2>5, <3>2 DEF Extending
        <3>4. x[g] = t
            BY <2>3, <3>1, AppliedFacts
        <3> QED BY <2>2, <3>1, <3>2, <3>3, <3>4, NotPublished
    <2>7. origin = base
        <3>1. Len(origin) = Len(base)
            BY <2>1, <2>4, <2>5, <2>6 DEF Extending, RepoType, LocalType
        <3>2. \A i \in 1..Len(origin) : origin[i] = base[i]
            BY <2>1, <3>1 DEF Extending
        <3> QED BY <3>1, <3>2, SeqEqual DEF RepoType, LocalType
    <2>8. Grown(origin)'
        <3> SUFFICES ASSUME NEW i \in 2..Len(head)
                     PROVE  DevStep(head[i - 1], head[i]) \/ PlanStep(head, i)'
            BY <1>1, <1>3 DEF Grown
        <3>1. CASE i <= Len(base)
            <4>1. i \in 2..Len(base) /\ \A j \in 1..i : head[j] = base[j]
                BY <2>4, <3>1 DEF LocalType
            <4>2. DevStep(base[i - 1], base[i]) \/ PlanStep(base, i)
                BY <2>7, <4>1 DEF WholeInv, Grown
            <4>3. head[i] = base[i] /\ head[i - 1] = base[i - 1]
                  /\ \A j \in 1..(i - 1) : head[j] = base[j]
                BY <4>1
            <4> QED BY <1>1, <4>2, <4>3 DEF PlanStep
        <3>2. CASE i = Len(base) + 1
            <4>1. Len(base) \in 1..Len(base) /\ i - 1 = Len(base)
                BY <2>1, <3>2 DEF LocalType
            <4>2. head[i - 1] = Tip(base) /\ head[i] = Applied(Tip(base), t)
                BY <2>4, <3>2, <4>1 DEF Tip
            <4>3. \A j \in 1..(i - 1) : \A g \in Files : head[j][g] # t
                BY <2>2, <2>4, <2>7, <4>1, NotPublished
            <4> QED BY <1>1, <2>2, <4>2, <4>3 DEF PlanStep
        <3> QED BY <2>4, <3>1, <3>2 DEF LocalType
    <2>9. NoHand(origin)'
        <3> SUFFICES ASSUME NEW i \in 1..Len(head), NEW g \in Files PROVE head[i][g] # "hand"
            BY <1>3 DEF NoHand
        <3>1. Len(base) \in 1..Len(base)
            BY <2>1 DEF LocalType
        <3>2. x[g] \in {t, Tip(base)[g]}
            BY <2>3, AppliedFacts
        <3>3. x[g] # "hand"
            BY <2>7, <3>1, <3>2, PlanAssumption DEF WholeInv, NoHand, Tip
        <3>4. i \in 1..Len(base) \/ i = Len(base) + 1
            BY <2>4 DEF LocalType
        <3> HIDE DEF x
        <3> QED BY <2>4, <2>7, <3>3, <3>4 DEF WholeInv, NoHand
    <2>10. Published' = Published \cup {t}
        BY <1>1, <1>3, PushPublishes DEF Carried, CarriedBy
    <2>11. ASSUME NEW u \in Tokens PROVE Fresh(u)' /\ Fitted(u)'
        <3>1. pc'[u] \notin Fitting
            BY <1>1 DEF Fitting, Exclusive, Holding, Writing
        <3>2. Fitted(u)'
            BY <3>1 DEF Fitted, Fitting
        <3>3. Fresh(u)'
            BY <1>1, <2>2, <2>10 DEF WholeInv, Fresh, Before
        <3> QED BY <3>2, <3>3
    <2> QED BY <2>8, <2>9, <2>11 DEF WholeInv
<1> QED BY <1>2, <1>3 DEF Push

LEMMA WholeInit == Init => WholeInv
<1> SUFFICES ASSUME Init PROVE WholeInv
    OBVIOUS
<1>1. Len(origin) = 1 /\ origin[1] = [f \in Files |-> "base"]
    BY DEF Init, BaseTree
<1>2. Grown(origin) /\ NoHand(origin)
    BY <1>1 DEF Grown, NoHand
<1>3. Published = {}
    BY <1>1, PlanAssumption DEF Published, InBranch
<1>4. \A u \in Tokens : Fresh(u) /\ Fitted(u)
    BY <1>3 DEF Init, Fresh, Fitted, Fitting
<1> QED BY <1>2, <1>4 DEF WholeInv

LEMMA WholeStep ==
    ASSUME LedgerInv, WholeInv, ~Stops, ~LateEdits, [Next]_vars
    PROVE  WholeInv'
<1>1. Leases # {}
    BY DEF Leases
<1>2. CASE UNCHANGED vars
    <2>1. WholeKept
        BY <1>2 DEF vars, kv, repo, local, said, WholeKept
    <2> QED BY <2>1, WholeKeeps
<1>3. ASSUME NEW t \in Tokens, Owner(t) \/ Execute(t) \/ Stop(t) \/ Recover(t) PROVE WholeInv'
    <2>1. PICK f0 \in Files : TRUE
        BY PlanAssumption
    <2>2. CASE Push(t)
        BY <2>2, WholePush
    <2>3. CASE Review(t) \/ Add(t) \/ Commit(t)
        BY <2>3, WholeBuild
    <2>4. CASE ~(Push(t) \/ Review(t) \/ Add(t) \/ Commit(t))
        <3>1. WholeKept
            BY <1>3, <2>1, <2>4, WholeQuiet DEF Owner, Execute, Recover, Stop
        <3> QED BY <3>1, WholeKeeps
    <2> QED BY <2>2, <2>3, <2>4
<1>4. ASSUME NEW f \in Files, DevPush(f) PROVE WholeInv'
    BY <1>4, WholeDev
<1>5. ASSUME NEW f \in Files, HandEdit(f) PROVE WholeInv'
    <2>1. WholeKept
        BY <1>5 DEF HandEdit, kv, local, said, WholeKept
    <2> QED BY <2>1, WholeKeeps
<1>6. ASSUME Purge \/ Crash \/ Boot \/ Booted \/ Deploy \/ \E k \in Leases : Expire(k)
      PROVE  WholeInv'
    <2>1. WholeKept
        BY <1>1, <1>6, WholeAround DEF Deploy
    <2> QED BY <2>1, WholeKeeps
<1> QED BY <1>2, <1>3, <1>4, <1>5, <1>6 DEF Next

-----------------------------------------------------------------------------
(* "Failed" is true *)

\* The steps on the way to saying "failed".
Judged == {"undo", "unstage", "restore", "fail", "lost", "scan", "recover"}

Away(u) == u \in blind \/ u \notin Published

\* What the executor goes by when it judges a plan: its own commit, or the
\* recorded one, still at the bottom of origin.
Judging(u) ==
    /\ pc[u] \in Judged => Away(u)
    /\ pc[u] = "ask" => Away(u) \/ Extending(origin, committed)
    /\ pc[u] \in {"push", "ask"} => u \in blind \/ (stage[u] = "committed" /\ saved[u] = committed)
    /\ pc[u] \in {"flock"} \cup Writing => stage[u] # "none"
    /\ u \in run \ done => \/ Away(u) \/ stage[u] = "pushed"
                           \/ stage[u] = "committed" /\ Extending(origin, saved[u])
    /\ u \in recq => u \in run \ done /\ mode = "boot"
    /\ "failed" \in told[u] \cup unsent[u] => Away(u)
    /\ unsent[u] # {} => mode = "boot"

JudgeInv == \A u \in Tokens : Judging(u)

SureAway(u) == u \notin run \/ pc[u] \in Before \cup Judged

\* A step that does not publish plan u and judges it only when it is away.
JudgeKept(u) ==
    /\ u \in Published' => u \in Published
    /\ \A b \in Seq(Trees) : Extending(origin, b) => Extending(origin', b)
    /\ blind \subseteq blind'
    /\ pc'[u] \in Judged => SureAway(u) \/ u \in blind' \/ u \notin Published
    /\ pc'[u] = "ask" => SureAway(u) \/ (pc[u] = "ask" /\ committed' = committed)
    /\ pc'[u] \in {"push", "ask"} =>
         \/ u \in blind' \/ (stage'[u] = "committed" /\ saved'[u] = committed')
         \/ pc[u] \in {"push", "ask"} /\ stage'[u] = stage[u] /\ saved'[u] = saved[u] /\ committed' = committed
    /\ pc'[u] \in {"flock"} \cup Writing =>
         stage'[u] # "none" \/ (stage'[u] = stage[u] /\ pc[u] \in {"flock"} \cup Writing)
    /\ u \in run' \ done' => \/ SureAway(u) \/ stage'[u] = "pushed"
                             \/ u \in run \ done /\ stage'[u] = stage[u] /\ saved'[u] = saved[u]
    /\ u \in recq' => u \in run' \ done' /\ mode' = "boot"
    /\ "failed" \in told'[u] \cup unsent'[u] => SureAway(u) \/ "failed" \in told[u] \cup unsent[u]
    /\ unsent'[u] # {} => mode' = "boot"

LEMMA JudgeKeeps ==
    ASSUME TypeOK, NEW u \in Tokens, Fresh(u), Judging(u), JudgeKept(u)
    PROVE  Judging(u)'
<1>1. Away(u) => Away(u)'
    BY DEF JudgeKept, Away
<1>2. SureAway(u) => Away(u)'
    BY <1>1 DEF SureAway, Judging, Fresh, Away
<1>3. committed \in Seq(Trees) /\ saved[u] \in Seq(Trees)
    BY DEF TypeOK, LocalType, JsonType
<1>4. pc'[u] \in Judged => Away(u)'
    BY <1>1, <1>2 DEF JudgeKept, Away
<1>5. pc'[u] = "ask" => Away(u)' \/ Extending(origin', committed')
    BY <1>1, <1>2, <1>3 DEF JudgeKept, Judging, Away
<1>6. pc'[u] \in {"push", "ask"} => u \in blind' \/ (stage'[u] = "committed" /\ saved'[u] = committed')
    BY DEF JudgeKept, Judging
<1>7. pc'[u] \in {"flock"} \cup Writing => stage'[u] # "none"
    BY DEF JudgeKept, Judging
<1>8. u \in run' \ done' => \/ Away(u)' \/ stage'[u] = "pushed"
                            \/ stage'[u] = "committed" /\ Extending(origin', saved'[u])
    BY <1>1, <1>2, <1>3 DEF JudgeKept, Judging
<1>9. "failed" \in told'[u] \cup unsent'[u] => Away(u)'
    BY <1>1, <1>2 DEF JudgeKept, Judging
<1>10. u \in recq' => u \in run' \ done' /\ mode' = "boot"
    BY DEF JudgeKept
<1>11. unsent'[u] # {} => mode' = "boot"
    BY DEF JudgeKept
<1> QED BY <1>4, <1>5, <1>6, <1>7, <1>8, <1>9, <1>10, <1>11 DEF Judging, Extending

\* The actions that are such steps for every plan.
LEMMA JudgeQuiet ==
    ASSUME LedgerInv, ~Stops, ~LateEdits, NEW t \in Tokens, NEW a \in BOOLEAN, NEW f \in Files,
           NEW u \in Tokens, Judging(u), Judging(t)
    PROVE  /\ Offer(t) => JudgeKept(u)
           /\ Press(t, a) => JudgeKept(u)
           /\ Close(t) => JudgeKept(u)
           /\ Begin(t) => JudgeKept(u)
           /\ Prepare(t) => JudgeKept(u)
           /\ TakeFlock(t) => JudgeKept(u)
           /\ Review(t) => JudgeKept(u)
           /\ Add(t) => JudgeKept(u)
           /\ Commit(t) => JudgeKept(u)
           /\ SaveCommit(t) => JudgeKept(u)
           /\ SavePushed(t) => JudgeKept(u)
           /\ Undo(t) => JudgeKept(u)
           /\ Unstage(t) => JudgeKept(u)
           /\ Restored(t) => JudgeKept(u)
           /\ Report(t) => JudgeKept(u)
           /\ Finish(t) => JudgeKept(u)
           /\ Leave(t) => JudgeKept(u)
           /\ StopEnds(t) => JudgeKept(u)
           /\ RecoverScan(t) => JudgeKept(u)
           /\ RecoverTell(t) => JudgeKept(u)
           /\ RecoverEnd(t) => JudgeKept(u)
           /\ WriteFile(t, f) => JudgeKept(u)
           /\ RestoreFile(t, f) => JudgeKept(u)
           /\ RecoverFile(t, f) => JudgeKept(u)
           /\ Announce(t) => JudgeKept(u)
<1> USE DEF LedgerInv, TypeOK, kv, json, repo, local, said, Go, ProcType
<1>1. Offer(t) => JudgeKept(u)
    BY DEF Offer, Published, JudgeKept, SureAway, Judging
<1>2. Press(t, a) => JudgeKept(u)
    BY DEF Press, Claim, Published, JudgeKept, SureAway, Writing, Judging
<1>3. Close(t) => JudgeKept(u)
    BY DEF Close, Published, JudgeKept, SureAway, Judged, Writing, Judging
<1>4. Begin(t) => JudgeKept(u)
    BY DEF Begin, Published, JudgeKept, SureAway, Before, Writing, Judging
<1>5. Prepare(t) => JudgeKept(u)
    BY DEF Prepare, Published, JudgeKept, SureAway, Before, Writing, Judging, JsonType
<1>6. TakeFlock(t) => JudgeKept(u)
    BY DEF TakeFlock, Published, JudgeKept, SureAway, Before, Judging
<1>7. Review(t) => JudgeKept(u)
    BY DEF Review, Published, JudgeKept, SureAway, Before, Writing, Judging, Exclusive, Holding
<1>8. Add(t) => JudgeKept(u)
    BY DEF Add, Published, JudgeKept, SureAway, Before, Writing, Judging
<1>9. Commit(t) => JudgeKept(u)
    BY DEF Commit, Published, JudgeKept, SureAway, Before, Writing, Judging, Exclusive, Holding
<1>10. SaveCommit(t) => JudgeKept(u)
    BY DEF SaveCommit, Published, JudgeKept, SureAway, Before, Writing, Judging, JsonType
<1>11. SavePushed(t) => JudgeKept(u)
    BY DEF SavePushed, Published, JudgeKept, SureAway, Judged, Writing, Judging, JsonType
<1>12. Undo(t) => JudgeKept(u)
    BY DEF Undo, Published, JudgeKept, SureAway, Judged, Writing, Judging
<1>13. Unstage(t) => JudgeKept(u)
    BY DEF Unstage, Published, JudgeKept, SureAway, Judged, Writing, Judging
<1>14. Restored(t) => JudgeKept(u)
    BY DEF Restored, Discard, Published, JudgeKept, SureAway, Judged, Writing, Judging, JsonType
<1>15. Report(t) => JudgeKept(u)
    BY DEF Report, Send, Published, JudgeKept, SureAway, Judged, Writing, Judging, SaidType
<1>16. Finish(t) => JudgeKept(u)
    BY DEF Finish, Discard, Published, JudgeKept, SureAway, Judged, Writing, Judging, JsonType
<1>17. Leave(t) => JudgeKept(u)
    BY DEF Leave, Published, JudgeKept, SureAway, Judged, Writing, Judging, Exclusive, Holding
<1>18. StopEnds(t) => JudgeKept(u)
    BY DEF StopEnds, Clean, Idle, Published, JudgeKept, Judged, Writing, Judging
<1>19. RecoverScan(t) => JudgeKept(u)
    BY DEF RecoverScan, Published, JudgeKept, SureAway, Judged, Writing, Judging
<1>20. RecoverTell(t) => JudgeKept(u)
    BY DEF RecoverTell, Published, JudgeKept, SureAway, Judged, Writing, Judging, SaidType
<1>21. RecoverEnd(t) => JudgeKept(u)
    BY DEF RecoverEnd, Discard, Published, JudgeKept, SureAway, Judged, Writing, Judging,
           JsonType
<1>22. WriteFile(t, f) => JudgeKept(u)
    BY DEF WriteFile, Published, JudgeKept, SureAway, Before, Writing, Judging
<1>23. RestoreFile(t, f) => JudgeKept(u)
    BY DEF RestoreFile, Published, JudgeKept, SureAway, Judging
<1>24. RecoverFile(t, f) => JudgeKept(u)
    BY DEF RecoverFile, Published, JudgeKept, SureAway, Judging
<1>25. Announce(t) => JudgeKept(u)
    BY DEF Announce, Send, Published, JudgeKept, SureAway, Judging, SaidType
<1> QED BY <1>1, <1>2, <1>3, <1>4, <1>5, <1>6, <1>7, <1>8, <1>9, <1>10, <1>11, <1>12, <1>13,
       <1>14, <1>15, <1>16, <1>17, <1>18, <1>19, <1>20, <1>21, <1>22, <1>23, <1>24, <1>25

LEMMA JudgeAround ==
    ASSUME LedgerInv, ~Stops, ~LateEdits, NEW k \in Leases, NEW u \in Tokens, Judging(u)
    PROVE  /\ Purge => JudgeKept(u)
           /\ Expire(k) => JudgeKept(u)
           /\ Crash => JudgeKept(u)
           /\ Boot => JudgeKept(u)
           /\ Booted => JudgeKept(u)
           /\ DeployReset => JudgeKept(u)
           /\ DeployEnd => JudgeKept(u)
<1> USE DEF LedgerInv, TypeOK, kv, json, repo, local, said, Go, ProcType
<1>1. Purge => JudgeKept(u)
    BY DEF Purge, Published, JudgeKept, SureAway, Judging
<1>2. Expire(k) => JudgeKept(u)
    BY DEF Expire, Published, JudgeKept, SureAway, Judging
<1>3. Crash => JudgeKept(u)
    BY DEF Crash, Clean, Idle, Published, JudgeKept, Judged, Writing, SaidType
<1>4. Boot => JudgeKept(u)
    BY DEF Boot, Interrupted, Published, JudgeKept, SureAway
<1>5. Booted => JudgeKept(u)
    BY DEF Booted, Published, JudgeKept, SureAway
<1>6. DeployReset => JudgeKept(u)
    BY DEF DeployReset, Published, JudgeKept, SureAway, Judging
<1>7. DeployEnd => JudgeKept(u)
    BY DEF DeployEnd, Published, JudgeKept, SureAway, Judging
<1> QED BY <1>1, <1>2, <1>3, <1>4, <1>5, <1>6, <1>7

LEMMA ExtendingTrans ==
    ASSUME NEW s \in Seq(Trees), NEW b \in Seq(Trees), NEW c \in Seq(Trees),
           Extending(s, b), Extending(b, c)
    PROVE  Extending(s, c)
BY DEF Extending

\* Asking the remote: the commit is found missing only where it is.
LEMMA JudgeAsk ==
    ASSUME LedgerInv, NEW t \in Tokens, NEW u \in Tokens, Judging(u), Judging(t),
           Ask(t) \/ RecoverRead(t)
    PROVE  JudgeKept(u)
<1> USE DEF LedgerInv, TypeOK, kv, json, repo, local, said, Go, ProcType
<1>1. CASE Ask(t)
    <2>1. pc[t] = "ask" /\ UNCHANGED <<origin, run, done, stage, saved, committed, recq, mode, told, unsent>>
          /\ blind \subseteq blind'
        BY <1>1 DEF Ask, AskRemote
    <2>2. pc'[t] = "undo" => t \in blind' \/ t \notin Published
        <3>1. Extending(origin, committed) => IsPrefix(committed, origin)
            BY PrefixExtending DEF RepoType, LocalType
        <3>2. IsPrefix(committed, origin) /\ pc'[t] = "undo" => t \in blind'
            BY <1>1 DEF Ask, AskRemote
        <3>3. Away(t) \/ Extending(origin, committed)
            BY <2>1 DEF Judging
        <3> QED BY <2>1, <3>1, <3>2, <3>3 DEF Away
    <2>3. pc'[t] \in {"undo", "pushed"} /\ \A v \in Tokens \ {t} : pc'[v] = pc[v]
        BY <1>1 DEF Ask, AskRemote
    <2> QED BY <2>1, <2>2, <2>3 DEF JudgeKept, SureAway, Judged, Before, Writing, Judging,
           Published, Extending
<1>2. CASE RecoverRead(t)
    <2>1. /\ pc = Idle /\ t \in recq /\ blind \subseteq blind'
          /\ UNCHANGED <<origin, run, done, stage, saved, committed, recq, mode, told, unsent>>
        BY <1>2 DEF RecoverRead
    <2>2. t \in run \ done /\ (Away(t) \/ stage[t] = "pushed"
                               \/ (stage[t] = "committed" /\ Extending(origin, saved[t])))
        BY <2>1 DEF Judging
    <2>3. pc'[t] \in Judged => t \in blind' \/ t \notin Published
        <3>1. Extending(origin, saved[t]) => IsPrefix(saved[t], origin)
            BY PrefixExtending DEF RepoType, JsonType
        <3>2. IsPrefix(saved[t], origin) /\ stage[t] = "committed" /\ pc'[t] \in Judged => t \in blind'
            BY <1>2 DEF RecoverRead, Judged
        <3>3. stage[t] = "pushed" => pc'[t] \notin Judged
            BY <1>2 DEF RecoverRead, Judged
        <3> QED BY <2>1, <2>2, <3>1, <3>2, <3>3 DEF Away
    <2>4. pc'[t] \in {"lost", "there", "scan"} /\ \A v \in Tokens \ {t} : pc'[v] = pc[v]
        BY <1>2 DEF RecoverRead
    <2> QED BY <2>1, <2>3, <2>4 DEF JudgeKept, SureAway, Judged, Before, Writing, Judging,
           Published, Extending, Idle
<1> QED BY <1>1, <1>2

\* A developer's commit hides nothing that was on origin.
LEMMA JudgeDev ==
    ASSUME LedgerInv, NEW f \in Files, DevPush(f), NEW u \in Tokens, Judging(u)
    PROVE  JudgeKept(u)
<1> USE DEF LedgerInv, TypeOK, kv, json, repo, local, said
<1>1. PICK x \in Trees : origin' = Append(origin, x)
    BY BranchFacts, TreeFacts, ContentFacts DEF RepoType, DevPush
<1>2. \A b \in Seq(Trees) : Extending(origin, b) => Extending(origin', b)
    BY <1>1, ExtendingAppend DEF RepoType
<1>3. Published' = Published
    BY DevPublishesNothing
<1>4. UNCHANGED <<pc, run, done, stage, saved, committed, recq, mode, told, unsent, blind>>
    BY DEF DevPush
<1> HIDE DEF LedgerInv, TypeOK
<1> QED BY <1>2, <1>3, <1>4 DEF JudgeKept, Judging, SureAway

\* The push: told of nothing yet, its commit recorded or given up as blind.
LEMMA JudgePush ==
    ASSUME LedgerInv, WholeInv, JudgeInv, NEW t \in Tokens, Push(t), NEW u \in Tokens
    PROVE  Judging(u)'
<1> USE DEF LedgerInv, TypeOK, kv, json, repo, local, said, Go, ProcType
<1>1. /\ pc[t] = "push" /\ pc'[t] \in {"pushed", "ask"} /\ \A v \in Tokens \ {t} : pc'[v] = pc[v]
      /\ UNCHANGED <<run, done, stage, saved, committed, recq, mode, told, unsent, blind>>
    BY DEF Push
<1>2. Judging(u) /\ Judging(t) /\ Fresh(u)
    BY DEF JudgeInv, WholeInv
<1>3. CASE origin' = origin
    <2>1. JudgeKept(u)
        BY <1>1, <1>2, <1>3 DEF JudgeKept, SureAway, Before, Writing, Judging, Published
    <2> QED BY <1>2, <2>1, JudgeKeeps
<1>4. CASE IsPrefix(origin, head) /\ origin' = head
    <2>1. AloneIn(head, t) /\ committed = head /\ t \in InBranch(head)
        BY <1>1 DEF Carried, CarriedBy
    <2>2. Published' = Published \cup {t}
        BY <1>4, <2>1, PushPublishes
    <2>3. Extending(head, origin)
        BY <1>4, ExtendingPrefix DEF RepoType
    <2>4. CASE u # t
        <3>1. \A b \in Seq(Trees) : Extending(origin, b) => Extending(origin', b)
            BY <1>4, <2>3, ExtendingTrans DEF RepoType
        <3>2. u \in Published' => u \in Published
            BY <2>2, <2>4
        <3>3. JudgeKept(u)
            BY <1>1, <1>2, <2>4, <3>1, <3>2 DEF JudgeKept, Judging, SureAway
        <3> QED BY <1>2, <3>3, JudgeKeeps
    <2>5. CASE u = t
        <3>1. Extending(head, committed)
            BY <2>1, ExtendingSelf DEF RepoType
        <3>2. told[t] = {} /\ unsent[t] = {}
            BY <1>1, <1>2 DEF Push, Alive, Approved, InHand, Writing, Judging
        <3>3. t \in blind \/ (stage[t] = "committed" /\ saved[t] = committed)
            BY <1>1, <1>2 DEF Judging
        <3>4. stage[t] # "none"
            BY <1>1, <1>2 DEF Judging, Writing
        <3>5. t \in recq => t \in run \ done /\ mode = "boot"
            BY <1>2 DEF Judging
        <3> HIDE DEF LedgerInv, TypeOK
        <3> QED BY <1>1, <1>4, <2>1, <2>5, <3>1, <3>2, <3>3, <3>4, <3>5 DEF Judging, Away,
               Judged, Extending
    <2> QED BY <2>4, <2>5
<1> QED BY <1>3, <1>4 DEF Push

LEMMA JudgeInit == Init => JudgeInv
BY DEF Init, JudgeInv, Judging, Judged, Writing

LEMMA JudgeStep ==
    ASSUME LedgerInv, WholeInv, JudgeInv, ~Stops, ~LateEdits, [Next]_vars
    PROVE  JudgeInv'
<1> SUFFICES ASSUME NEW u \in Tokens PROVE Judging(u)'
    BY DEF JudgeInv
<1>1. Judging(u) /\ Fresh(u) /\ TypeOK
    BY DEF JudgeInv, WholeInv, LedgerInv
<1>2. CASE UNCHANGED vars
    BY <1>1, <1>2 DEF vars, kv, json, local, said, Judging, Away, Published
<1>3. ASSUME NEW t \in Tokens, Owner(t) \/ Execute(t) \/ Stop(t) \/ Recover(t) PROVE Judging(u)'
    <2>1. PICK f0 \in Files : TRUE
        BY PlanAssumption
    <2>2. CASE Push(t)
        BY <2>2, JudgePush
    <2>3. CASE Ask(t) \/ RecoverRead(t)
        <3>1. JudgeKept(u)
            BY <2>3, JudgeAsk DEF JudgeInv
        <3> QED BY <1>1, <3>1, JudgeKeeps
    <2>4. CASE ~(Push(t) \/ Ask(t) \/ RecoverRead(t))
        <3>1. JudgeKept(u)
            BY <1>3, <2>1, <2>4, JudgeQuiet DEF JudgeInv, Owner, Execute, Recover, Stop
        <3> QED BY <1>1, <3>1, JudgeKeeps
    <2> QED BY <2>2, <2>3, <2>4
<1>4. ASSUME NEW f \in Files, DevPush(f) PROVE Judging(u)'
    <2>1. JudgeKept(u)
        BY <1>1, <1>4, JudgeDev
    <2> QED BY <1>1, <2>1, JudgeKeeps
<1>5. ASSUME NEW f \in Files, HandEdit(f) PROVE Judging(u)'
    <2>1. UNCHANGED <<origin, pc, run, done, stage, saved, committed, recq, mode, told, unsent, blind>>
        BY <1>5 DEF HandEdit, kv, json, local, said
    <2> QED BY <1>1, <2>1 DEF Judging, Away, Published, Extending
<1>6. ASSUME Purge \/ Crash \/ Boot \/ Booted \/ Deploy \/ \E k \in Leases : Expire(k)
      PROVE  Judging(u)'
    <2>1. JudgeKept(u)
        <3>1. Leases # {}
            BY DEF Leases
        <3> QED BY <1>1, <1>6, <3>1, JudgeAround DEF Deploy
    <2> QED BY <1>1, <2>1, JudgeKeeps
<1> QED BY <1>2, <1>3, <1>4, <1>5, <1>6 DEF Next

-----------------------------------------------------------------------------
(* No residue *)

\* A plan on its way is claimed and not at its end; a recovery is alone.
Flow(u) ==
    /\ u \in run => u \in offered
    /\ u \in kept \cup done \cup marked => u \in run
    /\ pc[u] # "idle" => u \in run
    /\ pc[u] \notin {"idle", "release"} => u \notin done
    /\ pc[u] \in Recovering =>
         u \in recq /\ mode = "boot" /\ \A v \in Tokens \ {u} : pc[v] = "idle"
    /\ mode = "down" => pc[u] = "idle"
    /\ mode = "boot" => pc[u] \in {"idle"} \cup Recovering

\* A recovery starts with an empty list of files.
Listed == mode \in {"down", "boot"} /\ (\A u \in Tokens : pc[u] # "recover") => todo = {}

FlowInv == Listed /\ \A u \in Tokens : Flow(u)

LEMMA FlowToken ==
    ASSUME LedgerInv, ~Stops, ~LateEdits, NEW t \in Tokens, NEW a \in BOOLEAN, NEW f \in Files,
           NEW u \in Tokens, Flow(u), Flow(t), Judging(t)
    PROVE  /\ Offer(t) => Flow(u)'
           /\ Press(t, a) => Flow(u)'
           /\ Close(t) => Flow(u)'
           /\ Begin(t) => Flow(u)'
           /\ Prepare(t) => Flow(u)'
           /\ TakeFlock(t) => Flow(u)'
           /\ Review(t) => Flow(u)'
           /\ Add(t) => Flow(u)'
           /\ Commit(t) => Flow(u)'
           /\ SaveCommit(t) => Flow(u)'
           /\ Push(t) => Flow(u)'
           /\ Ask(t) => Flow(u)'
           /\ SavePushed(t) => Flow(u)'
           /\ Undo(t) => Flow(u)'
           /\ Unstage(t) => Flow(u)'
           /\ Restored(t) => Flow(u)'
           /\ Report(t) => Flow(u)'
           /\ Finish(t) => Flow(u)'
           /\ Leave(t) => Flow(u)'
           /\ StopEnds(t) => Flow(u)'
           /\ RecoverRead(t) => Flow(u)'
           /\ RecoverScan(t) => Flow(u)'
           /\ RecoverTell(t) => Flow(u)'
           /\ RecoverEnd(t) => Flow(u)'
           /\ WriteFile(t, f) => Flow(u)'
           /\ RestoreFile(t, f) => Flow(u)'
           /\ RecoverFile(t, f) => Flow(u)'
           /\ Announce(t) => Flow(u)'
<1> USE DEF LedgerInv, TypeOK, kv, json, repo, local, said, Go, ProcType
<1>1. Offer(t) => Flow(u)'
    BY DEF Offer, Flow
<1>2. Press(t, a) => Flow(u)'
    BY DEF Press, Claim, Flow, Recovering
<1>3. Close(t) => Flow(u)'
    BY DEF Close, Flow, Recovering
<1>4. Begin(t) => Flow(u)'
    BY DEF Begin, Flow, Recovering
<1>5. Prepare(t) => Flow(u)'
    BY DEF Prepare, Flow, Recovering
<1>6. TakeFlock(t) => Flow(u)'
    BY DEF TakeFlock, Flow, Recovering
<1>7. Review(t) => Flow(u)'
    BY DEF Review, Recheck, Flow, Recovering
<1>8. Add(t) => Flow(u)'
    BY DEF Add, Flow, Recovering
<1>9. Commit(t) => Flow(u)'
    BY DEF Commit, Flow, Recovering
<1>10. SaveCommit(t) => Flow(u)'
    BY DEF SaveCommit, Flow, Recovering
<1>11. Push(t) => Flow(u)'
    BY DEF Push, Flow, Recovering
<1>12. Ask(t) => Flow(u)'
    BY DEF Ask, AskRemote, Flow, Recovering
<1>13. SavePushed(t) => Flow(u)'
    BY DEF SavePushed, Flow, Recovering
<1>14. Undo(t) => Flow(u)'
    BY DEF Undo, Flow, Recovering
<1>15. Unstage(t) => Flow(u)'
    BY DEF Unstage, Flow, Recovering
<1>16. Restored(t) => Flow(u)'
    BY DEF Restored, Discard, Flow, Recovering
<1>17. Report(t) => Flow(u)'
    BY DEF Report, Flow, Recovering
<1>18. Finish(t) => Flow(u)'
    BY DEF Finish, Discard, Flow, Recovering
<1>19. Leave(t) => Flow(u)'
    BY DEF Leave, Flow, Recovering
<1>20. StopEnds(t) => Flow(u)'
    BY DEF StopEnds, Idle, Flow, Recovering
<1>21. RecoverRead(t) => Flow(u)'
    BY DEF RecoverRead, Idle, Flow, Recovering, Judging
<1>22. RecoverScan(t) => Flow(u)'
    BY DEF RecoverScan, Flow, Recovering
<1>23. RecoverTell(t) => Flow(u)'
    BY DEF RecoverTell, Flow, Recovering
<1>24. RecoverEnd(t) => Flow(u)'
    BY DEF RecoverEnd, Discard, Flow, Recovering
<1>25. WriteFile(t, f) => Flow(u)'
    BY DEF WriteFile, Flow, Recovering
<1>26. RestoreFile(t, f) => Flow(u)'
    BY DEF RestoreFile, Flow
<1>27. RecoverFile(t, f) => Flow(u)'
    BY DEF RecoverFile, Flow
<1>28. Announce(t) => Flow(u)'
    BY DEF Announce, Send, Flow
<1> QED BY <1>1, <1>2, <1>3, <1>4, <1>5, <1>6, <1>7, <1>8, <1>9, <1>10, <1>11, <1>12, <1>13,
       <1>14, <1>15, <1>16, <1>17, <1>18, <1>19, <1>20, <1>21, <1>22, <1>23, <1>24, <1>25, <1>26, <1>27,
       <1>28

LEMMA FlowAround ==
    ASSUME LedgerInv, ~Stops, ~LateEdits, NEW k \in Leases, NEW u \in Tokens, Flow(u)
    PROVE  /\ Purge => Flow(u)'
           /\ Expire(k) => Flow(u)'
           /\ Crash => Flow(u)'
           /\ Boot => Flow(u)'
           /\ Booted => Flow(u)'
           /\ DeployReset => Flow(u)'
           /\ DeployEnd => Flow(u)'
<1> USE DEF LedgerInv, TypeOK, kv, json, repo, local, said, Go, ProcType
<1>1. Purge => Flow(u)'
    BY DEF Purge, Flow
<1>2. Expire(k) => Flow(u)'
    BY DEF Expire, Flow
<1>3. Crash => Flow(u)'
    BY DEF Crash, Idle, Flow, Recovering
<1>4. Boot => Flow(u)'
    BY DEF Boot, Flow
<1>5. Booted => Flow(u)'
    BY DEF Booted, Flow
<1>6. DeployReset => Flow(u)'
    BY DEF DeployReset, Flow
<1>7. DeployEnd => Flow(u)'
    BY DEF DeployEnd, Flow
<1> QED BY <1>1, <1>2, <1>3, <1>4, <1>5, <1>6, <1>7

LEMMA ListedToken ==
    ASSUME LedgerInv, FlowInv, ~Stops, ~LateEdits, NEW t \in Tokens, NEW a \in BOOLEAN, NEW f \in Files
    PROVE  /\ Offer(t) => Listed'
           /\ Press(t, a) => Listed'
           /\ Close(t) => Listed'
           /\ Begin(t) => Listed'
           /\ Prepare(t) => Listed'
           /\ TakeFlock(t) => Listed'
           /\ Review(t) => Listed'
           /\ Add(t) => Listed'
           /\ Commit(t) => Listed'
           /\ SaveCommit(t) => Listed'
           /\ Push(t) => Listed'
           /\ Ask(t) => Listed'
           /\ SavePushed(t) => Listed'
           /\ Undo(t) => Listed'
           /\ Unstage(t) => Listed'
           /\ Restored(t) => Listed'
           /\ Report(t) => Listed'
           /\ Finish(t) => Listed'
           /\ Leave(t) => Listed'
           /\ StopEnds(t) => Listed'
           /\ RecoverRead(t) => Listed'
           /\ RecoverScan(t) => Listed'
           /\ RecoverTell(t) => Listed'
           /\ RecoverEnd(t) => Listed'
           /\ WriteFile(t, f) => Listed'
           /\ RestoreFile(t, f) => Listed'
           /\ RecoverFile(t, f) => Listed'
           /\ Announce(t) => Listed'
<1> USE DEF LedgerInv, TypeOK, kv, json, repo, local, said, Go, ProcType
<1>1. Offer(t) => Listed'
    BY DEF Offer, Listed
<1>2. Press(t, a) => Listed'
    BY DEF Press, Listed
<1>3. Close(t) => Listed'
    BY DEF Close, Listed
<1>4. Begin(t) => Listed'
    BY DEF Begin, Listed
<1>5. Prepare(t) => Listed'
    BY DEF Prepare, Listed
<1>6. TakeFlock(t) => Listed'
    BY DEF TakeFlock, Listed
<1>7. Review(t) => Listed'
    BY DEF Review, FlowInv, Listed
<1>8. Add(t) => Listed'
    BY DEF Add, FlowInv, Listed
<1>9. Commit(t) => Listed'
    BY DEF Commit, FlowInv, Listed
<1>10. SaveCommit(t) => Listed'
    BY DEF SaveCommit, FlowInv, Listed
<1>11. Push(t) => Listed'
    BY DEF Push, FlowInv, Listed
<1>12. Ask(t) => Listed'
    BY DEF Ask, AskRemote, FlowInv, Listed
<1>13. SavePushed(t) => Listed'
    BY DEF SavePushed, FlowInv, Listed
<1>14. Undo(t) => Listed'
    BY DEF Undo, FlowInv, Listed
<1>15. Unstage(t) => Listed'
    BY DEF Unstage, FlowInv, Listed, Flow, Recovering
<1>16. Restored(t) => Listed'
    BY DEF Restored, Listed
<1>17. Report(t) => Listed'
    BY DEF Report, Listed
<1>18. Finish(t) => Listed'
    BY DEF Finish, Listed
<1>19. Leave(t) => Listed'
    BY DEF Leave, Listed
<1>20. StopEnds(t) => Listed'
    BY DEF StopEnds, Clean, Listed
<1>21. RecoverRead(t) => Listed'
    BY DEF RecoverRead, Idle, FlowInv, Listed
<1>22. RecoverScan(t) => Listed'
    BY DEF RecoverScan, Listed
<1>23. RecoverTell(t) => Listed'
    BY DEF RecoverTell, FlowInv, Listed
<1>24. RecoverEnd(t) => Listed'
    BY DEF RecoverEnd, FlowInv, Listed
<1>25. WriteFile(t, f) => Listed'
    BY DEF WriteFile, FlowInv, Listed
<1>26. RestoreFile(t, f) => Listed'
    BY DEF RestoreFile, FlowInv, Listed
<1>27. RecoverFile(t, f) => Listed'
    BY DEF RecoverFile, Listed
<1>28. Announce(t) => Listed'
    BY DEF Announce, Send, Idle, FlowInv, Listed
<1> QED BY <1>1, <1>2, <1>3, <1>4, <1>5, <1>6, <1>7, <1>8, <1>9, <1>10, <1>11, <1>12, <1>13,
       <1>14, <1>15, <1>16, <1>17, <1>18, <1>19, <1>20, <1>21, <1>22, <1>23, <1>24, <1>25, <1>26, <1>27,
       <1>28

LEMMA ListedAround ==
    ASSUME LedgerInv, FlowInv, ~Stops, ~LateEdits, NEW k \in Leases
    PROVE  /\ Purge => Listed'
           /\ Expire(k) => Listed'
           /\ Crash => Listed'
           /\ Boot => Listed'
           /\ Booted => Listed'
           /\ DeployReset => Listed'
           /\ DeployEnd => Listed'
<1> USE DEF LedgerInv, TypeOK, kv, json, repo, local, said, Go, ProcType
<1>1. Purge => Listed'
    BY DEF Purge, Listed
<1>2. Expire(k) => Listed'
    BY DEF Expire, FlowInv, Listed
<1>3. Crash => Listed'
    BY DEF Crash, Clean, Listed
<1>4. Boot => Listed'
    BY DEF Boot, FlowInv, Listed
<1>5. Booted => Listed'
    BY DEF Booted, Listed
<1>6. DeployReset => Listed'
    BY DEF DeployReset, FlowInv, Listed
<1>7. DeployEnd => Listed'
    BY DEF DeployEnd, FlowInv, Listed
<1> QED BY <1>1, <1>2, <1>3, <1>4, <1>5, <1>6, <1>7

LEMMA FlowInit == Init => FlowInv
BY DEF Init, FlowInv, Listed, Flow, Recovering

LEMMA FlowStep ==
    ASSUME LedgerInv, JudgeInv, FlowInv, ~Stops, ~LateEdits, [Next]_vars
    PROVE  FlowInv'
<1>1. CASE UNCHANGED vars
    BY <1>1 DEF vars, kv, json, local, FlowInv, Flow, Listed
<1>2. ASSUME NEW t \in Tokens, Owner(t) \/ Execute(t) \/ Stop(t) \/ Recover(t) PROVE FlowInv'
    <2>1. PICK f0 \in Files : TRUE
        BY PlanAssumption
    <2>2. ASSUME NEW u \in Tokens PROVE Flow(u)'
        BY <1>2, <2>1, FlowToken DEF FlowInv, JudgeInv, Owner, Execute, Recover, Stop
    <2>3. Listed'
        BY <1>2, <2>1, ListedToken DEF Owner, Execute, Recover, Stop
    <2> QED BY <2>2, <2>3 DEF FlowInv
<1>3. ASSUME NEW f \in Files, DevPush(f) \/ HandEdit(f) PROVE FlowInv'
    BY <1>3 DEF DevPush, HandEdit, kv, json, local, FlowInv, Flow, Listed
<1>4. ASSUME Purge \/ Crash \/ Boot \/ Booted \/ Deploy \/ \E k \in Leases : Expire(k)
      PROVE  FlowInv'
    <2>1. Leases # {}
        BY DEF Leases
    <2>2. ASSUME NEW u \in Tokens PROVE Flow(u)'
        BY <1>4, <2>1, FlowAround DEF FlowInv, Deploy
    <2>3. Listed'
        BY <1>4, <2>1, ListedAround DEF Deploy
    <2> QED BY <2>2, <2>3 DEF FlowInv
<1> QED BY <1>1, <1>2, <1>3, <1>4 DEF Next

\* The steps in which a plan has nothing in the checkout, and those in which
\* exactly the files written so far are its own.
Clear == {"begin", "close", "prepare", "flock", "recheck", "fail", "finish", "lost"}
Touching == {"write", "commit", "save", "push", "ask", "undo", "unstage"}

Left(u, f) == work[f] = u /\ u \notin kept \cup Published

\* A byte of an unpublished plan is on its way out: recorded, and in the list
\* of the roll-back or of the recovery unless the originals will be kept.
Traced(u, f) ==
    /\ u \in run \ done /\ u \in marked /\ stage[u] # "none" /\ f \in Touch[u]
    /\ pc[u] \notin Clear
    /\ pc[u] \in Touching => f \in written
    /\ pc[u] \in {"restore", "recover"} => f \in todo \/ partial
    /\ pc[u] = "recovered" => partial

Trace(u) ==
    /\ \A f \in Files : seen[u][f] # u
    /\ u \in marked => \A f \in Touch[u] :
         seen[u][f] # "hand" /\ (seen[u][f] \in Tokens => seen[u][f] \in Published)
    /\ \A f \in Files : Left(u, f) => Traced(u, f)
    /\ pc[u] \in Touching \cup {"restore"} => u \in marked /\ written \subseteq Touch[u]
    /\ pc[u] \in Touching => \A f \in written : work[f] = u
    /\ pc[u] = "restore" => \A f \in todo : f \in Touch[u] /\ work[f] = u
    /\ pc[u] = "recover" => \A f \in todo : f \in Touch[u] /\ work[f] # "hand" /\ u \in marked

TraceInv == \A u \in Tokens : Trace(u)

Absent(u) == u \notin run \/ pc[u] \in Clear \cup {"pushed", "ok", "there"} \/ u \in kept \cup Published

\* A step that writes nothing of plan u and forgets nothing that is left.
TraceKept(u) ==
    /\ Published \subseteq Published' /\ kept \subseteq kept'
    /\ seen'[u] \in {seen[u], BaseTree} /\ (u \in marked' => u \in marked)
    /\ \A f \in Files : work'[f] = u => work[f] = u \/ u \in Published
    /\ \/ Absent(u)
       \/ u \in run \ done /\ u \in marked /\ stage[u] # "none" =>
            /\ u \in run' \ done' /\ u \in marked' /\ stage'[u] # "none" /\ pc'[u] \notin Clear
            /\ pc'[u] \in Touching => pc[u] \in Touching /\ written' = written
            /\ pc'[u] \in {"restore", "recover", "recovered"} =>
                 pc'[u] = pc[u] /\ todo' = todo /\ partial' = partial
    /\ pc'[u] \in Touching \cup {"restore"} =>
         /\ u \in marked => u \in marked'
         /\ pc'[u] = "restore" => pc[u] = "restore"
         /\ pc'[u] \in Touching => pc[u] \in Touching
         /\ UNCHANGED <<work, written, todo>>
    /\ pc'[u] = "recover" =>
         /\ u \in marked => u \in marked'
         /\ pc[u] = "recover" /\ todo' = todo
         /\ \A f \in todo : work'[f] = work[f] \/ work'[f] # "hand"

LEMMA AbsentLeft ==
    ASSUME LedgerInv, NEW u \in Tokens, Trace(u), Absent(u), NEW f \in Files
    PROVE  ~Left(u, f)
BY DEF LedgerInv, Trace, Traced, Left, Absent, Carried, CarriedBy

LEMMA TraceKeeps ==
    ASSUME LedgerInv, NEW u \in Tokens, Trace(u), TraceKept(u)
    PROVE  Trace(u)'
<1> USE PlanAssumption DEF BaseTree
<1>1. \A f \in Files : seen'[u][f] # u
    BY DEF Trace, TraceKept
<1>2. u \in marked' => \A f \in Touch[u] :
        seen'[u][f] # "hand" /\ (seen'[u][f] \in Tokens => seen'[u][f] \in Published')
    BY DEF Trace, TraceKept
<1>3. ASSUME NEW f \in Files, Left(u, f)' PROVE Traced(u, f)'
    <2>1. Left(u, f)
        BY <1>3 DEF Left, TraceKept
    <2>2. Traced(u, f) /\ ~Absent(u)
        BY <2>1, AbsentLeft DEF Trace
    <2> QED BY <2>2 DEF Traced, TraceKept
<1>4. pc'[u] \in Touching \cup {"restore"} => u \in marked' /\ written' \subseteq Touch[u]
    BY DEF Trace, TraceKept
<1>5. /\ pc'[u] \in Touching => \A f \in written' : work'[f] = u
      /\ pc'[u] = "restore" => \A f \in todo' : f \in Touch[u] /\ work'[f] = u
    BY DEF Trace, TraceKept
<1>6. pc'[u] = "recover" => \A f \in todo' : f \in Touch[u] /\ work'[f] # "hand" /\ u \in marked'
    BY DEF Trace, TraceKept
<1> QED BY <1>1, <1>2, <1>3, <1>4, <1>5, <1>6 DEF Trace

\* The actions that are such steps for every plan.
LEMMA TraceQuiet ==
    ASSUME LedgerInv, ~Stops, ~LateEdits, NEW t \in Tokens, NEW a \in BOOLEAN,
           NEW u \in Tokens, Flow(u), Flow(t)
    PROVE  /\ Press(t, a) => TraceKept(u)
           /\ Close(t) => TraceKept(u)
           /\ Begin(t) => TraceKept(u)
           /\ Prepare(t) => TraceKept(u)
           /\ TakeFlock(t) => TraceKept(u)
           /\ Add(t) => TraceKept(u)
           /\ Commit(t) => TraceKept(u)
           /\ SaveCommit(t) => TraceKept(u)
           /\ Push(t) => TraceKept(u)
           /\ Ask(t) => TraceKept(u)
           /\ SavePushed(t) => TraceKept(u)
           /\ Undo(t) => TraceKept(u)
           /\ Report(t) => TraceKept(u)
           /\ Finish(t) => TraceKept(u)
           /\ Leave(t) => TraceKept(u)
           /\ StopEnds(t) => TraceKept(u)
           /\ RecoverRead(t) => TraceKept(u)
           /\ Announce(t) => TraceKept(u)
<1> USE DEF LedgerInv, TypeOK, kv, json, repo, local, said, Go, ProcType
<1>1. Press(t, a) => TraceKept(u)
    BY DEF Press, Claim, Published, TraceKept, Absent, Touching
<1>2. Close(t) => TraceKept(u)
    BY DEF Close, Forget, Published, TraceKept, Absent, Clear, Touching, JsonType
<1>3. Begin(t) => TraceKept(u)
    BY DEF Begin, Published, TraceKept, Absent, Clear, Touching
<1>4. Prepare(t) => TraceKept(u)
    BY DEF Prepare, Published, TraceKept, Absent, Clear, Touching, JsonType
<1>5. TakeFlock(t) => TraceKept(u)
    BY DEF TakeFlock, Published, TraceKept, Absent, Clear, Touching
<1>6. Add(t) => TraceKept(u)
    BY DEF Add, Published, TraceKept, Absent, Clear, Touching
<1>7. Commit(t) => TraceKept(u)
    BY DEF Commit, Published, TraceKept, Absent, Clear, Touching
<1>8. SaveCommit(t) => TraceKept(u)
    BY DEF SaveCommit, Published, TraceKept, Absent, Clear, Touching, JsonType
<1>9. Push(t) => TraceKept(u)
    BY PublishedGrows DEF Push, TraceKept, Absent, Clear, Touching
<1>10. Ask(t) => TraceKept(u)
    BY DEF Ask, AskRemote, Published, TraceKept, Absent, Clear, Touching
<1>11. SavePushed(t) => TraceKept(u)
    BY DEF SavePushed, Published, TraceKept, Absent, Touching, JsonType
<1>12. Undo(t) => TraceKept(u)
    BY DEF Undo, Published, TraceKept, Absent, Clear, Touching, Flow, Recovering, Exclusive,
           Holding, Writing
<1>13. Report(t) => TraceKept(u)
    BY DEF Report, Published, TraceKept, Absent, Clear, Touching
<1>14. Finish(t) => TraceKept(u)
    BY DEF Finish, Discard, Forget, Published, TraceKept, Absent, Clear, Touching, JsonType
<1>15. Leave(t) => TraceKept(u)
    BY DEF Leave, Published, TraceKept, Absent, Clear, Touching, Flow, Recovering, Exclusive,
           Holding, Writing
<1>16. StopEnds(t) => TraceKept(u)
    BY DEF StopEnds, Idle, Published, TraceKept, Clear, Touching
<1>17. RecoverRead(t) => TraceKept(u)
    BY DEF RecoverRead, Idle, Published, TraceKept, Clear, Touching
<1>18. Announce(t) => TraceKept(u)
    BY DEF Announce, Send, Idle, Published, TraceKept, Absent, Clear, Touching
<1> QED BY <1>1, <1>2, <1>3, <1>4, <1>5, <1>6, <1>7, <1>8, <1>9, <1>10, <1>11, <1>12, <1>13,
       <1>14, <1>15, <1>16, <1>17, <1>18

\* The others, for every plan but their own.
LEMMA TraceOthers ==
    ASSUME LedgerInv, ~Stops, ~LateEdits, NEW t \in Tokens, NEW f \in Files,
           NEW u \in Tokens, u # t, Flow(u), Flow(t), Trace(t)
    PROVE  /\ Offer(t) => TraceKept(u)
           /\ Review(t) => TraceKept(u)
           /\ Unstage(t) => TraceKept(u)
           /\ Restored(t) => TraceKept(u)
           /\ RecoverScan(t) => TraceKept(u)
           /\ RecoverTell(t) => TraceKept(u)
           /\ RecoverEnd(t) => TraceKept(u)
           /\ WriteFile(t, f) => TraceKept(u)
           /\ RestoreFile(t, f) => TraceKept(u)
           /\ RecoverFile(t, f) => TraceKept(u)
<1> USE DEF LedgerInv, TypeOK, kv, json, repo, local, said, Go, ProcType
<1>1. Offer(t) => TraceKept(u)
    BY DEF Offer, Published, TraceKept, Absent
<1>2. Review(t) => TraceKept(u)
    BY DEF Review, Recheck, Published, TraceKept, Absent, Touching, Flow, Recovering,
           Exclusive, Holding, Writing
<1>3. Unstage(t) => TraceKept(u)
    BY DEF Unstage, Published, TraceKept, Absent, Touching, Flow, Recovering, Exclusive,
           Holding, Writing
<1>4. Restored(t) => TraceKept(u)
    BY DEF Restored, Discard, Forget, Published, TraceKept, Absent, JsonType
<1>5. RecoverScan(t) => TraceKept(u)
    BY DEF RecoverScan, Published, TraceKept, Clear, Touching, Flow
<1>6. RecoverTell(t) => TraceKept(u)
    BY DEF RecoverTell, Published, TraceKept, Absent
<1>7. RecoverEnd(t) => TraceKept(u)
    BY DEF RecoverEnd, Discard, Forget, Published, TraceKept, Absent, JsonType, Flow, Recovering
<1>8. WriteFile(t, f) => TraceKept(u)
    <2> SUFFICES ASSUME WriteFile(t, f) PROVE TraceKept(u)
        OBVIOUS
    <2>1. \A g \in Files : work'[g] = u => work[g] = u \/ u \in Published
        BY DEF WriteFile, Trace, RepoType, Trees, Touching
    <2>2. pc[u] \notin Touching \cup {"restore", "recover", "recovered"}
        BY DEF WriteFile, Flow, Recovering, Exclusive, Holding, Writing, Touching
    <2>3. UNCHANGED <<origin, kept, seen, marked, run, done, stage>> /\ pc'[u] = pc[u]
        BY DEF WriteFile
    <2> HIDE DEF LedgerInv, TypeOK, kv, json, repo, local, said
    <2> QED BY <2>1, <2>2, <2>3 DEF TraceKept, Published, Absent
<1>9. RestoreFile(t, f) => TraceKept(u)
    <2> SUFFICES ASSUME RestoreFile(t, f) PROVE TraceKept(u)
        OBVIOUS
    <2>1. \A g \in Files : work'[g] = u => work[g] = u \/ u \in Published
        BY DEF RestoreFile, Trace, RepoType, Trees, Touching
    <2>2. pc[u] \notin Touching \cup {"restore", "recover", "recovered"}
        BY DEF RestoreFile, Flow, Recovering, Exclusive, Holding, Writing, Touching
    <2>3. UNCHANGED <<origin, kept, seen, marked, run, done, stage>> /\ pc'[u] = pc[u]
        BY DEF RestoreFile
    <2> HIDE DEF LedgerInv, TypeOK, kv, json, repo, local, said
    <2> QED BY <2>1, <2>2, <2>3 DEF TraceKept, Published, Absent
<1>10. RecoverFile(t, f) => TraceKept(u)
    <2> SUFFICES ASSUME RecoverFile(t, f) PROVE TraceKept(u)
        OBVIOUS
    <2>1. \A g \in Files : work'[g] = u => work[g] = u \/ u \in Published
        BY DEF RecoverFile, Trace, RepoType, Trees, Touching
    <2>2. pc[u] \notin Touching \cup {"restore", "recover", "recovered"}
        BY DEF RecoverFile, Flow, Touching
    <2>3. UNCHANGED <<origin, kept, seen, marked, run, done, stage>> /\ pc'[u] = pc[u]
        BY DEF RecoverFile
    <2> HIDE DEF LedgerInv, TypeOK, kv, json, repo, local, said
    <2> QED BY <2>1, <2>2, <2>3 DEF TraceKept, Published, Absent
<1> QED BY <1>1, <1>2, <1>3, <1>4, <1>5, <1>6, <1>7, <1>8, <1>9, <1>10

LEMMA TraceAround ==
    ASSUME LedgerInv, WholeInv, ~Stops, ~LateEdits, NEW k \in Leases, NEW u \in Tokens, Flow(u)
    PROVE  /\ Purge => TraceKept(u)
           /\ Expire(k) => TraceKept(u)
           /\ Crash => TraceKept(u)
           /\ Boot => TraceKept(u)
           /\ Booted => TraceKept(u)
           /\ DeployReset => TraceKept(u)
           /\ DeployEnd => TraceKept(u)
<1> USE DEF LedgerInv, TypeOK, kv, json, repo, local, said, Go, ProcType
<1>1. Purge => TraceKept(u)
    BY DEF Purge, Published, TraceKept, Absent
<1>2. Expire(k) => TraceKept(u)
    BY DEF Expire, Published, TraceKept, Absent
<1>3. Crash => TraceKept(u)
    BY DEF Crash, Idle, Published, TraceKept, Clear, Touching
<1>4. Boot => TraceKept(u)
    BY DEF Boot, Published, TraceKept, Absent
<1>5. Booted => TraceKept(u)
    BY DEF Booted, Published, TraceKept, Absent
<1>6. DeployReset => TraceKept(u)
    <2> SUFFICES ASSUME DeployReset PROVE TraceKept(u)
        OBVIOUS
    <2>1. \A f \in Files : Tip(origin)[f] # "hand" /\ (Tip(origin)[f] = u => u \in Published)
        BY DEF Tip, RepoType, WholeInv, NoHand, Published, InBranch
    <2>2. \A f \in Files : work'[f] = work[f] \/ work'[f] = Tip(origin)[f]
        BY DEF DeployReset
    <2>3. pc[u] \notin Touching \cup {"restore"}
        BY PlanAssumption DEF DeployReset, Locked, Writing, Touching
    <2>4. UNCHANGED <<origin, kept, seen, marked, run, done, stage, pc, written, todo, partial>>
          /\ todo \subseteq Files
        BY DEF DeployReset, LocalType
    <2> HIDE DEF LedgerInv, TypeOK, kv, json, repo, local, said
    <2> QED BY <2>1, <2>2, <2>3, <2>4 DEF TraceKept, Published, Absent
<1>7. DeployEnd => TraceKept(u)
    BY DEF DeployEnd, Published, TraceKept, Absent
<1> QED BY <1>1, <1>2, <1>3, <1>4, <1>5, <1>6, <1>7

\* The actions that write, restore or give up a plan's own bytes.
LEMMA TraceOwn ==
    ASSUME LedgerInv, WholeInv, JudgeInv, FlowInv, TraceInv, ~Stops, ~LateEdits,
           NEW t \in Tokens, NEW f \in Files
    PROVE  /\ Offer(t) => Trace(t)'
           /\ Review(t) => Trace(t)'
           /\ WriteFile(t, f) => Trace(t)'
           /\ Unstage(t) => Trace(t)'
           /\ RestoreFile(t, f) => Trace(t)'
           /\ Restored(t) => Trace(t)'
           /\ RecoverScan(t) => Trace(t)'
           /\ RecoverFile(t, f) => Trace(t)'
           /\ RecoverTell(t) => Trace(t)'
           /\ RecoverEnd(t) => Trace(t)'
<1> USE DEF LedgerInv, TypeOK, kv, json, repo, local, said, Go, ProcType
<1>0. Trace(t) /\ Flow(t) /\ Judging(t)
    BY DEF TraceInv, FlowInv, JudgeInv
<1>1. Offer(t) => Trace(t)'
    <2> SUFFICES ASSUME Offer(t) PROVE Trace(t)'
        OBVIOUS
    <2>1. t \notin run /\ t \notin kept \cup Published \cup marked /\ pc[t] = "idle"
        BY <1>0 DEF Offer, Flow, Claimed, WholeInv, Fresh
    <2>2. \A g \in Files : work[g] # t
        BY <1>0, <2>1 DEF Trace, Left, Traced
    <2>3. /\ \A g \in Files : seen'[t][g] \in {work[g], "base"}
          /\ UNCHANGED <<origin, work, kept, pc, marked>>
        BY DEF Offer, JsonType
    <2> HIDE DEF LedgerInv, TypeOK, kv, json, repo, local, said
    <2> QED BY <2>1, <2>2, <2>3, PlanAssumption DEF Trace, Left, Touching
<1>2. Review(t) => Trace(t)'
    <2> SUFFICES ASSUME Review(t) PROVE Trace(t)'
        OBVIOUS
    <2>1. pc[t] = "recheck" /\ pc'[t] \in {"write", "fail"}
          /\ UNCHANGED <<origin, work, kept, seen, todo>>
        BY DEF Review
    <2>2. \A g \in Files : ~Left(t, g)
        BY <1>0, <2>1, AbsentLeft DEF Absent, Clear
    <2>3. CASE pc'[t] = "write"
        <3>1. Preconditions(t) /\ written' = {} /\ t \in marked'
            BY <2>3 DEF Review, Recheck
        <3>2. \A g \in Touch[t] : g \in Files /\ seen[t][g] = Tip(origin)[g]
            BY <3>1, PlanAssumption DEF Preconditions
        <3>3. \A g \in Files : Tip(origin)[g] # "hand"
                /\ (Tip(origin)[g] \in Tokens => Tip(origin)[g] \in Published)
            BY DEF Tip, RepoType, WholeInv, NoHand, Published, InBranch
        <3> HIDE DEF LedgerInv, TypeOK, kv, json, repo, local, said
        <3> QED BY <1>0, <2>1, <2>2, <2>3, <3>1, <3>2, <3>3 DEF Trace, Left, Touching, Published
    <2>4. CASE pc'[t] = "fail"
        <3>1. marked' = marked
            BY <2>4 DEF Review
        <3> HIDE DEF LedgerInv, TypeOK, kv, json, repo, local, said
        <3> QED BY <1>0, <2>1, <2>2, <2>4, <3>1 DEF Trace, Left, Touching, Published
    <2> QED BY <2>1, <2>3, <2>4
<1>3. WriteFile(t, f) => Trace(t)'
    <2> SUFFICES ASSUME WriteFile(t, f) PROVE Trace(t)'
        OBVIOUS
    <2>1. pc[t] = "write" /\ f \in Touch[t] /\ pc'[t] \in {"write", "undo"}
          /\ UNCHANGED <<origin, kept, seen, marked, run, done, stage>>
        BY DEF WriteFile
    <2>2. /\ t \in run \ done /\ t \in marked /\ written \subseteq Touch[t] /\ stage[t] # "none"
          /\ \A g \in written : g \in Files /\ work[g] = t
        BY <1>0, <2>1 DEF Flow, Trace, Touching, Judging, Writing, LocalType
    <2>3. \/ work' = work /\ written' = written
          \/ written' = written \cup {f} /\ work'[f] = t /\ \A g \in Files \ {f} : work'[g] = work[g]
        BY DEF WriteFile, RepoType, Trees
    <2>4. \A g \in Files : Left(t, g) => g \in written /\ g \in Touch[t]
        BY <1>0, <2>1 DEF Trace, Traced, Touching
    <2> HIDE DEF LedgerInv, TypeOK, kv, json, repo, local, said
    <2> QED BY <1>0, <2>1, <2>2, <2>3, <2>4 DEF Trace, Traced, Left, Touching, Clear, Published
<1>4. Unstage(t) => Trace(t)'
    <2> SUFFICES ASSUME Unstage(t) PROVE Trace(t)'
        OBVIOUS
    <2>1. pc[t] = "unstage" /\ pc'[t] = "restore" /\ todo' = written
          /\ UNCHANGED <<origin, work, kept, seen, marked, run, done, stage, written>>
        BY DEF Unstage
    <2> HIDE DEF LedgerInv, TypeOK, kv, json, repo, local, said
    <2> QED BY <1>0, <2>1 DEF Trace, Traced, Left, Touching, Clear, Published
<1>5. RestoreFile(t, f) => Trace(t)'
    <2> SUFFICES ASSUME RestoreFile(t, f) PROVE Trace(t)'
        OBVIOUS
    <2>1. pc[t] = "restore" /\ pc'[t] = "restore" /\ todo' = todo \ {f} /\ todo \subseteq Files
          /\ UNCHANGED <<origin, kept, seen, marked, run, done, stage, written>>
        BY DEF RestoreFile, LocalType
    <2>2. /\ \A g \in Files \ {f} : work'[g] = work[g]
          /\ \/ work'[f] = seen[t][f] /\ partial' = partial
             \/ work'[f] = work[f] /\ partial' = TRUE
        BY DEF RestoreFile, RepoType, Trees
    <2> HIDE DEF LedgerInv, TypeOK, kv, json, repo, local, said
    <2> QED BY <1>0, <2>1, <2>2 DEF Trace, Traced, Left, Touching, Clear, Published
<1>6. Restored(t) => Trace(t)'
    <2> SUFFICES ASSUME Restored(t) PROVE Trace(t)'
        OBVIOUS
    <2>1. /\ pc[t] = "restore" /\ pc'[t] = "fail" /\ todo = {} /\ UNCHANGED <<origin, work>>
          /\ seen'[t] \in {seen[t], BaseTree}
        BY DEF Restored, Discard, Forget, JsonType
    <2>2. kept \subseteq kept' /\ marked' \subseteq marked /\ (partial => t \in kept')
        BY DEF Restored, Discard
    <2>3. \A g \in Files : ~Left(t, g)'
        BY <1>0, <2>1, <2>2 DEF Trace, Traced, Left, Published
    <2> HIDE DEF LedgerInv, TypeOK, kv, json, repo, local, said
    <2> QED BY <1>0, <2>1, <2>2, <2>3, PlanAssumption DEF Trace, Touching, Published, BaseTree
<1>7. RecoverScan(t) => Trace(t)'
    <2> SUFFICES ASSUME RecoverScan(t) PROVE Trace(t)'
        OBVIOUS
    <2>1. pc[t] = "scan" /\ pc'[t] = "recover"
          /\ UNCHANGED <<origin, work, kept, seen, marked, run, done, stage>>
        BY DEF RecoverScan
    <2>2. CASE t \in marked
        <3>1. todo' = {g \in Touch[t] : work[g] = t}
            BY <2>2 DEF RecoverScan, Ours
        <3> HIDE DEF LedgerInv, TypeOK, kv, json, repo, local, said
        <3> QED BY <1>0, <2>1, <2>2, <3>1, PlanAssumption DEF Trace, Traced, Left, Touching,
               Clear, Published
    <2>3. CASE t \notin marked
        <3>1. \A v \in Tokens : pc[v] # "recover"
            BY <1>0, <2>1 DEF Flow, Recovering
        <3>2. todo' = {}
            BY <1>0, <2>1, <2>3, <3>1 DEF RecoverScan, FlowInv, Listed
        <3> HIDE DEF LedgerInv, TypeOK, kv, json, repo, local, said
        <3> QED BY <1>0, <2>1, <2>3, <3>2 DEF Trace, Traced, Left, Touching, Clear, Published
    <2> QED BY <2>2, <2>3
<1>8. RecoverFile(t, f) => Trace(t)'
    <2> SUFFICES ASSUME RecoverFile(t, f) PROVE Trace(t)'
        OBVIOUS
    <2>1. pc[t] = "recover" /\ pc'[t] = "recover" /\ todo' = todo \ {f} /\ todo \subseteq Files
          /\ UNCHANGED <<origin, kept, seen, marked, run, done, stage, written>>
        BY DEF RecoverFile, LocalType
    <2>2. /\ \A g \in Files \ {f} : work'[g] = work[g]
          /\ \/ work'[f] = seen[t][f] /\ partial' = partial
             \/ work'[f] = work[f] /\ partial' = TRUE
        BY DEF RecoverFile, RepoType, Trees
    <2> HIDE DEF LedgerInv, TypeOK, kv, json, repo, local, said
    <2> QED BY <1>0, <2>1, <2>2 DEF Trace, Traced, Left, Touching, Clear, Published
<1>9. RecoverTell(t) => Trace(t)'
    <2> SUFFICES ASSUME RecoverTell(t) PROVE Trace(t)'
        OBVIOUS
    <2>1. pc'[t] = "recovered" /\ (pc[t] \in {"lost", "there"} \/ (pc[t] = "recover" /\ todo = {}))
          /\ UNCHANGED <<origin, work, kept, seen, marked, run, done, stage, partial>>
        BY DEF RecoverTell
    <2>2. \A g \in Files : Left(t, g) => pc[t] = "recover"
        BY <1>0, <2>1, AbsentLeft DEF Absent, Clear
    <2> HIDE DEF LedgerInv, TypeOK, kv, json, repo, local, said
    <2> QED BY <1>0, <2>1, <2>2 DEF Trace, Traced, Left, Touching, Clear, Published
<1>10. RecoverEnd(t) => Trace(t)'
    <2> SUFFICES ASSUME RecoverEnd(t) PROVE Trace(t)'
        OBVIOUS
    <2>1. /\ pc[t] = "recovered" /\ pc'[t] = "idle" /\ UNCHANGED <<origin, work, run>>
          /\ seen'[t] \in {seen[t], BaseTree}
        BY DEF RecoverEnd, Discard, Forget, JsonType
    <2>2. \/ UNCHANGED <<done, stage, marked, kept>>
          \/ marked' \subseteq marked /\ kept \subseteq kept' /\ (partial => t \in kept')
        BY DEF RecoverEnd, Discard
    <2> HIDE DEF LedgerInv, TypeOK, kv, json, repo, local, said
    <2> QED BY <1>0, <2>1, <2>2, PlanAssumption DEF Trace, Traced, Left, Touching, Clear, Published, BaseTree
<1> QED BY <1>1, <1>2, <1>3, <1>4, <1>5, <1>6, <1>7, <1>8, <1>9, <1>10

LEMMA TraceInit == Init => TraceInv
<1> SUFFICES ASSUME Init, NEW u \in Tokens PROVE Trace(u)
    BY DEF TraceInv
<1>1. \A f \in Files : work[f] = "base" /\ seen[u][f] = "base"
    BY DEF Init, BaseTree
<1>2. u # "base" /\ pc[u] = "idle" /\ marked = {}
    BY PlanAssumption DEF Init
<1> QED BY <1>1, <1>2 DEF Trace, Left, Touching

LEMMA TraceStep ==
    ASSUME LedgerInv, WholeInv, JudgeInv, FlowInv, TraceInv, ~Stops, ~LateEdits, [Next]_vars
    PROVE  TraceInv'
<1> SUFFICES ASSUME NEW u \in Tokens PROVE Trace(u)'
    BY DEF TraceInv
<1>1. Trace(u) /\ Flow(u)
    BY DEF TraceInv, FlowInv
<1>2. CASE UNCHANGED vars
    BY <1>1, <1>2 DEF vars, kv, json, repo, local, Trace, Traced, Left, Published
<1>3. ASSUME NEW t \in Tokens, Owner(t) \/ Execute(t) \/ Stop(t) \/ Recover(t) PROVE Trace(u)'
    <2> DEFINE Own(f) == \/ Offer(t) \/ Review(t) \/ WriteFile(t, f) \/ Unstage(t) \/ RestoreFile(t, f)
                         \/ Restored(t) \/ RecoverScan(t) \/ RecoverFile(t, f) \/ RecoverTell(t) \/ RecoverEnd(t)
    <2>1. PICK f0 \in Files : TRUE
        BY PlanAssumption
    <2>2. Trace(t) /\ Flow(t)
        BY DEF TraceInv, FlowInv
    <2>3. ASSUME NEW f \in Files, Own(f) PROVE Trace(u)'
        <3>1. CASE u = t
            BY <2>3, <3>1, TraceOwn
        <3>2. CASE u # t
            <4>1. TraceKept(u)
                BY <1>1, <2>2, <2>3, <3>2, TraceOthers
            <4> QED BY <1>1, <4>1, TraceKeeps
        <3> QED BY <3>1, <3>2
    <2>4. CASE \A f \in Files : ~Own(f)
        <3>1. TraceKept(u)
            BY <1>1, <1>3, <2>1, <2>2, <2>4, TraceQuiet DEF Owner, Execute, Recover, Stop
        <3> QED BY <1>1, <3>1, TraceKeeps
    <2> QED BY <2>3, <2>4
<1>4. ASSUME NEW f \in Files, DevPush(f) PROVE Trace(u)'
    <2>1. Published' = Published
        BY <1>4, DevPublishesNothing DEF LedgerInv, TypeOK
    <2>2. UNCHANGED <<work, kept, seen, marked, run, done, stage, pc, written, todo, partial>>
        BY <1>4 DEF DevPush, kv, json, repo, local
    <2> QED BY <1>1, <2>1, <2>2 DEF Trace, Traced, Left
<1>5. ASSUME NEW f \in Files, HandEdit(f) PROVE Trace(u)'
    <2>1. UNCHANGED <<origin, kept, seen, marked, run, done, stage, pc, written, todo, partial>>
        BY <1>5 DEF HandEdit, kv, json, local
    <2>2. f \notin Held(u) /\ \A g \in Files : work'[g] = IF g = f THEN "hand" ELSE work[g]
        BY <1>5 DEF HandEdit, LateEdits, LedgerInv, TypeOK, RepoType, Trees
    <2>3. /\ pc[u] \in Touching => f \notin written
          /\ pc[u] \in {"restore", "recover"} => f \notin todo
        BY <2>2 DEF Held, Writing, Touching
    <2> QED BY <1>1, <2>1, <2>2, <2>3, PlanAssumption DEF Trace, Traced, Left, Published
<1>6. ASSUME Purge \/ Crash \/ Boot \/ Booted \/ Deploy \/ \E k \in Leases : Expire(k)
      PROVE  Trace(u)'
    <2>1. TraceKept(u)
        <3>1. Leases # {}
            BY DEF Leases
        <3> QED BY <1>1, <1>6, <3>1, TraceAround DEF Deploy
    <2> QED BY <1>1, <2>1, TraceKeeps
<1> QED BY <1>2, <1>3, <1>4, <1>5, <1>6 DEF Next

-----------------------------------------------------------------------------
(* The theorems *)

SafeInv == LedgerInv /\ WholeInv /\ JudgeInv /\ FlowInv /\ TraceInv

\* The invariant the three theorems rest on, of the whole executor, as long as
\* no stop separates phase 2 from the deploy lock and no edit is late.
THEOREM PlanSafe == ASSUME ~Stops, ~LateEdits PROVE Spec => []SafeInv
<1>1. Init => SafeInv
    BY LedgerInit, WholeInit, JudgeInit, FlowInit, TraceInit DEF SafeInv
<1>2. SafeInv /\ [Next]_vars => SafeInv'
    BY LedgerStep, WholeStep, JudgeStep, FlowStep, TraceStep DEF SafeInv
<1> QED BY <1>1, <1>2, PTL DEF Spec

\* Every commit that reaches origin is a developer's or one approved plan,
\* whole, and no plan twice (_preconditions, diff --cached, kv_claim).
THEOREM PlanWholePushed == ASSUME ~Stops, ~LateEdits PROVE Spec => []WholePlansPushed
<1>1. SafeInv => WholePlansPushed
    BY GrownWhole DEF SafeInv, LedgerInv, TypeOK, WholeInv
<1> QED BY <1>1, PlanSafe, PTL

\* "Failed" is said only of a plan that is not on origin, or that could not
\* be judged (_remote_sha, _rollback, _recover_one, _report).
THEOREM PlanFailedAbsent == ASSUME ~Stops, ~LateEdits PROVE Spec => []FailedMeansAbsent
<1>1. SafeInv => FailedMeansAbsent
    BY DEF SafeInv, JudgeInv, Judging, Away, FailedMeansAbsent
<1> QED BY <1>1, PlanSafe, PTL

\* A plan that ended unpublished left no byte in the checkout, or its
\* originals were kept (_rollback, _keep_backup, _restore_from_state).
THEOREM PlanNoResidue == ASSUME ~Stops, ~LateEdits PROVE Spec => []NoResidue
<1>1. SafeInv => NoResidue
    BY DEF SafeInv, TraceInv, Trace, Traced, Left, NoResidue
<1> QED BY <1>1, PlanSafe, PTL
=============================================================================
