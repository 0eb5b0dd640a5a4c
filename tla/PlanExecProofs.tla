--------------------------- MODULE PlanExecProofs ---------------------------
(***************************************************************************)
(* Type correctness of the plan executor, and what it does to an edit by   *)
(* hand, for any plans, files and bounds, with stops and late edits.       *)
(***************************************************************************)
EXTENDS PlanExec, SequenceTheorems, TLAPS

LEMMA StepNames ==
    /\ "idle" \in Steps /\ "begin" \in Steps /\ "close" \in Steps /\ "prepare" \in Steps
    /\ "flock" \in Steps /\ "ok" \in Steps /\ "fail" \in Steps /\ "finish" \in Steps
    /\ "release" \in Steps /\ "lost" \in Steps /\ "there" \in Steps /\ "scan" \in Steps
    /\ "recover" \in Steps /\ "recovered" \in Steps /\ "recheck" \in Steps /\ "write" \in Steps
    /\ "commit" \in Steps /\ "save" \in Steps /\ "push" \in Steps /\ "ask" \in Steps
    /\ "pushed" \in Steps /\ "undo" \in Steps /\ "unstage" \in Steps /\ "restore" \in Steps
BY DEF Steps, Writing

LEMMA NoCommit == <<>> \in Seq(Trees) /\ HasParent(<<>>)
BY DEF HasParent

LEMMA BranchFacts ==
    ASSUME NEW s \in Seq(Trees) \ {<<>>}, NEW x \in Trees
    PROVE  /\ Tip(s) \in Trees
           /\ Append(s, x) \in Seq(Trees) \ {<<>>} /\ HasParent(Append(s, x))
           /\ Len(s) >= 2 => Front(s) \in Seq(Trees) \ {<<>>}
<1>1. Len(s) \in Nat /\ Len(s) >= 1 /\ \A i \in 1..Len(s) : s[i] \in Trees
    OBVIOUS
<1>2. Tip(s) \in Trees
    BY <1>1 DEF Tip
<1>3. Append(s, x) \in Seq(Trees) /\ Len(Append(s, x)) = Len(s) + 1
    OBVIOUS
<1>4. Append(s, x) # <<>> /\ HasParent(Append(s, x))
    BY <1>1, <1>3 DEF HasParent
<1>5. ASSUME Len(s) >= 2 PROVE Front(s) \in Seq(Trees) \ {<<>>}
    <2>1. Front(s) = SubSeq(s, 1, Len(s) - 1)
        BY DEF Front
    <2>2. Front(s) \in Seq(Trees) /\ Len(Front(s)) = Len(s) - 1
        BY <1>1, <1>5, <2>1, SubSeqProperties
    <2>3. Front(s) # <<>>
        BY <1>1, <1>5, <2>2
    <2> QED BY <2>2, <2>3
<1> QED BY <1>2, <1>3, <1>4, <1>5

\* A file of one tree set from another, or by a plan.
LEMMA TreeFacts ==
    ASSUME NEW x \in Trees, NEW y \in Trees, NEW f \in Files, NEW c \in Contents, NEW S
    PROVE  /\ x[f] \in Contents
           /\ [x EXCEPT ![f] = c] \in Trees
           /\ [g \in Files |-> IF g \in S THEN x[g] ELSE y[g]] \in Trees
BY DEF Trees

LEMMA ContentFacts ==
    Tokens \subseteq Contents /\ {"dev", "hand", "late"} \subseteq Contents
BY DEF Contents

\* The hashes of an offer, and of a plan that ended.
LEMMA HashFacts ==
    ASSUME seen \in [Tokens -> Trees], NEW t \in Tokens, NEW x \in Trees
    PROVE  /\ BaseTree \in Trees
           /\ [f \in Files |-> IF f \in Touch[t] THEN x[f] ELSE "base"] \in Trees
           /\ Forget(t) => seen' \in [Tokens -> Trees]
BY DEF Trees, Contents, BaseTree, Forget

LEMMA TypeInit == Init => TypeOK
<1> SUFFICES ASSUME Init PROVE TypeOK
    OBVIOUS
<1> DEFINE tree == BaseTree
<1>1. tree \in Trees
    BY DEF Trees, Contents, BaseTree
<1>2. origin = <<tree>> /\ origin[1] = tree
    BY DEF Init
<1>3. origin \in Seq(Trees) \ {<<>>} /\ head \in Seq(Trees) \ {<<>>}
    <2> HIDE DEF tree
    <2>1. <<tree>> \in Seq(Trees) \ {<<>>}
        BY <1>1
    <2> QED BY <1>2, <2>1 DEF Init
<1>4. RepoType
    BY <1>1, <1>2, <1>3 DEF Init, RepoType
<1>5. JsonType
    BY <1>1 DEF Init, JsonType, HasParent
<1>6. LocalType /\ SaidType /\ LeaseType /\ StoreType
    <2>1. LocalType
        BY NoCommit DEF Init, LocalType
    <2>2. SaidType /\ LeaseType
        BY DEF Init, SaidType, LeaseType
    <2>3. StoreType
        BY DEF Init, StoreType
    <2> QED BY <2>1, <2>2, <2>3
<1>7. ProcType
    BY StepNames DEF Init, ProcType
<1> QED BY <1>4, <1>5, <1>6, <1>7 DEF TypeOK

\* Each action, the parts of the type it touches first.
LEMMA TokenTypeStep ==
    ASSUME TypeOK, NEW t \in Tokens, NEW a \in BOOLEAN
    PROVE  /\ Offer(t) => TypeOK'
           /\ Press(t, a) => TypeOK'
           /\ Close(t) => TypeOK'
           /\ Begin(t) => TypeOK'
           /\ Prepare(t) => TypeOK'
           /\ TakeFlock(t) => TypeOK'
           /\ Review(t) => TypeOK'
           /\ Add(t) => TypeOK'
           /\ Commit(t) => TypeOK'
           /\ SaveCommit(t) => TypeOK'
           /\ Push(t) => TypeOK'
           /\ Ask(t) => TypeOK'
           /\ SavePushed(t) => TypeOK'
           /\ Undo(t) => TypeOK'
           /\ Unstage(t) => TypeOK'
           /\ Restored(t) => TypeOK'
           /\ Report(t) => TypeOK'
           /\ Finish(t) => TypeOK'
           /\ Leave(t) => TypeOK'
           /\ Stop(t) => TypeOK'
           /\ StopEnds(t) => TypeOK'
           /\ RecoverRead(t) => TypeOK'
           /\ RecoverScan(t) => TypeOK'
           /\ RecoverTell(t) => TypeOK'
           /\ RecoverEnd(t) => TypeOK'
           /\ Announce(t) => TypeOK'
<1> USE DEF TypeOK, kv, json, repo, local, said
<1>1. Offer(t) => TypeOK'
    <2> SUFFICES ASSUME Offer(t) PROVE TypeOK'
        OBVIOUS
    <2>1. StoreType'
        BY DEF Offer, StoreType
    <2>2. JsonType'
        BY NoCommit, HashFacts DEF Offer, JsonType, RepoType
    <2>3. LeaseType' /\ RepoType' /\ ProcType' /\ LocalType' /\ SaidType'
        BY DEF Offer, LeaseType, RepoType, ProcType, LocalType, SaidType
    <2> QED BY <2>1, <2>2, <2>3 DEF TypeOK
<1>2. Press(t, a) => TypeOK'
    <2> SUFFICES ASSUME Press(t, a) PROVE TypeOK'
        OBVIOUS
    <2>1. StoreType'
        BY DEF Press, Claim, StoreType
    <2>2. ProcType'
        BY StepNames DEF Press, Claim, ProcType, Go
    <2>3. SaidType'
        BY DEF Press, Claim, SaidType
    <2>4. LeaseType' /\ JsonType' /\ RepoType' /\ LocalType'
        BY DEF Press, Claim, LeaseType, JsonType, RepoType, LocalType
    <2> QED BY <2>1, <2>2, <2>3, <2>4 DEF TypeOK
<1>3. Close(t) => TypeOK'
    <2> SUFFICES ASSUME Close(t) PROVE TypeOK'
        OBVIOUS
    <2>1. StoreType'
        BY DEF Close, StoreType
    <2>2. ProcType'
        BY StepNames DEF Close, ProcType, Go
    <2>3. LeaseType' /\ RepoType' /\ LocalType' /\ SaidType'
        BY DEF Close, LeaseType, RepoType, LocalType, SaidType
    <2>4. JsonType'
        BY HashFacts DEF Close, JsonType, RepoType
    <2> QED BY <2>1, <2>2, <2>3, <2>4 DEF TypeOK
<1>4. Begin(t) => TypeOK'
    <2> SUFFICES ASSUME Begin(t) PROVE TypeOK'
        OBVIOUS
    <2>1. LeaseType'
        BY DEF Begin, LeaseType
    <2>2. ProcType'
        BY StepNames DEF Begin, ProcType, Go
    <2>3. StoreType' /\ JsonType' /\ RepoType' /\ LocalType' /\ SaidType'
        BY DEF Begin, StoreType, JsonType, RepoType, LocalType, SaidType
    <2> QED BY <2>1, <2>2, <2>3 DEF TypeOK
<1>5. Prepare(t) => TypeOK'
    <2> SUFFICES ASSUME Prepare(t) PROVE TypeOK'
        OBVIOUS
    <2>1. JsonType'
        BY NoCommit DEF Prepare, JsonType
    <2>2. LocalType'
        BY NoCommit DEF Prepare, LocalType, RepoType
    <2>3. ProcType'
        BY StepNames DEF Prepare, ProcType, Go
    <2>4. StoreType' /\ LeaseType' /\ RepoType' /\ SaidType'
        BY DEF Prepare, StoreType, LeaseType, RepoType, SaidType
    <2> QED BY <2>1, <2>2, <2>3, <2>4 DEF TypeOK
<1>6. TakeFlock(t) => TypeOK'
    <2> SUFFICES ASSUME TakeFlock(t) PROVE TypeOK'
        OBVIOUS
    <2>1. ProcType'
        BY StepNames DEF TakeFlock, ProcType, Go
    <2>2. StoreType' /\ LeaseType' /\ JsonType' /\ RepoType' /\ LocalType' /\ SaidType'
        BY DEF TakeFlock, StoreType, LeaseType, JsonType, RepoType, LocalType, SaidType
    <2> QED BY <2>1, <2>2 DEF TypeOK
<1>7. Review(t) => TypeOK'
    <2> SUFFICES ASSUME Review(t) PROVE TypeOK'
        OBVIOUS
    <2>1. ProcType'
        BY StepNames DEF Review, Unlock, Recheck, ProcType, Go
    <2>2. JsonType'
        BY NoCommit DEF Review, Recheck, JsonType
    <2>3. LocalType'
        BY NoCommit DEF Review, Recheck, LocalType
    <2>4. StoreType' /\ LeaseType' /\ RepoType' /\ SaidType'
        BY DEF Review, Recheck, StoreType, LeaseType, RepoType, SaidType
    <2> QED BY <2>1, <2>2, <2>3, <2>4 DEF TypeOK
<1>8. Add(t) => TypeOK'
    <2> SUFFICES ASSUME Add(t) PROVE TypeOK'
        OBVIOUS
    <2>1. RepoType'
        <3>1. Tip(head) \in Trees /\ idx \in Trees /\ work \in Trees
            BY BranchFacts DEF RepoType
        <3>2. idx' \in Trees
            BY <3>1, TreeFacts DEF Add, Trees
        <3> QED BY <3>2 DEF Add, RepoType
    <2>2. ProcType'
        BY StepNames DEF Add, ProcType, Go
    <2>3. StoreType' /\ LeaseType' /\ JsonType' /\ LocalType' /\ SaidType'
        BY DEF Add, StoreType, LeaseType, JsonType, LocalType, SaidType
    <2> QED BY <2>1, <2>2, <2>3 DEF TypeOK
<1>9. Commit(t) => TypeOK'
    <2> SUFFICES ASSUME Commit(t) PROVE TypeOK'
        OBVIOUS
    <2>1. RepoType'
        BY BranchFacts, TreeFacts DEF Commit, RepoType
    <2>2. LocalType'
        BY NoCommit, BranchFacts DEF Commit, LocalType, RepoType
    <2>3. ProcType'
        BY StepNames DEF Commit, ProcType, Go
    <2>4. StoreType' /\ LeaseType' /\ JsonType' /\ SaidType'
        BY DEF Commit, StoreType, LeaseType, JsonType, SaidType
    <2> QED BY <2>1, <2>2, <2>3, <2>4 DEF TypeOK
<1>10. SaveCommit(t) => TypeOK'
    <2> SUFFICES ASSUME SaveCommit(t) PROVE TypeOK'
        OBVIOUS
    <2>1. JsonType'
        BY NoCommit DEF SaveCommit, JsonType, LocalType
    <2>2. ProcType'
        BY StepNames DEF SaveCommit, ProcType, Go
    <2>3. SaidType'
        BY DEF SaveCommit, SaidType
    <2>4. StoreType' /\ LeaseType' /\ RepoType' /\ LocalType'
        BY DEF SaveCommit, StoreType, LeaseType, RepoType, LocalType
    <2> QED BY <2>1, <2>2, <2>3, <2>4 DEF TypeOK
<1>11. Push(t) => TypeOK'
    <2> SUFFICES ASSUME Push(t) PROVE TypeOK'
        OBVIOUS
    <2>1. RepoType'
        BY BranchFacts, TreeFacts DEF Push, RepoType
    <2>2. ProcType'
        BY StepNames DEF Push, ProcType, Go
    <2>3. StoreType' /\ LeaseType' /\ JsonType' /\ LocalType' /\ SaidType'
        BY DEF Push, StoreType, LeaseType, JsonType, LocalType, SaidType
    <2> QED BY <2>1, <2>2, <2>3 DEF TypeOK
<1>12. Ask(t) => TypeOK'
    <2> SUFFICES ASSUME Ask(t) PROVE TypeOK'
        OBVIOUS
    <2>1. ProcType'
        BY StepNames DEF Ask, AskRemote, ProcType, Go
    <2>2. SaidType'
        BY DEF Ask, AskRemote, SaidType
    <2>3. StoreType' /\ LeaseType' /\ JsonType' /\ RepoType' /\ LocalType'
        BY DEF Ask, AskRemote, StoreType, LeaseType, JsonType, RepoType, LocalType
    <2> QED BY <2>1, <2>2, <2>3 DEF TypeOK
<1>13. SavePushed(t) => TypeOK'
    <2> SUFFICES ASSUME SavePushed(t) PROVE TypeOK'
        OBVIOUS
    <2>1. JsonType'
        BY NoCommit DEF SavePushed, JsonType
    <2>2. ProcType'
        BY StepNames DEF SavePushed, Unlock, ProcType, Go
    <2>3. StoreType' /\ LeaseType' /\ RepoType' /\ LocalType' /\ SaidType'
        BY DEF SavePushed, StoreType, LeaseType, RepoType, LocalType, SaidType
    <2> QED BY <2>1, <2>2, <2>3 DEF TypeOK
<1>14. Undo(t) => TypeOK'
    <2> SUFFICES ASSUME Undo(t) PROVE TypeOK'
        OBVIOUS
    <2>1. RepoType'
        <3>1. head' \in Seq(Trees) \ {<<>>}
            <4>1. CASE head = committed
                <5>1. head \in Seq(Trees) \ {<<>>} /\ Len(head) >= 2
                    BY <4>1 DEF RepoType, LocalType, HasParent
                <5>2. Front(head) \in Seq(Trees) \ {<<>>}
                    BY <5>1, BranchFacts DEF RepoType
                <5> QED BY <4>1, <5>2 DEF Undo, Uncommitted
            <4>2. CASE head # committed
                BY <4>2 DEF Undo, Uncommitted, RepoType
            <4> QED BY <4>1, <4>2
        <3> QED BY <3>1 DEF Undo, RepoType
    <2>2. LocalType'
        BY NoCommit DEF Undo, LocalType
    <2>3. ProcType'
        BY StepNames DEF Undo, ProcType, Go
    <2>4. StoreType' /\ LeaseType' /\ JsonType' /\ SaidType'
        BY DEF Undo, StoreType, LeaseType, JsonType, SaidType
    <2> QED BY <2>1, <2>2, <2>3, <2>4 DEF TypeOK
<1>15. Unstage(t) => TypeOK'
    <2> SUFFICES ASSUME Unstage(t) PROVE TypeOK'
        OBVIOUS
    <2>1. RepoType'
        <3>1. Tip(head) \in Trees /\ idx \in Trees /\ work \in Trees
            BY BranchFacts DEF RepoType
        <3>2. idx' \in Trees
            BY <3>1, TreeFacts DEF Unstage, Unstaged, Trees
        <3> QED BY <3>2 DEF Unstage, RepoType
    <2>2. LocalType'
        BY NoCommit DEF Unstage, Unstaged, LocalType
    <2>3. ProcType'
        BY StepNames DEF Unstage, Unstaged, ProcType, Go
    <2>4. StoreType' /\ LeaseType' /\ JsonType' /\ SaidType'
        BY DEF Unstage, Unstaged, StoreType, LeaseType, JsonType, SaidType
    <2> QED BY <2>1, <2>2, <2>3, <2>4 DEF TypeOK
<1>16. Restored(t) => TypeOK'
    <2> SUFFICES ASSUME Restored(t) PROVE TypeOK'
        OBVIOUS
    <2>1. JsonType'
        BY NoCommit, HashFacts DEF Restored, Discard, JsonType, RepoType
    <2>2. ProcType'
        BY StepNames DEF Restored, Unlock, Discard, ProcType, Go
    <2>3. StoreType' /\ LeaseType' /\ RepoType' /\ LocalType' /\ SaidType'
        BY DEF Restored, Discard, StoreType, LeaseType, RepoType, LocalType, SaidType
    <2> QED BY <2>1, <2>2, <2>3 DEF TypeOK
<1>17. Report(t) => TypeOK'
    <2> SUFFICES ASSUME Report(t) PROVE TypeOK'
        OBVIOUS
    <2>1. SaidType'
        BY DEF Report, Send, SaidType
    <2>2. ProcType'
        BY StepNames DEF Report, ProcType, Go
    <2>3. StoreType' /\ LeaseType' /\ JsonType' /\ RepoType' /\ LocalType'
        BY DEF Report, StoreType, LeaseType, JsonType, RepoType, LocalType
    <2> QED BY <2>1, <2>2, <2>3 DEF TypeOK
<1>18. Finish(t) => TypeOK'
    <2> SUFFICES ASSUME Finish(t) PROVE TypeOK'
        OBVIOUS
    <2>1. StoreType'
        BY DEF Finish, Discard, StoreType
    <2>2. JsonType'
        BY NoCommit, HashFacts DEF Finish, Discard, JsonType, RepoType
    <2>3. ProcType'
        BY StepNames DEF Finish, Discard, ProcType, Go
    <2>4. LeaseType' /\ RepoType' /\ LocalType' /\ SaidType'
        BY DEF Finish, Discard, LeaseType, RepoType, LocalType, SaidType
    <2> QED BY <2>1, <2>2, <2>3, <2>4 DEF TypeOK
<1>19. Leave(t) => TypeOK'
    <2> SUFFICES ASSUME Leave(t) PROVE TypeOK'
        OBVIOUS
    <2>1. LeaseType'
        BY DEF Leave, Release, Freed, LeaseType
    <2>2. ProcType'
        BY StepNames DEF Leave, Release, Freed, ProcType, Go
    <2>3. LocalType'
        BY NoCommit DEF Leave, Release, Freed, LocalType
    <2>4. StoreType' /\ JsonType' /\ RepoType' /\ SaidType'
        BY DEF Leave, Release, Freed, StoreType, JsonType, RepoType, SaidType
    <2> QED BY <2>1, <2>2, <2>3, <2>4 DEF TypeOK
<1>20. Stop(t) => TypeOK'
    <2> SUFFICES ASSUME Stop(t) PROVE TypeOK'
        OBVIOUS
    <2>1. ProcType'
        BY StepNames DEF Stop, Unlock, Freed, Idle, ProcType, Go
    <2>2. LeaseType'
        BY DEF Stop, Freed, Idle, LeaseType
    <2>3. StoreType' /\ JsonType' /\ RepoType' /\ LocalType' /\ SaidType'
        BY DEF Stop, Freed, Idle, StoreType, JsonType, RepoType, LocalType, SaidType
    <2> QED BY <2>1, <2>2, <2>3 DEF TypeOK
<1>21. StopEnds(t) => TypeOK'
    <2> SUFFICES ASSUME StopEnds(t) PROVE TypeOK'
        OBVIOUS
    <2>1. ProcType'
        BY StepNames DEF StopEnds, Clean, Idle, ProcType, Go
    <2>2. LocalType'
        BY NoCommit DEF StopEnds, Clean, Idle, LocalType
    <2>3. StoreType' /\ LeaseType' /\ JsonType' /\ RepoType' /\ SaidType'
        BY DEF StopEnds, Clean, Idle, StoreType, LeaseType, JsonType, RepoType, SaidType
    <2> QED BY <2>1, <2>2, <2>3 DEF TypeOK
<1>22. RecoverRead(t) => TypeOK'
    <2> SUFFICES ASSUME RecoverRead(t) PROVE TypeOK'
        OBVIOUS
    <2>1. RepoType'
        <3>1. head' \in Seq(Trees) \ {<<>>}
            <4>1. CASE head = saved[t]
                <5>1. head \in Seq(Trees) \ {<<>>} /\ Len(head) >= 2
                    BY <4>1 DEF RepoType, JsonType, HasParent
                <5>2. Front(head) \in Seq(Trees) \ {<<>>}
                    BY <5>1, BranchFacts DEF RepoType
                <5> QED BY <4>1, <5>2 DEF RecoverRead, Uncommitted, RepoType
            <4>2. CASE ~(head = saved[t])
                BY <4>2 DEF RecoverRead, Uncommitted, RepoType
            <4> QED BY <4>1, <4>2
        <3> QED BY <3>1 DEF RecoverRead, Uncommitted, RepoType
    <2>2. SaidType'
        BY DEF RecoverRead, SaidType
    <2>3. ProcType'
        BY StepNames DEF RecoverRead, ProcType, Go
    <2>4. LocalType'
        BY NoCommit DEF RecoverRead, LocalType
    <2>5. StoreType' /\ LeaseType' /\ JsonType'
        BY DEF RecoverRead, StoreType, LeaseType, JsonType
    <2> QED BY <2>1, <2>2, <2>3, <2>4, <2>5 DEF TypeOK
<1>23. RecoverScan(t) => TypeOK'
    <2> SUFFICES ASSUME RecoverScan(t) PROVE TypeOK'
        OBVIOUS
    <2>1. LocalType'
        <3>1. todo' \subseteq Files
            BY PlanAssumption DEF RecoverScan, Ours, LocalType
        <3>2. partial' \in BOOLEAN
            BY DEF RecoverScan, LocalType
        <3> QED BY <3>1, <3>2 DEF RecoverScan, LocalType
    <2>2. RepoType'
        <3>1. Tip(head) \in Trees /\ idx \in Trees /\ work \in Trees
            BY BranchFacts DEF RepoType
        <3>2. idx' \in Trees
            <4>1. Unstaged(Touch[t]) \in Trees
                BY <3>1 DEF Unstaged, Trees
            <4> QED BY <3>1, <4>1 DEF RecoverScan
        <3> QED BY <3>2 DEF RecoverScan, RepoType
    <2>3. ProcType'
        BY StepNames DEF RecoverScan, Ours, Unstaged, ProcType, Go
    <2>4. StoreType' /\ LeaseType' /\ JsonType' /\ SaidType'
        BY DEF RecoverScan, Ours, Unstaged, StoreType, LeaseType, JsonType, SaidType
    <2> QED BY <2>1, <2>2, <2>3, <2>4 DEF TypeOK
<1>24. RecoverTell(t) => TypeOK'
    <2> SUFFICES ASSUME RecoverTell(t) PROVE TypeOK'
        OBVIOUS
    <2>1. SaidType'
        BY DEF RecoverTell, SaidType
    <2>2. ProcType'
        BY StepNames DEF RecoverTell, ProcType, Go
    <2>3. StoreType' /\ LeaseType' /\ JsonType' /\ RepoType' /\ LocalType'
        BY DEF RecoverTell, StoreType, LeaseType, JsonType, RepoType, LocalType
    <2> QED BY <2>1, <2>2, <2>3 DEF TypeOK
<1>25. RecoverEnd(t) => TypeOK'
    <2> SUFFICES ASSUME RecoverEnd(t) PROVE TypeOK'
        OBVIOUS
    <2>1. StoreType'
        BY DEF RecoverEnd, Freed, Discard, StoreType
    <2>2. JsonType'
        <3>1. seen' \in [Tokens -> Trees]
            BY HashFacts DEF RecoverEnd, Discard, JsonType, RepoType
        <3>2. /\ stage' \in [Tokens -> {"none", "applying", "committed", "pushed"}]
              /\ marked' \subseteq Tokens /\ kept' \subseteq Tokens
            BY DEF RecoverEnd, Discard, JsonType
        <3>3. saved' \in [Tokens -> Seq(Trees)] /\ \A v \in Tokens : HasParent(saved'[v])
            BY NoCommit DEF RecoverEnd, Discard, JsonType
        <3> QED BY <3>1, <3>2, <3>3 DEF JsonType, HasParent
    <2>3. LeaseType'
        BY DEF RecoverEnd, Freed, Discard, LeaseType
    <2>4. LocalType'
        BY NoCommit DEF RecoverEnd, Freed, Discard, LocalType
    <2>5. ProcType'
        BY StepNames DEF RecoverEnd, Freed, Discard, ProcType, Go
    <2>6. RepoType' /\ SaidType'
        BY DEF RecoverEnd, Freed, Discard, RepoType, SaidType
    <2> QED BY <2>1, <2>2, <2>3, <2>4, <2>5, <2>6 DEF TypeOK
<1>26. Announce(t) => TypeOK'
    <2> SUFFICES ASSUME Announce(t) PROVE TypeOK'
        OBVIOUS
    <2>1. SaidType'
        BY DEF Announce, Send, SaidType
    <2>2. StoreType' /\ LeaseType' /\ JsonType' /\ RepoType' /\ ProcType' /\ LocalType'
        BY DEF Announce, StoreType, LeaseType, JsonType, RepoType, ProcType, LocalType
    <2> QED BY <2>1, <2>2 DEF TypeOK
<1> QED BY <1>1, <1>2, <1>3, <1>4, <1>5, <1>6, <1>7, <1>8, <1>9, <1>10, <1>11, <1>12, <1>13,
       <1>14, <1>15, <1>16, <1>17, <1>18, <1>19, <1>20, <1>21, <1>22, <1>23, <1>24, <1>25, <1>26

\* The actions on one file of a plan.
LEMMA TokenFileTypeStep ==
    ASSUME TypeOK, NEW t \in Tokens, NEW f \in Files
    PROVE  /\ WriteFile(t, f) => TypeOK'
           /\ RestoreFile(t, f) => TypeOK'
           /\ RecoverFile(t, f) => TypeOK'
<1> USE DEF TypeOK, kv, json, repo, local, said
<1>1. WriteFile(t, f) => TypeOK'
    <2> SUFFICES ASSUME WriteFile(t, f) PROVE TypeOK'
        OBVIOUS
    <2>1. RepoType'
        <3>1. [work EXCEPT ![f] = t] \in Trees
            BY TreeFacts, ContentFacts DEF RepoType
        <3> QED BY <3>1 DEF WriteFile, RepoType
    <2>2. LocalType'
        BY NoCommit DEF WriteFile, LocalType
    <2>3. ProcType'
        BY StepNames DEF WriteFile, ProcType, Go
    <2>4. StoreType' /\ LeaseType' /\ JsonType' /\ SaidType'
        BY DEF WriteFile, StoreType, LeaseType, JsonType, SaidType
    <2> QED BY <2>1, <2>2, <2>3, <2>4 DEF TypeOK
<1>2. RestoreFile(t, f) => TypeOK'
    <2> SUFFICES ASSUME RestoreFile(t, f) PROVE TypeOK'
        OBVIOUS
    <2>1. RepoType'
        <3>1. seen[t] \in Trees /\ work \in Trees
            BY DEF JsonType, RepoType
        <3>2. [work EXCEPT ![f] = seen[t][f]] \in Trees
            BY <3>1 DEF Trees
        <3> QED BY <3>2 DEF RestoreFile, RepoType
    <2>2. LocalType'
        BY NoCommit DEF RestoreFile, LocalType
    <2>3. StoreType' /\ LeaseType' /\ JsonType' /\ ProcType' /\ SaidType'
        BY DEF RestoreFile, StoreType, LeaseType, JsonType, ProcType, SaidType
    <2> QED BY <2>1, <2>2, <2>3 DEF TypeOK
<1>3. RecoverFile(t, f) => TypeOK'
    <2> SUFFICES ASSUME RecoverFile(t, f) PROVE TypeOK'
        OBVIOUS
    <2>1. RepoType'
        <3>1. seen[t] \in Trees /\ work \in Trees
            BY DEF JsonType, RepoType
        <3>2. [work EXCEPT ![f] = seen[t][f]] \in Trees
            BY <3>1 DEF Trees
        <3> QED BY <3>2 DEF RecoverFile, RepoType
    <2>2. LocalType'
        BY NoCommit DEF RecoverFile, LocalType
    <2>3. StoreType' /\ LeaseType' /\ JsonType' /\ ProcType' /\ SaidType'
        BY DEF RecoverFile, StoreType, LeaseType, JsonType, ProcType, SaidType
    <2> QED BY <2>1, <2>2, <2>3 DEF TypeOK
<1> QED BY <1>1, <1>2, <1>3

\* Changes from outside.
LEMMA FileTypeStep ==
    ASSUME TypeOK, NEW f \in Files
    PROVE  /\ DevPush(f) => TypeOK'
           /\ HandEdit(f) => TypeOK'
<1> USE DEF TypeOK, kv, json, repo, local, said
<1>1. DevPush(f) => TypeOK'
    <2> SUFFICES ASSUME DevPush(f) PROVE TypeOK'
        OBVIOUS
    <2>1. RepoType'
        <3>1. Tip(origin) \in Trees
            BY BranchFacts DEF RepoType
        <3>2. [Tip(origin) EXCEPT ![f] = "dev"] \in Trees
            BY <3>1, TreeFacts, ContentFacts
        <3>3. origin' \in Seq(Trees) \ {<<>>}
            BY <3>2, BranchFacts DEF DevPush, RepoType
        <3> QED BY <3>3 DEF DevPush, RepoType
    <2>2. StoreType' /\ LeaseType' /\ JsonType' /\ ProcType' /\ LocalType' /\ SaidType'
        BY DEF DevPush, Tip, StoreType, LeaseType, JsonType, ProcType, LocalType, SaidType
    <2> QED BY <2>1, <2>2 DEF TypeOK
<1>2. HandEdit(f) => TypeOK'
    <2> SUFFICES ASSUME HandEdit(f) PROVE TypeOK'
        OBVIOUS
    <2>1. RepoType'
        <3>1. [work EXCEPT ![f] = "hand"] \in Trees /\ [work EXCEPT ![f] = "late"] \in Trees
            BY TreeFacts, ContentFacts DEF RepoType
        <3> QED BY <3>1 DEF HandEdit, RepoType
    <2>2. StoreType' /\ LeaseType' /\ JsonType' /\ ProcType' /\ LocalType' /\ SaidType'
        BY DEF HandEdit, StoreType, LeaseType, JsonType, ProcType, LocalType, SaidType
    <2> QED BY <2>1, <2>2 DEF TypeOK
<1> QED BY <1>1, <1>2

\* The bot and the deployment as a whole.
LEMMA PlainTypeStep ==
    ASSUME TypeOK, NEW k \in Leases
    PROVE  /\ Purge => TypeOK'
           /\ Expire(k) => TypeOK'
           /\ Crash => TypeOK'
           /\ Boot => TypeOK'
           /\ Booted => TypeOK'
           /\ DeployReset => TypeOK'
           /\ DeployEnd => TypeOK'
<1> USE DEF TypeOK, kv, json, repo, local, said
<1>1. Purge => TypeOK'
    <2> SUFFICES ASSUME Purge PROVE TypeOK'
        OBVIOUS
    <2>1. StoreType'
        BY DEF Purge, StoreType
    <2>2. LeaseType' /\ JsonType' /\ RepoType' /\ ProcType' /\ LocalType' /\ SaidType'
        BY DEF Purge, LeaseType, JsonType, RepoType, ProcType, LocalType, SaidType
    <2> QED BY <2>1, <2>2 DEF TypeOK
<1>2. Expire(k) => TypeOK'
    <2> SUFFICES ASSUME Expire(k) PROVE TypeOK'
        OBVIOUS
    <2>1. LeaseType'
        BY DEF Expire, LeaseType
    <2>2. StoreType' /\ JsonType' /\ RepoType' /\ ProcType' /\ LocalType' /\ SaidType'
        BY DEF Expire, StoreType, JsonType, RepoType, ProcType, LocalType, SaidType
    <2> QED BY <2>1, <2>2 DEF TypeOK
<1>3. Crash => TypeOK'
    <2> SUFFICES ASSUME Crash PROVE TypeOK'
        OBVIOUS
    <2>1. ProcType'
        BY StepNames DEF Crash, Unlock, Clean, Idle, ProcType, Go
    <2>2. LocalType'
        BY NoCommit DEF Crash, Clean, Idle, LocalType
    <2>3. SaidType'
        BY DEF Crash, SaidType, StoreType
    <2>4. StoreType' /\ LeaseType' /\ JsonType' /\ RepoType'
        BY DEF Crash, Clean, Idle, StoreType, LeaseType, JsonType, RepoType
    <2> QED BY <2>1, <2>2, <2>3, <2>4 DEF TypeOK
<1>4. Boot => TypeOK'
    <2> SUFFICES ASSUME Boot PROVE TypeOK'
        OBVIOUS
    <2>1. ProcType'
        BY StepNames DEF Boot, Interrupted, ProcType, Go
    <2>2. LocalType'
        BY NoCommit DEF Boot, Interrupted, LocalType, StoreType
    <2>3. StoreType' /\ LeaseType' /\ JsonType' /\ RepoType' /\ SaidType'
        BY DEF Boot, Interrupted, StoreType, LeaseType, JsonType, RepoType, SaidType
    <2> QED BY <2>1, <2>2, <2>3 DEF TypeOK
<1>5. Booted => TypeOK'
    <2> SUFFICES ASSUME Booted PROVE TypeOK'
        OBVIOUS
    <2>1. ProcType'
        BY StepNames DEF Booted, ProcType, Go
    <2>2. StoreType' /\ LeaseType' /\ JsonType' /\ RepoType' /\ LocalType' /\ SaidType'
        BY DEF Booted, StoreType, LeaseType, JsonType, RepoType, LocalType, SaidType
    <2> QED BY <2>1, <2>2 DEF TypeOK
<1>6. DeployReset => TypeOK'
    <2> SUFFICES ASSUME DeployReset PROVE TypeOK'
        OBVIOUS
    <2>1. RepoType'
        BY BranchFacts, TreeFacts DEF DeployReset, Tip, RepoType
    <2>2. ProcType'
        BY StepNames DEF DeployReset, Tip, ProcType, Go
    <2>3. StoreType' /\ LeaseType' /\ JsonType' /\ LocalType' /\ SaidType'
        BY DEF DeployReset, Tip, StoreType, LeaseType, JsonType, LocalType, SaidType
    <2> QED BY <2>1, <2>2, <2>3 DEF TypeOK
<1>7. DeployEnd => TypeOK'
    <2> SUFFICES ASSUME DeployEnd PROVE TypeOK'
        OBVIOUS
    <2>1. ProcType'
        BY StepNames DEF DeployEnd, ProcType, Go
    <2>2. StoreType' /\ LeaseType' /\ JsonType' /\ RepoType' /\ LocalType' /\ SaidType'
        BY DEF DeployEnd, StoreType, LeaseType, JsonType, RepoType, LocalType, SaidType
    <2> QED BY <2>1, <2>2 DEF TypeOK
<1> QED BY <1>1, <1>2, <1>3, <1>4, <1>5, <1>6, <1>7

\* The store, the repository and the process keep their shape.
THEOREM PlanTypeCorrect == Spec => []TypeOK
<1>1. ASSUME TypeOK, [Next]_vars PROVE TypeOK'
    <2>1. CASE Next
        <3>1. ASSUME NEW t \in Tokens, Owner(t) \/ Execute(t) \/ Stop(t) \/ Recover(t) PROVE TypeOK'
            BY <1>1, <3>1, TokenTypeStep, TokenFileTypeStep DEF Owner, Execute, Recover
        <3>2. ASSUME NEW f \in Files, DevPush(f) \/ HandEdit(f) PROVE TypeOK'
            BY <1>1, <3>2, FileTypeStep
        <3>3. ASSUME Purge \/ Crash \/ Boot \/ Booted \/ Deploy PROVE TypeOK'
            BY <1>1, <3>3, PlainTypeStep DEF Deploy, Leases
        <3>4. ASSUME NEW k \in Leases, Expire(k) PROVE TypeOK'
            BY <1>1, <3>4, PlainTypeStep
        <3> QED BY <2>1, <3>1, <3>2, <3>3, <3>4 DEF Next
    <2>2. CASE UNCHANGED vars
        BY <1>1, <2>2 DEF vars, kv, json, repo, local, said, TypeOK, StoreType, LeaseType,
           JsonType, RepoType, ProcType, LocalType, SaidType
    <2> QED BY <1>1, <2>1, <2>2
<1> QED BY TypeInit, <1>1, PTL DEF Spec

-----------------------------------------------------------------------------
(* Edits by hand *)

\* The steps between the first write and the restoring of the files written.
Wrote == Writing \ {"recheck", "restore"}
InPhase == {"prepare", "flock"} \cup Writing
AtStart == {"lost", "there", "scan", "recover", "recovered"}

\* One execution at a time, of a plan that was offered, and none beside a
\* recovery; here with stops.
Single ==
    \A u \in Tokens :
        /\ pc[u] \in InPhase => holder = u /\ mode \in {"up", "stopping"}
        /\ pc[u] \in AtStart => mode = "boot" /\ u \in recq
        /\ pc[u] \notin AtStart \cup {"idle"} => u \in offered

NoHandIn(x) == \A f \in Files : x[f] # "hand"

\* Nothing committed or staged is an edit by hand.
NoHandCommitted ==
    /\ \A i \in 1..Len(origin) : NoHandIn(origin[i])
    /\ \A i \in 1..Len(head) : NoHandIn(head[i])
    /\ NoHandIn(idx)

\* Nothing an execution or a recovery will write over is an edit by hand.
Spared(u) ==
    /\ pc[u] = "write" => \A f \in Touch[u] : seen[u][f] # "hand"
    /\ pc[u] \in Wrote => \A f \in written : work[f] # "hand"
    /\ pc[u] \in {"restore", "recover"} => \A f \in todo : work[f] # "hand"

HandInv == Single /\ NoHandCommitted /\ \A u \in Tokens : Spared(u)

LEMMA HandInit == Init => HandInv
<1> SUFFICES ASSUME Init PROVE HandInv
    OBVIOUS
<1>1. Single /\ \A u \in Tokens : Spared(u)
    BY DEF Init, Single, InPhase, AtStart, Spared, Wrote, Writing
<1>2. NoHandCommitted
    BY DEF Init, NoHandCommitted, NoHandIn, BaseTree
<1> QED BY <1>1, <1>2 DEF HandInv

\* The last tree of a branch, and the branch without it.
LEMMA NoHandTip ==
    ASSUME NEW s \in Seq(Trees) \ {<<>>}, \A i \in 1..Len(s) : NoHandIn(s[i])
    PROVE  /\ NoHandIn(Tip(s))
           /\ Len(s) >= 2 => \A i \in 1..Len(Front(s)) : NoHandIn(Front(s)[i])
           /\ \A x \in Trees : NoHandIn(x) => \A i \in 1..Len(Append(s, x)) : NoHandIn(Append(s, x)[i])
<1>1. Len(s) \in Nat /\ Len(s) >= 1
    OBVIOUS
<1>2. NoHandIn(Tip(s))
    BY <1>1 DEF Tip
<1>3. ASSUME Len(s) >= 2, NEW i \in 1..Len(Front(s)) PROVE NoHandIn(Front(s)[i])
    <2>1. Front(s) = SubSeq(s, 1, Len(s) - 1)
        BY DEF Front
    <2>2. Len(Front(s)) = Len(s) - 1 /\ \A j \in 1..Len(Front(s)) : Front(s)[j] = s[j]
        BY <1>1, <1>3, <2>1, SubSeqProperties
    <2> QED BY <1>1, <1>3, <2>2
<1>4. ASSUME NEW x \in Trees, NoHandIn(x), NEW i \in 1..Len(Append(s, x))
      PROVE  NoHandIn(Append(s, x)[i])
    BY <1>1, <1>4
<1> QED BY <1>2, <1>3, <1>4

LEMMA SingleStep ==
    ASSUME TypeOK, Single, [Next]_vars
    PROVE  Single'
<1> USE DEF TypeOK, ProcType, kv, json, repo, local, said, Go, Single, InPhase, AtStart, Writing
<1>1. CASE UNCHANGED vars
    BY <1>1 DEF vars
<1>2. ASSUME NEW t \in Tokens, Owner(t) \/ Stop(t) PROVE Single'
    BY <1>2 DEF Owner, Offer, Press, Claim, Stop, Idle
<1>3. ASSUME NEW t \in Tokens, Execute(t) PROVE Single'
    <2>1. CASE Close(t) \/ Begin(t) \/ Prepare(t) \/ TakeFlock(t) \/ Review(t)
        BY <2>1, PlanAssumption DEF Close, Begin, Prepare, TakeFlock, Review
    <2>2. CASE (\E f \in Files : WriteFile(t, f)) \/ Add(t) \/ Commit(t) \/ SaveCommit(t) \/ Push(t)
        BY <2>2 DEF WriteFile, Add, Commit, SaveCommit, Push, Alive
    <2>3. CASE Ask(t) \/ SavePushed(t) \/ Undo(t) \/ Unstage(t) \/ (\E f \in Files : RestoreFile(t, f))
        BY <2>3 DEF Ask, AskRemote, SavePushed, Undo, Unstage, RestoreFile, Alive
    <2>4. CASE Restored(t) \/ Report(t) \/ Finish(t) \/ Leave(t) \/ StopEnds(t)
        BY <2>4 DEF Restored, Report, Finish, Leave, Release, StopEnds, Idle, Alive
    <2> QED BY <1>3, <2>1, <2>2, <2>3, <2>4 DEF Execute
<1>4. ASSUME NEW t \in Tokens, Recover(t) PROVE Single'
    <2>1. CASE RecoverRead(t)
        BY <2>1 DEF RecoverRead
    <2>2. CASE RecoverScan(t)
        BY <2>2 DEF RecoverScan
    <2>3. CASE (\E f \in Files : RecoverFile(t, f)) \/ RecoverTell(t) \/ Announce(t)
        BY <2>3 DEF RecoverFile, RecoverTell, Announce
    <2>4. CASE RecoverEnd(t)
        BY <2>4 DEF RecoverEnd
    <2> QED BY <1>4, <2>1, <2>2, <2>3, <2>4 DEF Recover
<1>5. ASSUME NEW f \in Files, DevPush(f) \/ HandEdit(f) PROVE Single'
    BY <1>5 DEF DevPush, HandEdit
<1>6. CASE Purge \/ Crash \/ Boot \/ Deploy \/ \E k \in Leases : Expire(k)
    BY <1>6 DEF Purge, Crash, Idle, Boot, Deploy, DeployReset, DeployEnd, Expire
<1>7. CASE Booted
    BY <1>7 DEF Booted
<1> QED BY <1>1, <1>2, <1>3, <1>4, <1>5, <1>6, <1>7 DEF Next

LEMMA CommittedStep ==
    ASSUME TypeOK, HandInv, [Next]_vars
    PROVE  NoHandCommitted'
<1> USE DEF TypeOK, RepoType, LocalType, kv, json, repo, local, said, HandInv
<1>1. \A i \in 1..Len(origin) : NoHandIn(origin[i])
    BY DEF NoHandCommitted
<1>2. \A i \in 1..Len(head) : NoHandIn(head[i])
    BY DEF NoHandCommitted
<1>3. NoHandIn(idx) /\ NoHandIn(Tip(head)) /\ NoHandIn(Tip(origin))
    BY <1>1, <1>2, NoHandTip DEF NoHandCommitted
<1>4. ASSUME UNCHANGED <<origin, head>>, NoHandIn(idx') PROVE NoHandCommitted'
    BY <1>1, <1>2, <1>4 DEF NoHandCommitted
<1>5. CASE UNCHANGED <<origin, head, idx>>
    BY <1>5 DEF NoHandCommitted, NoHandIn
<1>6. ASSUME NEW t \in Tokens, Add(t) PROVE NoHandCommitted'
    <2>1. \A f \in Touch[t] : work[f] # "hand"
        BY <1>6 DEF Add, Spared, Wrote, Writing
    <2>2. NoHandIn(idx')
        BY <1>3, <1>6, <2>1 DEF Add, NoHandIn
    <2> QED BY <1>4, <1>6, <2>2 DEF Add
<1>7. ASSUME NEW t \in Tokens, Commit(t) PROVE NoHandCommitted'
    <2>1. head' \in {head, Append(head, idx)} /\ UNCHANGED <<origin, idx>>
        BY <1>7 DEF Commit
    <2>2. \A i \in 1..Len(head') : NoHandIn(head'[i])
        BY <1>2, <1>3, <2>1, NoHandTip
    <2> QED BY <1>1, <1>3, <2>1, <2>2 DEF NoHandCommitted, NoHandIn
<1>8. ASSUME NEW t \in Tokens, Push(t) PROVE NoHandCommitted'
    <2>1. origin' \in {origin, head} /\ UNCHANGED <<head, idx>>
        BY <1>8 DEF Push
    <2> QED BY <1>1, <1>2, <1>3, <2>1 DEF NoHandCommitted, NoHandIn
<1>9. ASSUME head' = head \/ (Len(head) >= 2 /\ head' = Front(head)), UNCHANGED <<origin, idx>>
      PROVE  NoHandCommitted'
    <2>1. \A i \in 1..Len(head') : NoHandIn(head'[i])
        BY <1>2, <1>9, NoHandTip
    <2> QED BY <1>1, <1>3, <1>9, <2>1 DEF NoHandCommitted, NoHandIn
<1>10. ASSUME NEW t \in Tokens, Undo(t) \/ RecoverRead(t) PROVE NoHandCommitted'
    <2>1. HasParent(committed) /\ HasParent(saved[t]) /\ head # <<>>
        BY DEF JsonType
    <2>2. head' = head \/ (Len(head) >= 2 /\ head' = Front(head))
        BY <1>10, <2>1 DEF Undo, RecoverRead, Uncommitted, HasParent
    <2> QED BY <1>9, <1>10, <2>2 DEF Undo, RecoverRead
<1>11. ASSUME NEW t \in Tokens, Unstage(t) \/ RecoverScan(t) PROVE NoHandCommitted'
    <2>1. NoHandIn(idx')
        BY <1>3, <1>11 DEF Unstage, RecoverScan, Unstaged, NoHandIn
    <2> QED BY <1>4, <1>11, <2>1 DEF Unstage, RecoverScan
<1>12. ASSUME NEW f \in Files, DevPush(f) PROVE NoHandCommitted'
    <2> DEFINE x == [Tip(origin) EXCEPT ![f] = "dev"]
    <2>1. Tip(origin) \in Trees /\ x \in Trees
        BY BranchFacts, TreeFacts, ContentFacts
    <2>2. NoHandIn(x)
        BY <1>3, <2>1 DEF NoHandIn, Trees
    <2>3. origin' = Append(origin, x) /\ UNCHANGED <<head, idx>>
        BY <1>12 DEF DevPush
    <2> HIDE DEF x
    <2>4. \A i \in 1..Len(origin') : NoHandIn(origin'[i])
        BY <1>1, <2>1, <2>2, <2>3, NoHandTip
    <2> QED BY <1>2, <1>3, <2>3, <2>4 DEF NoHandCommitted, NoHandIn
<1>13. CASE DeployReset
    <2>1. \/ head' = origin /\ idx' = Tip(origin)
          \/ UNCHANGED <<head, idx>>
        BY <1>13 DEF DeployReset
    <2>2. origin' = origin
        BY <1>13 DEF DeployReset
    <2> QED BY <1>1, <1>2, <1>3, <2>1, <2>2 DEF NoHandCommitted, NoHandIn
<1>14. CASE UNCHANGED vars
    BY <1>5, <1>14 DEF vars
<1>15. ASSUME NEW t \in Tokens, Owner(t) \/ Stop(t) PROVE UNCHANGED <<origin, head, idx>>
    BY <1>15 DEF Owner, Offer, Press, Stop
<1>16. ASSUME NEW t \in Tokens, Execute(t) PROVE NoHandCommitted'
    <2>1. CASE Add(t) \/ Commit(t) \/ Push(t) \/ Undo(t) \/ Unstage(t)
        BY <2>1, <1>6, <1>7, <1>8, <1>10, <1>11
    <2>2. CASE ~(Add(t) \/ Commit(t) \/ Push(t) \/ Undo(t) \/ Unstage(t))
        <3>1. UNCHANGED <<origin, head, idx>>
            BY <1>16, <2>2 DEF Execute, Close, Begin, Prepare, TakeFlock, Review, WriteFile, SaveCommit,
               Ask, SavePushed, RestoreFile, Restored, Report, Finish, Leave, StopEnds
        <3> QED BY <1>5, <3>1
    <2> QED BY <2>1, <2>2
<1>17. ASSUME NEW t \in Tokens, Recover(t) PROVE NoHandCommitted'
    <2>1. CASE RecoverRead(t) \/ RecoverScan(t)
        BY <2>1, <1>10, <1>11
    <2>2. CASE ~(RecoverRead(t) \/ RecoverScan(t))
        <3>1. UNCHANGED <<origin, head, idx>>
            BY <1>17, <2>2 DEF Recover, RecoverFile, RecoverTell, RecoverEnd, Announce
        <3> QED BY <1>5, <3>1
    <2> QED BY <2>1, <2>2
<1>18. ASSUME (\E f \in Files : HandEdit(f)) \/ Purge \/ Crash \/ Boot \/ Booted \/ DeployEnd
              \/ \E k \in Leases : Expire(k)
       PROVE  UNCHANGED <<origin, head, idx>>
    BY <1>18 DEF HandEdit, Purge, Crash, Boot, Booted, DeployEnd, Expire
<1> QED BY <1>5, <1>12, <1>13, <1>14, <1>15, <1>16, <1>17, <1>18 DEF Next, Deploy

\* What a step may do to what u holds.
SparedKept(u) ==
    /\ pc'[u] = "write" => pc[u] = "write" /\ seen'[u] = seen[u]
    /\ pc'[u] \in Wrote => /\ pc[u] \in Wrote /\ written' \subseteq written
                          /\ \A f \in written' : work'[f] = "hand" => work[f] = "hand"
    /\ pc'[u] \in {"restore", "recover"} =>
         /\ pc[u] \in {"restore", "recover"} /\ todo' \subseteq todo
         /\ \A f \in todo' : work'[f] = "hand" => work[f] = "hand"

LEMMA SparedKeeps ==
    ASSUME NEW u \in Tokens, Spared(u), SparedKept(u)
    PROVE  Spared(u)'
BY DEF Spared, SparedKept

LEMMA SparedExecute ==
    ASSUME TypeOK, HandInv, NEW t \in Tokens, NEW u \in Tokens, Execute(t)
    PROVE  Spared(u)'
<1> USE DEF TypeOK, ProcType, RepoType, LocalType, kv, json, repo, local, said, Go
<1>1. Spared(u) /\ Spared(t) /\ Single /\ t # "hand"
    BY PlanAssumption DEF HandInv
<1>2. ASSUME SparedKept(u) PROVE Spared(u)'
    BY <1>1, <1>2, SparedKeeps
<1>3. CASE Close(t) \/ Begin(t) \/ Prepare(t) \/ TakeFlock(t)
    <2>1. SparedKept(u)
        BY <1>3 DEF Close, Forget, Begin, Prepare, TakeFlock, SparedKept, Wrote, Writing, JsonType
    <2> QED BY <1>2, <2>1
<1>4. CASE Review(t)
    <2>1. CASE u = t
        <3>1. NoHandIn(Tip(head))
            BY NoHandTip DEF HandInv, NoHandCommitted
        <3>2. pc'[t] = "write" => written' = {} /\ \A f \in Touch[t] : seen'[t][f] # "hand"
            BY <1>4, <3>1, PlanAssumption DEF Review, Preconditions, NoHandIn
        <3>3. pc'[t] \in {"write", "fail"}
            BY <1>4 DEF Review
        <3> QED BY <2>1, <3>2, <3>3 DEF Spared, Wrote, Writing
    <2>2. CASE u # t
        <3>1. SparedKept(u)
            BY <1>1, <1>4, <2>2 DEF Review, Single, InPhase, AtStart, SparedKept, Wrote, Writing, Alive
        <3> QED BY <1>2, <3>1
    <2> QED BY <2>1, <2>2
<1>5. ASSUME NEW f \in Files, WriteFile(t, f) PROVE Spared(u)'
    <2>1. CASE u = t
        <3>1. \/ work' = [work EXCEPT ![f] = t] /\ written' = written \cup {f} /\ pc' = pc
              \/ UNCHANGED <<work, written>> /\ pc'[t] = "undo"
            BY <1>5 DEF WriteFile
        <3>2. pc[t] = "write" /\ seen' = seen /\ todo' = todo
            BY <1>5 DEF WriteFile
        <3>3. \A g \in written' : work'[g] # "hand"
            BY <1>1, <3>1, <3>2 DEF Spared, Wrote, Writing, Trees
        <3> QED BY <1>1, <2>1, <3>1, <3>2, <3>3 DEF Spared, Wrote, Writing
    <2>2. CASE u # t
        <3>1. SparedKept(u)
            BY <1>1, <1>5, <2>2 DEF WriteFile, Single, InPhase, AtStart, SparedKept, Wrote, Writing, Alive
        <3> QED BY <1>2, <3>1
    <2> QED BY <2>1, <2>2
<1>6. CASE Add(t) \/ Commit(t) \/ SaveCommit(t) \/ Push(t) \/ Ask(t) \/ SavePushed(t) \/ Undo(t)
    <2>1. pc'[t] \notin {"write", "restore", "recover"} /\ pc[t] \in Wrote
        BY <1>6 DEF Add, Commit, SaveCommit, Push, Ask, AskRemote, SavePushed, Undo, Wrote, Writing
    <2>2. UNCHANGED <<work, written, todo, seen>> /\ \A v \in Tokens \ {t} : pc'[v] = pc[v]
        BY <1>6 DEF Add, Commit, SaveCommit, Push, Ask, AskRemote, SavePushed, Undo
    <2>3. SparedKept(u)
        BY <2>1, <2>2 DEF SparedKept
    <2> QED BY <1>2, <2>3
<1>7. CASE Unstage(t)
    <2>1. pc[t] = "unstage" /\ pc' = [pc EXCEPT ![t] = "restore"] /\ todo' = written
          /\ UNCHANGED <<work, written, seen>>
        BY <1>7 DEF Unstage
    <2>2. u # t => pc[u] \notin Writing \cup {"recover"}
        BY <1>1, <1>7 DEF Unstage, Single, InPhase, AtStart, Writing, Alive
    <2> QED BY <1>1, <2>1, <2>2 DEF Spared, Wrote, Writing
<1>8. ASSUME NEW f \in Files, RestoreFile(t, f) PROVE Spared(u)'
    <2>1. /\ pc' = pc /\ pc[t] = "restore" /\ todo' = todo \ {f} /\ UNCHANGED <<written, seen>>
          /\ \A g \in Files \ {f} : work'[g] = work[g]
        BY <1>8 DEF RestoreFile, Trees
    <2>2. u # t => pc[u] \notin Writing
        BY <1>1, <1>8 DEF RestoreFile, Single, InPhase, Writing
    <2> QED BY <1>1, <2>1, <2>2 DEF Spared, Wrote, Writing
<1>9. CASE Restored(t) \/ Report(t) \/ Finish(t) \/ Leave(t)
    <2>1. UNCHANGED <<work, todo>> /\ pc'[t] \in {"fail", "finish", "release", "idle"}
          /\ written' \in {written, {}}
          /\ \A v \in Tokens \ {t} : pc'[v] = pc[v] /\ seen'[v] = seen[v]
        BY <1>9 DEF Restored, Report, Finish, Leave, Discard, Forget, JsonType
    <2>2. SparedKept(u)
        BY <2>1 DEF SparedKept, Wrote, Writing
    <2> QED BY <1>2, <2>2
<1>10. CASE StopEnds(t)
    BY <1>10 DEF StopEnds, Idle, Spared, Wrote, Writing
<1> QED BY <1>3, <1>4, <1>5, <1>6, <1>7, <1>8, <1>9, <1>10 DEF Execute

LEMMA SparedStep ==
    ASSUME TypeOK, HandInv, [Next]_vars, NEW u \in Tokens
    PROVE  Spared(u)'
<1> USE DEF TypeOK, ProcType, RepoType, LocalType, kv, json, repo, local, said, Go
<1>1. Spared(u) /\ Single /\ NoHandIn(Tip(origin))
    BY NoHandTip DEF HandInv, NoHandCommitted
<1>2. ASSUME SparedKept(u) PROVE Spared(u)'
    BY <1>1, <1>2, SparedKeeps
<1>3. CASE UNCHANGED vars
    <2>1. SparedKept(u)
        BY <1>3 DEF vars, SparedKept
    <2> QED BY <1>2, <2>1
<1>4. ASSUME NEW t \in Tokens, Owner(t) \/ Stop(t) PROVE Spared(u)'
    <2>1. UNCHANGED <<work, written, todo>>
        BY <1>4 DEF Owner, Offer, Press, Stop
    <2>2. pc'[u] = pc[u] \/ pc'[u] \in {"idle", "begin", "close"}
        BY <1>4 DEF Owner, Offer, Press, Stop, Idle
    <2>3. pc'[u] = "write" => seen'[u] = seen[u]
        BY <1>1, <1>4, <2>2 DEF Owner, Offer, Press, Stop, Single, AtStart, JsonType
    <2>4. SparedKept(u)
        BY <2>1, <2>2, <2>3 DEF SparedKept, Wrote, Writing
    <2> QED BY <1>2, <2>4
<1>5. ASSUME NEW t \in Tokens, Execute(t) PROVE Spared(u)'
    BY <1>5, SparedExecute
<1>6. ASSUME NEW t \in Tokens, Recover(t) PROVE Spared(u)'
    <2>1. CASE RecoverScan(t)
        <3>1. /\ mode = "boot" /\ pc' = [pc EXCEPT ![t] = "recover"] /\ work' = work /\ written' = written
              /\ \A f \in todo' : work[f] = t
            BY <2>1 DEF RecoverScan, Ours
        <3>2. pc'[u] \notin Writing
            BY <1>1, <3>1 DEF Single, InPhase, Writing
        <3> QED BY <3>1, <3>2, PlanAssumption DEF Spared, Wrote, Writing
    <2>2. ASSUME NEW f \in Files, RecoverFile(t, f) PROVE Spared(u)'
        <3>1. /\ mode = "boot" /\ pc' = pc /\ todo' = todo \ {f} /\ UNCHANGED <<written, seen>>
              /\ \A g \in Files \ {f} : work'[g] = work[g]
            BY <2>2 DEF RecoverFile, Trees
        <3>2. pc[u] \notin Writing
            BY <1>1, <3>1 DEF Single, InPhase
        <3> QED BY <1>1, <3>1, <3>2 DEF Spared, Wrote, Writing
    <2>3. CASE RecoverRead(t) \/ RecoverTell(t) \/ RecoverEnd(t) \/ Announce(t)
        <3>1. /\ UNCHANGED <<work, written, todo>>
              /\ \A v \in Tokens \ {t} : pc'[v] = pc[v] /\ seen'[v] = seen[v]
              /\ pc'[t] = pc[t] => seen'[t] = seen[t]
            BY <2>3 DEF RecoverRead, RecoverTell, RecoverEnd, Announce, Discard, Forget, JsonType
        <3>2. pc'[t] \in {"lost", "there", "scan", "recovered", "idle", pc[t]}
            BY <2>3 DEF RecoverRead, RecoverTell, RecoverEnd, Announce
        <3>3. SparedKept(u)
            BY <3>1, <3>2 DEF SparedKept, Wrote, Writing
        <3> QED BY <1>2, <3>3
    <2> QED BY <1>6, <2>1, <2>2, <2>3 DEF Recover
<1>7. ASSUME NEW f \in Files, HandEdit(f) PROVE Spared(u)'
    <2>1. UNCHANGED <<pc, written, todo, seen>>
        BY <1>7 DEF HandEdit
    <2>2. \A g \in Files : work'[g] = "hand" => work[g] = "hand" \/ g \notin Held(u)
        BY <1>7 DEF HandEdit, Trees
    <2>3. pc[u] \in Wrote => Held(u) = written
        BY DEF Held, Wrote, Writing
    <2>4. pc[u] \in {"restore", "recover"} => Held(u) = todo
        BY DEF Held, Writing
    <2>5. SparedKept(u)
        BY <2>1, <2>2, <2>3, <2>4 DEF SparedKept
    <2> QED BY <1>2, <2>5
<1>8. CASE DeployReset
    <2>1. UNCHANGED <<pc, written, todo, seen>>
        BY <1>8 DEF DeployReset
    <2>2. work' = work \/ work' = Tip(origin)
        BY <1>8 DEF DeployReset
    <2>3. SparedKept(u)
        BY <1>1, <2>1, <2>2 DEF SparedKept, NoHandIn
    <2> QED BY <1>2, <2>3
<1>9. CASE Crash
    BY <1>9 DEF Crash, Idle, Spared, Wrote, Writing
<1>10. ASSUME \/ \E f \in Files : DevPush(f)
              \/ Purge \/ Boot \/ Booted \/ DeployEnd \/ \E k \in Leases : Expire(k)
       PROVE  Spared(u)'
    <2>1. UNCHANGED <<pc, work, written, todo, seen>>
        BY <1>10 DEF DevPush, Purge, Boot, Booted, DeployEnd, Expire
    <2>2. SparedKept(u)
        BY <2>1 DEF SparedKept
    <2> QED BY <1>2, <2>2
<1> QED BY <1>3, <1>4, <1>5, <1>6, <1>7, <1>8, <1>9, <1>10 DEF Next, Deploy

\* What somebody changed by hand in the checkout, and no execution or recovery
\* had written before, is overwritten by deploy.sh only, whatever stops and
\* whatever late edits happen (_write_apply, _rollback, _restore_from_state).
THEOREM PlanHandKept == Spec => HandEditKept
<1>1. ASSUME TypeOK, HandInv, Next
      PROVE  \A f \in Files : work[f] = "hand" /\ work'[f] # "hand" => flock = None /\ flock' = "deploy"
    <2> USE <1>1 DEF TypeOK, RepoType, kv, json, repo, local, said
    <2>1. ASSUME NEW t \in Tokens, Owner(t) \/ Execute(t) \/ Stop(t) \/ Recover(t), NEW f \in Files,
                 work[f] = "hand"
          PROVE  work'[f] = "hand"
        <3>1. Spared(t)
            BY DEF HandInv
        <3>2. ASSUME NEW g \in Files, WriteFile(t, g) PROVE work'[f] = "hand"
            BY <2>1, <3>1, <3>2 DEF WriteFile, Spared, Trees
        <3>3. ASSUME NEW g \in Files, RestoreFile(t, g) PROVE work'[f] = "hand"
            BY <2>1, <3>1, <3>3 DEF RestoreFile, Spared, Trees
        <3>4. ASSUME NEW g \in Files, RecoverFile(t, g) PROVE work'[f] = "hand"
            BY <2>1, <3>1, <3>4 DEF RecoverFile, Spared, Trees
        <3>5. CASE ~\E g \in Files : WriteFile(t, g) \/ RestoreFile(t, g) \/ RecoverFile(t, g)
            <4>1. work' = work
                BY <2>1, <3>5 DEF Owner, Execute, Recover, Stop, Offer, Press, Close, Begin, Prepare,
                   TakeFlock, Review, Add, Commit, SaveCommit, Push, Ask, SavePushed, Undo, Unstage,
                   Restored, Report, Finish, Leave, StopEnds, RecoverRead, RecoverScan, RecoverTell,
                   RecoverEnd, Announce
            <4> QED BY <2>1, <4>1
        <3> QED BY <3>2, <3>3, <3>4, <3>5
    <2>2. ASSUME NEW g \in Files, DevPush(g) \/ HandEdit(g), NEW f \in Files, work[f] = "hand"
          PROVE  work'[f] = "hand"
        BY <2>2 DEF DevPush, HandEdit, Trees
    <2>3. ASSUME Purge \/ Crash \/ Boot \/ Booted \/ DeployEnd \/ \E k \in Leases : Expire(k)
          PROVE  work' = work
        BY <2>3 DEF Purge, Crash, Boot, Booted, DeployEnd, Expire
    <2>4. CASE DeployReset
        BY <2>4 DEF DeployReset
    <2> QED BY <1>1, <2>1, <2>2, <2>3, <2>4 DEF Next, Deploy
<1>2. TypeOK /\ HandInv /\ [Next]_vars =>
        [\A f \in Files : work[f] = "hand" /\ work'[f] # "hand" => flock = None /\ flock' = "deploy"]_vars
    BY <1>1
<1>3. TypeOK /\ HandInv /\ [Next]_vars => HandInv'
    BY SingleStep, CommittedStep, SparedStep DEF HandInv
<1> QED BY <1>2, <1>3, HandInit, PlanTypeCorrect, PTL DEF Spec, HandEditKept
=============================================================================
