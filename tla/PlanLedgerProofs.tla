-------------------------- MODULE PlanLedgerProofs --------------------------
(***************************************************************************)
(* The plan executor implements the ledger of PlanLedger, for any plans,   *)
(* files and bounds, when no stop separates phase 2 from the deploy lock.  *)
(***************************************************************************)
EXTENDS PlanExecProofs

\* The steps in which a plan is in the executor's hands.
InHand == {"begin", "prepare", "flock", "ok"} \cup Writing
Holding == {"prepare", "flock"} \cup Writing
Recovering == {"lost", "there", "scan", "recover", "recovered"}

\* A claim decides: without it nothing was decided, told or begun.
Claimed ==
    /\ recq \subseteq run
    /\ \A u \in Tokens :
        /\ u \in run => verdict[u] # "open"
        /\ u \notin run => verdict[u] = "open" /\ told[u] = {} /\ unsent[u] = {} /\ pc[u] = "idle"

\* A plan in hand is approved and nothing was said of it.
Approved == \A u \in Tokens : pc[u] \in InHand => verdict[u] = "approved" /\ told[u] = {}

\* One execution at a time, none beside a recovery.
Exclusive == \A u \in Tokens : pc[u] \in Holding => holder = u
Modes == mode # "stopping" /\ \A u \in Tokens : pc[u] \in Holding => mode = "up"

\* Phase 2 is under the deploy lock.
Locked == \A u \in Tokens : pc[u] \in Writing => flock = "bot"

\* What a branch or a tree may hold while plan u is written.
Alone(x, u) == \A f \in Files : x[f] \in Tokens => x[f] \in Published \cup {u}
AloneIn(s, u) == \A i \in 1..Len(s) : Alone(s[i], u)

\* What the next push would take along is published already, or is plan u.
CarriedBy(u) ==
    /\ pc[u] \in {"write", "commit"} => Alone(idx, u) /\ AloneIn(head, u)
    /\ pc[u] = "write" => \A f \in written : work[f] = u
    /\ pc[u] = "commit" => \A f \in Touch[u] : idx[f] = u
    /\ pc[u] \in {"save", "push", "ask"} =>
         AloneIn(head, u) /\ committed = head /\ u \in InBranch(committed)
    /\ pc[u] \in {"pushed", "ok", "there"} => u \in Published
    /\ stage[u] = "pushed" => u \in Published
    /\ stage[u] = "committed" => u \in InBranch(saved[u])
    /\ "applied" \in unsent[u] => u \in Published
Carried == \A u \in Tokens : CarriedBy(u)

LedgerInv == TypeOK /\ Claimed /\ Approved /\ Exclusive /\ Modes /\ Locked /\ Carried

Building == {"write", "commit", "save", "push", "ask"}
Carrying == Building \cup {"pushed", "ok", "there"}

\* A step that leaves plan u as it was, or takes it out of the executor's hands.
Kept(u) ==
    /\ Published \subseteq Published'
    /\ pc'[u] \in Carrying => pc'[u] = pc[u]
    /\ pc'[u] \in Building => UNCHANGED <<idx, head, committed>>
    /\ pc'[u] = "write" => written' \subseteq written /\ \A f \in written' : work'[f] = work[f]
    /\ stage'[u] \in {"committed", "pushed"} => stage'[u] = stage[u] /\ saved'[u] = saved[u]
    /\ "applied" \in unsent'[u] => "applied" \in unsent[u] \/ u \in Published

LEMMA KeptCarried ==
    ASSUME NEW u \in Tokens, CarriedBy(u), Kept(u)
    PROVE  CarriedBy(u)'
<1>1. pc'[u] \in {"write", "commit"} => Alone(idx, u)' /\ AloneIn(head, u)'
    BY DEF CarriedBy, Kept, Building, Carrying, Alone, AloneIn
<1>2. pc'[u] = "write" => \A f \in written' : work'[f] = u
    BY DEF CarriedBy, Kept, Building, Carrying
<1>3. pc'[u] = "commit" => \A f \in Touch[u] : idx'[f] = u
    BY DEF CarriedBy, Kept, Building, Carrying
<1>4. pc'[u] \in {"save", "push", "ask"} =>
        AloneIn(head, u)' /\ committed' = head' /\ u \in InBranch(committed')
    BY DEF CarriedBy, Kept, Building, Carrying, Alone, AloneIn
<1>5. pc'[u] \in {"pushed", "ok", "there"} => u \in Published'
    BY DEF CarriedBy, Kept, Carrying
<1>6. /\ stage'[u] = "pushed" => u \in Published'
      /\ stage'[u] = "committed" => u \in InBranch(saved'[u])
      /\ "applied" \in unsent'[u] => u \in Published'
    BY DEF CarriedBy, Kept
<1> QED BY <1>1, <1>2, <1>3, <1>4, <1>5, <1>6 DEF CarriedBy

LEMMA OriginAlone ==
    ASSUME RepoType, NEW u
    PROVE  AloneIn(origin, u) /\ Alone(Tip(origin), u)
<1>1. AloneIn(origin, u)
    BY DEF AloneIn, Alone, Published, InBranch
<1>2. Len(origin) \in 1..Len(origin)
    BY DEF RepoType
<1> QED BY <1>1, <1>2 DEF AloneIn, Tip

LEMMA AppendAlone ==
    ASSUME NEW s \in Seq(Trees), NEW x \in Trees, NEW u, AloneIn(s, u), Alone(x, u)
    PROVE  AloneIn(Append(s, x), u)
<1> SUFFICES ASSUME NEW i \in 1..Len(Append(s, x)) PROVE Alone(Append(s, x)[i], u)
    BY DEF AloneIn
<1>1. CASE i \in 1..Len(s)
    BY <1>1 DEF AloneIn
<1>2. CASE i = Len(s) + 1
    BY <1>2
<1> QED BY <1>1, <1>2

\* Nothing published is ever unpublished.
LEMMA PublishedGrows ==
    ASSUME RepoType,
           \/ origin' = origin
           \/ \E x \in Trees : origin' = Append(origin, x)
           \/ IsPrefix(origin, head) /\ origin' = head
    PROVE  Published \subseteq Published'
<1> SUFFICES ASSUME NEW u \in Tokens, NEW i \in 1..Len(origin), NEW f \in Files, origin[i][f] = u
             PROVE  \E j \in 1..Len(origin') : origin'[j][f] = u
    BY DEF Published, InBranch
<1>1. CASE origin' = origin
    BY <1>1
<1>2. CASE \E x \in Trees : origin' = Append(origin, x)
    BY <1>2 DEF RepoType
<1>3. CASE IsPrefix(origin, head) /\ origin' = head
    <2>1. Len(origin) <= Len(head) /\ SubSeq(origin, 1, Len(origin)) = SubSeq(head, 1, Len(origin))
        BY <1>3 DEF IsPrefix
    <2>2. SubSeq(origin, 1, Len(origin))[i] = origin[i] /\ SubSeq(head, 1, Len(origin))[i] = head[i]
        BY <2>1 DEF RepoType
    <2>3. head[i] = origin[i] /\ i \in 1..Len(head)
        BY <2>1, <2>2 DEF RepoType
    <2> QED BY <1>3, <2>3
<1> QED BY <1>1, <1>2, <1>3

\* The actions of one plan.
LEMMA TokenLedgerStep ==
    ASSUME LedgerInv, ~Stops, ~LateEdits, NEW t \in Tokens, NEW a \in BOOLEAN
    PROVE  /\ Offer(t) => LedgerInv'
           /\ Press(t, a) => LedgerInv'
           /\ Close(t) => LedgerInv'
           /\ Begin(t) => LedgerInv'
           /\ Prepare(t) => LedgerInv'
           /\ TakeFlock(t) => LedgerInv'
           /\ Review(t) => LedgerInv'
           /\ Add(t) => LedgerInv'
           /\ Commit(t) => LedgerInv'
           /\ SaveCommit(t) => LedgerInv'
           /\ Push(t) => LedgerInv'
           /\ Ask(t) => LedgerInv'
           /\ SavePushed(t) => LedgerInv'
           /\ Undo(t) => LedgerInv'
           /\ Unstage(t) => LedgerInv'
           /\ Restored(t) => LedgerInv'
           /\ Report(t) => LedgerInv'
           /\ Finish(t) => LedgerInv'
           /\ Leave(t) => LedgerInv'
           /\ StopEnds(t) => LedgerInv'
           /\ RecoverRead(t) => LedgerInv'
           /\ RecoverScan(t) => LedgerInv'
           /\ RecoverTell(t) => LedgerInv'
           /\ RecoverEnd(t) => LedgerInv'
           /\ Announce(t) => LedgerInv'
<1> USE DEF LedgerInv, TypeOK, kv, json, repo, local, said, Go, ProcType
<1>1. Offer(t) => LedgerInv'
    <2> SUFFICES ASSUME Offer(t) PROVE LedgerInv'
        OBVIOUS
    <2>1. TypeOK'
        BY TokenTypeStep
    <2>2. Claimed'
        BY DEF Offer, Claimed
    <2>3. Approved'
        BY DEF Offer, Approved, InHand, Writing, Claimed
    <2>4. Exclusive'
        BY DEF Offer, Exclusive, Holding, Writing
    <2>5. Modes'
        BY DEF Offer, Modes, Holding, Writing, Alive
    <2>6. Locked'
        BY DEF Offer, Locked, Writing, Exclusive, Holding
    <2>7. Carried'
        <3> SUFFICES ASSUME NEW u \in Tokens PROVE CarriedBy(u)'
            BY DEF Carried
        <3>1. Kept(u)
            BY DEF Offer, Kept, Published, Building, Carrying, Exclusive, Holding, Writing, Modes, Locked, Alive
        <3> QED BY <3>1, KeptCarried DEF Carried
    <2> QED BY <2>1, <2>2, <2>3, <2>4, <2>5, <2>6, <2>7 DEF LedgerInv
<1>2. Press(t, a) => LedgerInv'
    <2> SUFFICES ASSUME Press(t, a) PROVE LedgerInv'
        OBVIOUS
    <2>1. TypeOK'
        BY TokenTypeStep
    <2>2. Claimed'
        BY DEF Press, Claim, Claimed, SaidType
    <2>3. Approved'
        BY DEF Press, Claim, Approved, InHand, Writing, Claimed, SaidType
    <2>4. Exclusive'
        BY DEF Press, Claim, Exclusive, Holding, Writing
    <2>5. Modes'
        BY DEF Press, Claim, Modes, Holding, Writing, Alive
    <2>6. Locked'
        BY DEF Press, Claim, Locked, Writing, Exclusive, Holding
    <2>7. Carried'
        <3> SUFFICES ASSUME NEW u \in Tokens PROVE CarriedBy(u)'
            BY DEF Carried
        <3>1. Kept(u)
            BY DEF Press, Claim, Kept, Published, Building, Carrying, Exclusive, Holding, Writing, Modes, Locked, Alive
        <3> QED BY <3>1, KeptCarried DEF Carried
    <2> QED BY <2>1, <2>2, <2>3, <2>4, <2>5, <2>6, <2>7 DEF LedgerInv
<1>3. Close(t) => LedgerInv'
    <2> SUFFICES ASSUME Close(t) PROVE LedgerInv'
        OBVIOUS
    <2>1. TypeOK'
        BY TokenTypeStep
    <2>2. Claimed'
        BY DEF Close, Claimed
    <2>3. Approved'
        BY DEF Close, Approved, InHand, Writing, Claimed
    <2>4. Exclusive'
        BY DEF Close, Exclusive, Holding, Writing
    <2>5. Modes'
        BY DEF Close, Modes, Holding, Writing, Alive
    <2>6. Locked'
        BY DEF Close, Locked, Writing, Exclusive, Holding
    <2>7. Carried'
        <3> SUFFICES ASSUME NEW u \in Tokens PROVE CarriedBy(u)'
            BY DEF Carried
        <3>1. Kept(u)
            BY DEF Close, Kept, Published, Building, Carrying, Exclusive, Holding, Writing, Modes, Locked, Alive
        <3> QED BY <3>1, KeptCarried DEF Carried
    <2> QED BY <2>1, <2>2, <2>3, <2>4, <2>5, <2>6, <2>7 DEF LedgerInv
<1>4. Begin(t) => LedgerInv'
    <2> SUFFICES ASSUME Begin(t) PROVE LedgerInv'
        OBVIOUS
    <2>1. TypeOK'
        BY TokenTypeStep
    <2>2. Claimed'
        BY DEF Begin, Claimed
    <2>3. Approved'
        BY DEF Begin, Approved, InHand, Writing, Claimed
    <2>4. Exclusive'
        BY PlanAssumption DEF Begin, Exclusive, Holding, Writing
    <2>5. Modes'
        BY DEF Begin, Modes, Holding, Writing, Alive
    <2>6. Locked'
        BY DEF Begin, Locked, Writing, Exclusive, Holding
    <2>7. Carried'
        <3> SUFFICES ASSUME NEW u \in Tokens PROVE CarriedBy(u)'
            BY DEF Carried
        <3>1. Kept(u)
            BY DEF Begin, Kept, Published, Building, Carrying, Exclusive, Holding, Writing, Modes, Locked, Alive
        <3> QED BY <3>1, KeptCarried DEF Carried
    <2> QED BY <2>1, <2>2, <2>3, <2>4, <2>5, <2>6, <2>7 DEF LedgerInv
<1>5. Prepare(t) => LedgerInv'
    <2> SUFFICES ASSUME Prepare(t) PROVE LedgerInv'
        OBVIOUS
    <2>1. TypeOK'
        BY TokenTypeStep
    <2>2. Claimed'
        BY DEF Prepare, Claimed
    <2>3. Approved'
        BY DEF Prepare, Approved, InHand, Writing, Claimed
    <2>4. Exclusive'
        BY DEF Prepare, Exclusive, Holding, Writing
    <2>5. Modes'
        BY DEF Prepare, Modes, Holding, Writing, Alive
    <2>6. Locked'
        BY DEF Prepare, Locked, Writing, Exclusive, Holding
    <2>7. Carried'
        <3> SUFFICES ASSUME NEW u \in Tokens PROVE CarriedBy(u)'
            BY DEF Carried
        <3>1. Kept(u)
            BY DEF Prepare, Kept, Published, Building, Carrying, Exclusive, Holding, Writing, Modes, Locked, Alive, JsonType
        <3> QED BY <3>1, KeptCarried DEF Carried
    <2> QED BY <2>1, <2>2, <2>3, <2>4, <2>5, <2>6, <2>7 DEF LedgerInv
<1>6. TakeFlock(t) => LedgerInv'
    <2> SUFFICES ASSUME TakeFlock(t) PROVE LedgerInv'
        OBVIOUS
    <2>1. TypeOK'
        BY TokenTypeStep
    <2>2. Claimed'
        BY DEF TakeFlock, Claimed
    <2>3. Approved'
        BY DEF TakeFlock, Approved, InHand, Writing, Claimed
    <2>4. Exclusive'
        BY DEF TakeFlock, Exclusive, Holding, Writing
    <2>5. Modes'
        BY DEF TakeFlock, Modes, Holding, Writing, Alive
    <2>6. Locked'
        BY DEF TakeFlock, Locked, Writing, Exclusive, Holding
    <2>7. Carried'
        <3> SUFFICES ASSUME NEW u \in Tokens PROVE CarriedBy(u)'
            BY DEF Carried
        <3>1. Kept(u)
            BY DEF TakeFlock, Kept, Published, Building, Carrying, Exclusive, Holding, Writing, Modes, Locked, Alive
        <3> QED BY <3>1, KeptCarried DEF Carried
    <2> QED BY <2>1, <2>2, <2>3, <2>4, <2>5, <2>6, <2>7 DEF LedgerInv
<1>7. Review(t) => LedgerInv'
    <2> SUFFICES ASSUME Review(t) PROVE LedgerInv'
        OBVIOUS
    <2>1. TypeOK'
        BY TokenTypeStep
    <2>2. Claimed'
        BY DEF Review, Recheck, Unlock, Claimed
    <2>3. Approved'
        BY DEF Review, Recheck, Unlock, Approved, InHand, Writing, Claimed
    <2>4. Exclusive'
        BY DEF Review, Recheck, Unlock, Exclusive, Holding, Writing
    <2>5. Modes'
        BY DEF Review, Recheck, Unlock, Modes, Holding, Writing, Alive
    <2>6. Locked'
        BY DEF Review, Recheck, Unlock, Locked, Writing, Exclusive, Holding
    <2>7. Carried'
        <3>1. Published \subseteq Published'
            BY DEF Review, Recheck, Published
        <3>2. ASSUME NEW u \in Tokens, u # t PROVE CarriedBy(u)'
            <4>1. Kept(u)
                BY <3>1, <3>2 DEF Review, Recheck, Kept, Building, Carrying, Exclusive, Holding, Writing, Modes, Locked, Alive
            <4> QED BY <4>1, KeptCarried DEF Carried
        <3>3. CarriedBy(t)
            BY DEF Carried
        <3>4. CarriedBy(t)'
            <4>1. CASE pc'[t] = "write"
                <5>0. Alone(idx, t) /\ AloneIn(head, t)
                    BY <4>1, OriginAlone DEF Review, Preconditions
                <5>1. Alone(idx, t)' /\ AloneIn(head, t)'
                    BY <5>0 DEF Review, Alone, AloneIn, Published
                <5>2. written' = {}
                    BY <4>1 DEF Review
                <5> QED BY <3>1, <3>3, <4>1, <5>1, <5>2 DEF Review, Recheck, CarriedBy
            <4>2. CASE pc'[t] # "write"
                BY <3>1, <3>3, <4>2 DEF Review, Recheck, CarriedBy
            <4> QED BY <4>1, <4>2
        <3> QED BY <3>2, <3>4 DEF Carried
    <2> QED BY <2>1, <2>2, <2>3, <2>4, <2>5, <2>6, <2>7 DEF LedgerInv
<1>8. Add(t) => LedgerInv'
    <2> SUFFICES ASSUME Add(t) PROVE LedgerInv'
        OBVIOUS
    <2>1. TypeOK'
        BY TokenTypeStep
    <2>2. Claimed'
        BY DEF Add, Claimed
    <2>3. Approved'
        BY DEF Add, Approved, InHand, Writing, Claimed
    <2>4. Exclusive'
        BY DEF Add, Exclusive, Holding, Writing
    <2>5. Modes'
        BY DEF Add, Modes, Holding, Writing, Alive
    <2>6. Locked'
        BY DEF Add, Locked, Writing, Exclusive, Holding
    <2>7. Carried'
        <3>1. Published \subseteq Published'
            BY DEF Add, Published
        <3>2. ASSUME NEW u \in Tokens, u # t PROVE CarriedBy(u)'
            <4>1. Kept(u)
                BY <3>1, <3>2 DEF Add, Kept, Building, Carrying, Exclusive, Holding, Writing, Modes, Locked, Alive
            <4> QED BY <4>1, KeptCarried DEF Carried
        <3>3. CarriedBy(t)
            BY DEF Carried
        <3>4. CarriedBy(t)'
            <4>1. \A f \in Touch[t] : idx'[f] = t
                BY <3>3, PlanAssumption DEF Add, CarriedBy
            <4>2. Alone(idx, t)' /\ AloneIn(head, t)'
                BY <3>3, PlanAssumption DEF Add, CarriedBy, Alone, AloneIn, Published
            <4> QED BY <3>1, <3>3, <4>1, <4>2 DEF Add, CarriedBy
        <3> QED BY <3>2, <3>4 DEF Carried
    <2> QED BY <2>1, <2>2, <2>3, <2>4, <2>5, <2>6, <2>7 DEF LedgerInv
<1>9. Commit(t) => LedgerInv'
    <2> SUFFICES ASSUME Commit(t) PROVE LedgerInv'
        OBVIOUS
    <2>1. TypeOK'
        BY TokenTypeStep
    <2>2. Claimed'
        BY DEF Commit, Claimed
    <2>3. Approved'
        BY DEF Commit, Approved, InHand, Writing, Claimed
    <2>4. Exclusive'
        BY DEF Commit, Exclusive, Holding, Writing
    <2>5. Modes'
        BY DEF Commit, Modes, Holding, Writing, Alive
    <2>6. Locked'
        BY DEF Commit, Locked, Writing, Exclusive, Holding
    <2>7. Carried'
        <3>1. Published \subseteq Published'
            BY DEF Commit, Published
        <3>2. ASSUME NEW u \in Tokens, u # t PROVE CarriedBy(u)'
            <4>1. Kept(u)
                BY <3>1, <3>2 DEF Commit, Kept, Building, Carrying, Exclusive, Holding, Writing, Modes, Locked, Alive
            <4> QED BY <4>1, KeptCarried DEF Carried
        <3>3. CarriedBy(t)
            BY DEF Carried
        <3>4. CarriedBy(t)'
            <4>1. CASE pc'[t] = "save"
                <5>1. head' = Append(head, idx) /\ committed' = head'
                    BY <4>1 DEF Commit
                <5>2. Alone(idx, t) /\ AloneIn(head, t)
                    BY <3>3 DEF Commit, CarriedBy
                <5>3. AloneIn(head, t)'
                    <6>1. AloneIn(Append(head, idx), t)
                        BY <5>2, AppendAlone DEF RepoType
                    <6>2. Published' = Published
                        BY DEF Commit, Published
                    <6> QED BY <5>1, <6>1, <6>2 DEF AloneIn, Alone
                <5>4. t \in InBranch(committed')
                    <6>1. PICK f \in Touch[t] : idx[f] = t
                        BY <3>3, PlanAssumption DEF Commit, CarriedBy
                    <6>2. f \in Files
                        BY PlanAssumption
                    <6> QED BY <5>1, <6>1, <6>2 DEF RepoType, InBranch
                <5> QED BY <3>1, <3>3, <4>1, <5>1, <5>3, <5>4 DEF Commit, CarriedBy
            <4>2. CASE pc'[t] # "save"
                BY <3>1, <3>3, <4>2 DEF Commit, CarriedBy
            <4> QED BY <4>1, <4>2
        <3> QED BY <3>2, <3>4 DEF Carried
    <2> QED BY <2>1, <2>2, <2>3, <2>4, <2>5, <2>6, <2>7 DEF LedgerInv
<1>10. SaveCommit(t) => LedgerInv'
    <2> SUFFICES ASSUME SaveCommit(t) PROVE LedgerInv'
        OBVIOUS
    <2>1. TypeOK'
        BY TokenTypeStep
    <2>2. Claimed'
        BY DEF SaveCommit, Claimed
    <2>3. Approved'
        BY DEF SaveCommit, Approved, InHand, Writing, Claimed
    <2>4. Exclusive'
        BY DEF SaveCommit, Exclusive, Holding, Writing
    <2>5. Modes'
        BY DEF SaveCommit, Modes, Holding, Writing, Alive
    <2>6. Locked'
        BY DEF SaveCommit, Locked, Writing, Exclusive, Holding
    <2>7. Carried'
        <3>1. Published \subseteq Published'
            BY DEF SaveCommit, Published
        <3>2. ASSUME NEW u \in Tokens, u # t PROVE CarriedBy(u)'
            <4>1. Kept(u)
                BY <3>1, <3>2 DEF SaveCommit, Kept, Building, Carrying, Exclusive, Holding, Writing, Modes, Locked, Alive, JsonType
            <4> QED BY <4>1, KeptCarried DEF Carried
        <3>3. CarriedBy(t)
            BY DEF Carried
        <3>4. CarriedBy(t)'
            <4>1. /\ AloneIn(head, t)' /\ committed' = head' /\ t \in InBranch(committed')
                BY <3>3 DEF SaveCommit, CarriedBy, Alone, AloneIn, Published
            <4>2. stage'[t] = "committed" => t \in InBranch(saved'[t])
                BY <3>3 DEF SaveCommit, CarriedBy, JsonType
            <4>3. stage'[t] = "pushed" => t \in Published'
                BY <3>1, <3>3 DEF SaveCommit, CarriedBy, JsonType
            <4>4. "applied" \in unsent'[t] => t \in Published'
                BY <3>1, <3>3 DEF SaveCommit, CarriedBy
            <4>5. pc'[t] = "push"
                BY DEF SaveCommit
            <4> QED BY <4>1, <4>2, <4>3, <4>4, <4>5 DEF CarriedBy
        <3> QED BY <3>2, <3>4 DEF Carried
    <2> QED BY <2>1, <2>2, <2>3, <2>4, <2>5, <2>6, <2>7 DEF LedgerInv
<1>11. Push(t) => LedgerInv'
    <2> SUFFICES ASSUME Push(t) PROVE LedgerInv'
        OBVIOUS
    <2>1. TypeOK'
        BY TokenTypeStep
    <2>2. Claimed'
        BY DEF Push, Claimed
    <2>3. Approved'
        BY DEF Push, Approved, InHand, Writing, Claimed
    <2>4. Exclusive'
        BY DEF Push, Exclusive, Holding, Writing
    <2>5. Modes'
        BY DEF Push, Modes, Holding, Writing, Alive
    <2>6. Locked'
        BY DEF Push, Locked, Writing, Exclusive, Holding
    <2>7. Carried'
        <3>1. Published \subseteq Published'
            BY PublishedGrows DEF Push, RepoType
        <3>2. ASSUME NEW u \in Tokens, u # t PROVE CarriedBy(u)'
            <4>1. Kept(u)
                BY <3>1, <3>2 DEF Push, Kept, Building, Carrying, Exclusive, Holding, Writing, Modes, Locked, Alive
            <4> QED BY <4>1, KeptCarried DEF Carried
        <3>3. CarriedBy(t)
            BY DEF Carried
        <3>4. CarriedBy(t)'
            <4>1. AloneIn(head, t) /\ committed = head /\ t \in InBranch(head)
                BY <3>3 DEF Push, CarriedBy
            <4>2. AloneIn(head, t)' /\ committed' = head' /\ t \in InBranch(committed')
                BY <3>1, <4>1 DEF Push, Alone, AloneIn
            <4>3. pc'[t] = "pushed" => t \in Published'
                BY <4>1 DEF Push, Published
            <4> QED BY <3>1, <3>3, <4>2, <4>3 DEF Push, CarriedBy
        <3> QED BY <3>2, <3>4 DEF Carried
    <2> QED BY <2>1, <2>2, <2>3, <2>4, <2>5, <2>6, <2>7 DEF LedgerInv
<1>12. Ask(t) => LedgerInv'
    <2> SUFFICES ASSUME Ask(t) PROVE LedgerInv'
        OBVIOUS
    <2>1. TypeOK'
        BY TokenTypeStep
    <2>2. Claimed'
        BY DEF Ask, AskRemote, Claimed
    <2>3. Approved'
        BY DEF Ask, AskRemote, Approved, InHand, Writing, Claimed
    <2>4. Exclusive'
        BY DEF Ask, AskRemote, Exclusive, Holding, Writing
    <2>5. Modes'
        BY DEF Ask, AskRemote, Modes, Holding, Writing, Alive
    <2>6. Locked'
        BY DEF Ask, AskRemote, Locked, Writing, Exclusive, Holding
    <2>7. Carried'
        <3>1. Published \subseteq Published'
            BY DEF Ask, AskRemote, Published
        <3>2. ASSUME NEW u \in Tokens, u # t PROVE CarriedBy(u)'
            <4>1. Kept(u)
                BY <3>1, <3>2 DEF Ask, AskRemote, Kept, Building, Carrying, Exclusive, Holding, Writing, Modes, Locked, Alive
            <4> QED BY <4>1, KeptCarried DEF Carried
        <3>3. CarriedBy(t)
            BY DEF Carried
        <3>4. CarriedBy(t)'
            <4>1. pc'[t] = "pushed" => t \in Published'
                BY <3>3 DEF Ask, AskRemote, CarriedBy, Published
            <4> QED BY <3>1, <3>3, <4>1 DEF Ask, AskRemote, CarriedBy
        <3> QED BY <3>2, <3>4 DEF Carried
    <2> QED BY <2>1, <2>2, <2>3, <2>4, <2>5, <2>6, <2>7 DEF LedgerInv
<1>13. SavePushed(t) => LedgerInv'
    <2> SUFFICES ASSUME SavePushed(t) PROVE LedgerInv'
        OBVIOUS
    <2>1. TypeOK'
        BY TokenTypeStep
    <2>2. Claimed'
        BY DEF SavePushed, Unlock, Claimed
    <2>3. Approved'
        BY DEF SavePushed, Unlock, Approved, InHand, Writing, Claimed
    <2>4. Exclusive'
        BY DEF SavePushed, Unlock, Exclusive, Holding, Writing
    <2>5. Modes'
        BY DEF SavePushed, Unlock, Modes, Holding, Writing, Alive
    <2>6. Locked'
        BY DEF SavePushed, Unlock, Locked, Writing, Exclusive, Holding
    <2>7. Carried'
        <3>1. Published \subseteq Published'
            BY DEF SavePushed, Published
        <3>2. ASSUME NEW u \in Tokens, u # t PROVE CarriedBy(u)'
            <4>1. Kept(u)
                BY <3>1, <3>2 DEF SavePushed, Kept, Building, Carrying, Exclusive, Holding, Writing, Modes, Locked, Alive, JsonType
            <4> QED BY <4>1, KeptCarried DEF Carried
        <3>3. CarriedBy(t)
            BY DEF Carried
        <3>4. CarriedBy(t)'
            <4>1. t \in Published'
                BY <3>1, <3>3 DEF SavePushed, CarriedBy
            <4> QED BY <3>3, <4>1 DEF SavePushed, CarriedBy, JsonType
        <3> QED BY <3>2, <3>4 DEF Carried
    <2> QED BY <2>1, <2>2, <2>3, <2>4, <2>5, <2>6, <2>7 DEF LedgerInv
<1>14. Undo(t) => LedgerInv'
    <2> SUFFICES ASSUME Undo(t) PROVE LedgerInv'
        OBVIOUS
    <2>1. TypeOK'
        BY TokenTypeStep
    <2>2. Claimed'
        BY DEF Undo, Claimed
    <2>3. Approved'
        BY DEF Undo, Approved, InHand, Writing, Claimed
    <2>4. Exclusive'
        BY DEF Undo, Exclusive, Holding, Writing
    <2>5. Modes'
        BY DEF Undo, Modes, Holding, Writing, Alive
    <2>6. Locked'
        BY DEF Undo, Locked, Writing, Exclusive, Holding
    <2>7. Carried'
        <3> SUFFICES ASSUME NEW u \in Tokens PROVE CarriedBy(u)'
            BY DEF Carried
        <3>1. Kept(u)
            BY DEF Undo, Kept, Published, Building, Carrying, Exclusive, Holding, Writing, Modes, Locked, Alive
        <3> QED BY <3>1, KeptCarried DEF Carried
    <2> QED BY <2>1, <2>2, <2>3, <2>4, <2>5, <2>6, <2>7 DEF LedgerInv
<1>15. Unstage(t) => LedgerInv'
    <2> SUFFICES ASSUME Unstage(t) PROVE LedgerInv'
        OBVIOUS
    <2>1. TypeOK'
        BY TokenTypeStep
    <2>2. Claimed'
        BY DEF Unstage, Unstaged, Claimed
    <2>3. Approved'
        BY DEF Unstage, Unstaged, Approved, InHand, Writing, Claimed
    <2>4. Exclusive'
        BY DEF Unstage, Unstaged, Exclusive, Holding, Writing
    <2>5. Modes'
        BY DEF Unstage, Unstaged, Modes, Holding, Writing, Alive
    <2>6. Locked'
        BY DEF Unstage, Unstaged, Locked, Writing, Exclusive, Holding
    <2>7. Carried'
        <3> SUFFICES ASSUME NEW u \in Tokens PROVE CarriedBy(u)'
            BY DEF Carried
        <3>1. Kept(u)
            BY DEF Unstage, Unstaged, Kept, Published, Building, Carrying, Exclusive, Holding, Writing, Modes, Locked, Alive
        <3> QED BY <3>1, KeptCarried DEF Carried
    <2> QED BY <2>1, <2>2, <2>3, <2>4, <2>5, <2>6, <2>7 DEF LedgerInv
<1>16. Restored(t) => LedgerInv'
    <2> SUFFICES ASSUME Restored(t) PROVE LedgerInv'
        OBVIOUS
    <2>1. TypeOK'
        BY TokenTypeStep
    <2>2. Claimed'
        BY DEF Restored, Discard, Unlock, Claimed
    <2>3. Approved'
        BY DEF Restored, Discard, Unlock, Approved, InHand, Writing, Claimed
    <2>4. Exclusive'
        BY DEF Restored, Discard, Unlock, Exclusive, Holding, Writing
    <2>5. Modes'
        BY DEF Restored, Discard, Unlock, Modes, Holding, Writing, Alive
    <2>6. Locked'
        BY DEF Restored, Discard, Unlock, Locked, Writing, Exclusive, Holding
    <2>7. Carried'
        <3> SUFFICES ASSUME NEW u \in Tokens PROVE CarriedBy(u)'
            BY DEF Carried
        <3>1. Kept(u)
            BY DEF Restored, Discard, Kept, Published, Building, Carrying, Exclusive, Holding, Writing, Modes, Locked, Alive, JsonType
        <3> QED BY <3>1, KeptCarried DEF Carried
    <2> QED BY <2>1, <2>2, <2>3, <2>4, <2>5, <2>6, <2>7 DEF LedgerInv
<1>17. Report(t) => LedgerInv'
    <2> SUFFICES ASSUME Report(t) PROVE LedgerInv'
        OBVIOUS
    <2>1. TypeOK'
        BY TokenTypeStep
    <2>2. Claimed'
        BY DEF Report, Send, Claimed, SaidType
    <2>3. Approved'
        BY DEF Report, Send, Approved, InHand, Writing, Claimed, SaidType
    <2>4. Exclusive'
        BY DEF Report, Exclusive, Holding, Writing
    <2>5. Modes'
        BY DEF Report, Modes, Holding, Writing, Alive
    <2>6. Locked'
        BY DEF Report, Locked, Writing, Exclusive, Holding
    <2>7. Carried'
        <3> SUFFICES ASSUME NEW u \in Tokens PROVE CarriedBy(u)'
            BY DEF Carried
        <3>1. Kept(u)
            BY DEF Report, Kept, Published, Building, Carrying, Exclusive, Holding, Writing, Modes, Locked, Alive
        <3> QED BY <3>1, KeptCarried DEF Carried
    <2> QED BY <2>1, <2>2, <2>3, <2>4, <2>5, <2>6, <2>7 DEF LedgerInv
<1>18. Finish(t) => LedgerInv'
    <2> SUFFICES ASSUME Finish(t) PROVE LedgerInv'
        OBVIOUS
    <2>1. TypeOK'
        BY TokenTypeStep
    <2>2. Claimed'
        BY DEF Finish, Discard, Claimed
    <2>3. Approved'
        BY DEF Finish, Discard, Approved, InHand, Writing, Claimed
    <2>4. Exclusive'
        BY DEF Finish, Discard, Exclusive, Holding, Writing
    <2>5. Modes'
        BY DEF Finish, Discard, Modes, Holding, Writing, Alive
    <2>6. Locked'
        BY DEF Finish, Discard, Locked, Writing, Exclusive, Holding
    <2>7. Carried'
        <3> SUFFICES ASSUME NEW u \in Tokens PROVE CarriedBy(u)'
            BY DEF Carried
        <3>1. Kept(u)
            BY DEF Finish, Discard, Kept, Published, Building, Carrying, Exclusive, Holding, Writing, Modes, Locked, Alive, JsonType
        <3> QED BY <3>1, KeptCarried DEF Carried
    <2> QED BY <2>1, <2>2, <2>3, <2>4, <2>5, <2>6, <2>7 DEF LedgerInv
<1>19. Leave(t) => LedgerInv'
    <2> SUFFICES ASSUME Leave(t) PROVE LedgerInv'
        OBVIOUS
    <2>1. TypeOK'
        BY TokenTypeStep
    <2>2. Claimed'
        BY DEF Leave, Release, Freed, Claimed
    <2>3. Approved'
        BY DEF Leave, Release, Freed, Approved, InHand, Writing, Claimed
    <2>4. Exclusive'
        BY DEF Leave, Release, Freed, Exclusive, Holding, Writing
    <2>5. Modes'
        BY DEF Leave, Release, Freed, Modes, Holding, Writing, Alive
    <2>6. Locked'
        BY DEF Leave, Release, Freed, Locked, Writing, Exclusive, Holding
    <2>7. Carried'
        <3> SUFFICES ASSUME NEW u \in Tokens PROVE CarriedBy(u)'
            BY DEF Carried
        <3>1. Kept(u)
            BY DEF Leave, Release, Freed, Kept, Published, Building, Carrying, Exclusive, Holding, Writing, Modes, Locked, Alive
        <3> QED BY <3>1, KeptCarried DEF Carried
    <2> QED BY <2>1, <2>2, <2>3, <2>4, <2>5, <2>6, <2>7 DEF LedgerInv
<1>20. StopEnds(t) => LedgerInv'
    <2> SUFFICES ASSUME StopEnds(t) PROVE LedgerInv'
        OBVIOUS
    <2>1. TypeOK'
        BY TokenTypeStep
    <2>2. Claimed'
        BY DEF StopEnds, Clean, Idle, Claimed
    <2>3. Approved'
        BY DEF StopEnds, Clean, Idle, Approved, InHand, Writing, Claimed
    <2>4. Exclusive'
        BY DEF StopEnds, Clean, Idle, Exclusive, Holding, Writing
    <2>5. Modes'
        BY DEF StopEnds, Clean, Idle, Modes, Holding, Writing, Alive
    <2>6. Locked'
        BY DEF StopEnds, Clean, Idle, Locked, Writing, Exclusive, Holding
    <2>7. Carried'
        <3> SUFFICES ASSUME NEW u \in Tokens PROVE CarriedBy(u)'
            BY DEF Carried
        <3>1. Kept(u)
            BY DEF StopEnds, Clean, Idle, Kept, Published, Building, Carrying, Exclusive, Holding, Writing, Modes, Locked, Alive
        <3> QED BY <3>1, KeptCarried DEF Carried
    <2> QED BY <2>1, <2>2, <2>3, <2>4, <2>5, <2>6, <2>7 DEF LedgerInv
<1>21. RecoverRead(t) => LedgerInv'
    <2> SUFFICES ASSUME RecoverRead(t) PROVE LedgerInv'
        OBVIOUS
    <2>1. TypeOK'
        BY TokenTypeStep
    <2>2. Claimed'
        BY DEF RecoverRead, Idle, Claimed
    <2>3. Approved'
        BY DEF RecoverRead, Idle, Approved, InHand, Writing, Claimed
    <2>4. Exclusive'
        BY DEF RecoverRead, Idle, Exclusive, Holding, Writing
    <2>5. Modes'
        BY DEF RecoverRead, Idle, Modes, Holding, Writing, Alive
    <2>6. Locked'
        BY DEF RecoverRead, Idle, Locked, Writing, Exclusive, Holding
    <2>7. Carried'
        <3>1. Published \subseteq Published'
            BY DEF RecoverRead, Idle, Published
        <3>2. ASSUME NEW u \in Tokens, u # t PROVE CarriedBy(u)'
            <4>1. Kept(u)
                BY <3>1, <3>2 DEF RecoverRead, Idle, Kept, Building, Carrying, Exclusive, Holding, Writing, Modes, Locked, Alive
            <4> QED BY <4>1, KeptCarried DEF Carried
        <3>3. CarriedBy(t)
            BY DEF Carried
        <3>4. CarriedBy(t)'
            <4>1. pc'[t] = "there" => t \in Published'
                BY <3>1, <3>3 DEF RecoverRead, CarriedBy, Published
            <4> QED BY <3>1, <3>3, <4>1 DEF RecoverRead, CarriedBy
        <3> QED BY <3>2, <3>4 DEF Carried
    <2> QED BY <2>1, <2>2, <2>3, <2>4, <2>5, <2>6, <2>7 DEF LedgerInv
<1>22. RecoverScan(t) => LedgerInv'
    <2> SUFFICES ASSUME RecoverScan(t) PROVE LedgerInv'
        OBVIOUS
    <2>1. TypeOK'
        BY TokenTypeStep
    <2>2. Claimed'
        BY DEF RecoverScan, Ours, Unstaged, Claimed
    <2>3. Approved'
        BY DEF RecoverScan, Ours, Unstaged, Approved, InHand, Writing, Claimed
    <2>4. Exclusive'
        BY DEF RecoverScan, Ours, Unstaged, Exclusive, Holding, Writing
    <2>5. Modes'
        BY DEF RecoverScan, Ours, Unstaged, Modes, Holding, Writing, Alive
    <2>6. Locked'
        BY DEF RecoverScan, Ours, Unstaged, Locked, Writing, Exclusive, Holding
    <2>7. Carried'
        <3> SUFFICES ASSUME NEW u \in Tokens PROVE CarriedBy(u)'
            BY DEF Carried
        <3>1. Kept(u)
            BY DEF RecoverScan, Ours, Unstaged, Kept, Published, Building, Carrying, Exclusive, Holding, Writing, Modes, Locked, Alive
        <3> QED BY <3>1, KeptCarried DEF Carried
    <2> QED BY <2>1, <2>2, <2>3, <2>4, <2>5, <2>6, <2>7 DEF LedgerInv
<1>23. RecoverTell(t) => LedgerInv'
    <2> SUFFICES ASSUME RecoverTell(t) PROVE LedgerInv'
        OBVIOUS
    <2>1. TypeOK'
        BY TokenTypeStep
    <2>2. Claimed'
        BY DEF RecoverTell, Claimed, SaidType
    <2>3. Approved'
        BY DEF RecoverTell, Approved, InHand, Writing, Claimed
    <2>4. Exclusive'
        BY DEF RecoverTell, Exclusive, Holding, Writing
    <2>5. Modes'
        BY DEF RecoverTell, Modes, Holding, Writing, Alive
    <2>6. Locked'
        BY DEF RecoverTell, Locked, Writing, Exclusive, Holding
    <2>7. Carried'
        <3> SUFFICES ASSUME NEW u \in Tokens PROVE CarriedBy(u)'
            BY DEF Carried
        <3>1. Kept(u)
            BY DEF RecoverTell, Kept, Published, Building, Carrying, Exclusive, Holding, Writing, Modes,
               Locked, Alive, Carried, CarriedBy, SaidType
        <3> QED BY <3>1, KeptCarried DEF Carried
    <2> QED BY <2>1, <2>2, <2>3, <2>4, <2>5, <2>6, <2>7 DEF LedgerInv
<1>24. RecoverEnd(t) => LedgerInv'
    <2> SUFFICES ASSUME RecoverEnd(t) PROVE LedgerInv'
        OBVIOUS
    <2>1. TypeOK'
        BY TokenTypeStep
    <2>2. Claimed'
        BY DEF RecoverEnd, Freed, Discard, Claimed
    <2>3. Approved'
        BY DEF RecoverEnd, Freed, Discard, Approved, InHand, Writing, Claimed
    <2>4. Exclusive'
        BY DEF RecoverEnd, Freed, Discard, Exclusive, Holding, Writing
    <2>5. Modes'
        BY DEF RecoverEnd, Freed, Discard, Modes, Holding, Writing, Alive
    <2>6. Locked'
        BY DEF RecoverEnd, Freed, Discard, Locked, Writing, Exclusive, Holding
    <2>7. Carried'
        <3> SUFFICES ASSUME NEW u \in Tokens PROVE CarriedBy(u)'
            BY DEF Carried
        <3>1. Kept(u)
            BY DEF RecoverEnd, Freed, Discard, Kept, Published, Building, Carrying, Exclusive, Holding, Writing, Modes, Locked, Alive, JsonType
        <3> QED BY <3>1, KeptCarried DEF Carried
    <2> QED BY <2>1, <2>2, <2>3, <2>4, <2>5, <2>6, <2>7 DEF LedgerInv
<1>25. Announce(t) => LedgerInv'
    <2> SUFFICES ASSUME Announce(t) PROVE LedgerInv'
        OBVIOUS
    <2>1. TypeOK'
        BY TokenTypeStep
    <2>2. Claimed'
        BY DEF Announce, Send, Claimed, SaidType
    <2>3. Approved'
        BY DEF Announce, Idle, Approved, InHand, Writing
    <2>4. Exclusive'
        BY DEF Announce, Exclusive
    <2>5. Modes'
        BY DEF Announce, Modes
    <2>6. Locked'
        BY DEF Announce, Locked
    <2>7. Carried'
        <3> SUFFICES ASSUME NEW u \in Tokens PROVE CarriedBy(u)'
            BY DEF Carried
        <3>1. Kept(u)
            BY DEF Announce, Kept, Published, Building, Carrying, SaidType
        <3> QED BY <3>1, KeptCarried DEF Carried
    <2> QED BY <2>1, <2>2, <2>3, <2>4, <2>5, <2>6, <2>7 DEF LedgerInv
<1> QED BY <1>1, <1>2, <1>3, <1>4, <1>5, <1>6, <1>7, <1>8, <1>9, <1>10, <1>11, <1>12, <1>13,
       <1>14, <1>15, <1>16, <1>17, <1>18, <1>19, <1>20, <1>21, <1>22, <1>23, <1>24, <1>25

\* The actions on one file of a plan.
LEMMA TokenFileLedgerStep ==
    ASSUME LedgerInv, ~Stops, ~LateEdits, NEW t \in Tokens, NEW f \in Files
    PROVE  /\ WriteFile(t, f) => LedgerInv'
           /\ RestoreFile(t, f) => LedgerInv'
           /\ RecoverFile(t, f) => LedgerInv'
<1> USE DEF LedgerInv, TypeOK, kv, json, repo, local, said, Go, ProcType
<1>1. WriteFile(t, f) => LedgerInv'
    <2> SUFFICES ASSUME WriteFile(t, f) PROVE LedgerInv'
        OBVIOUS
    <2>1. TypeOK'
        BY TokenFileTypeStep
    <2>2. Claimed'
        BY DEF WriteFile, Claimed
    <2>3. Approved'
        BY DEF WriteFile, Approved, InHand, Writing, Claimed
    <2>4. Exclusive'
        BY DEF WriteFile, Exclusive, Holding, Writing
    <2>5. Modes'
        BY DEF WriteFile, Modes, Holding, Writing, Alive
    <2>6. Locked'
        BY DEF WriteFile, Locked, Writing, Exclusive, Holding
    <2>7. Carried'
        <3>1. Published \subseteq Published'
            BY DEF WriteFile, Published
        <3>2. ASSUME NEW u \in Tokens, u # t PROVE CarriedBy(u)'
            <4>1. Kept(u)
                BY <3>1, <3>2 DEF WriteFile, Kept, Building, Carrying, Exclusive, Holding, Writing, Modes, Locked, Alive
            <4> QED BY <4>1, KeptCarried DEF Carried
        <3>3. CarriedBy(t)
            BY DEF Carried
        <3>4. CarriedBy(t)'
            <4>1. pc'[t] = "write" => \A g \in written' : work'[g] = t
                BY <3>3 DEF WriteFile, CarriedBy, RepoType, LocalType, Trees
            <4>2. Alone(idx, t)' /\ AloneIn(head, t)'
                BY <3>3 DEF WriteFile, CarriedBy, Alone, AloneIn, Published
            <4> QED BY <3>1, <3>3, <4>1, <4>2 DEF WriteFile, CarriedBy
        <3> QED BY <3>2, <3>4 DEF Carried
    <2> QED BY <2>1, <2>2, <2>3, <2>4, <2>5, <2>6, <2>7 DEF LedgerInv
<1>2. RestoreFile(t, f) => LedgerInv'
    <2> SUFFICES ASSUME RestoreFile(t, f) PROVE LedgerInv'
        OBVIOUS
    <2>1. TypeOK'
        BY TokenFileTypeStep
    <2>2. Claimed'
        BY DEF RestoreFile, Claimed
    <2>3. Approved'
        BY DEF RestoreFile, Approved, InHand, Writing, Claimed
    <2>4. Exclusive'
        BY DEF RestoreFile, Exclusive, Holding, Writing
    <2>5. Modes'
        BY DEF RestoreFile, Modes, Holding, Writing, Alive
    <2>6. Locked'
        BY DEF RestoreFile, Locked, Writing, Exclusive, Holding
    <2>7. Carried'
        <3> SUFFICES ASSUME NEW u \in Tokens PROVE CarriedBy(u)'
            BY DEF Carried
        <3>1. Kept(u)
            BY DEF RestoreFile, Kept, Published, Building, Carrying, Exclusive, Holding, Writing, Modes, Locked, Alive
        <3> QED BY <3>1, KeptCarried DEF Carried
    <2> QED BY <2>1, <2>2, <2>3, <2>4, <2>5, <2>6, <2>7 DEF LedgerInv
<1>3. RecoverFile(t, f) => LedgerInv'
    <2> SUFFICES ASSUME RecoverFile(t, f) PROVE LedgerInv'
        OBVIOUS
    <2>1. TypeOK'
        BY TokenFileTypeStep
    <2>2. Claimed'
        BY DEF RecoverFile, Claimed
    <2>3. Approved'
        BY DEF RecoverFile, Approved, InHand, Writing, Claimed
    <2>4. Exclusive'
        BY DEF RecoverFile, Exclusive, Holding, Writing
    <2>5. Modes'
        BY DEF RecoverFile, Modes, Holding, Writing, Alive
    <2>6. Locked'
        BY DEF RecoverFile, Locked, Writing, Exclusive, Holding
    <2>7. Carried'
        <3> SUFFICES ASSUME NEW u \in Tokens PROVE CarriedBy(u)'
            BY DEF Carried
        <3>1. Kept(u)
            BY DEF RecoverFile, Kept, Published, Building, Carrying, Exclusive, Holding, Writing, Modes, Locked, Alive
        <3> QED BY <3>1, KeptCarried DEF Carried
    <2> QED BY <2>1, <2>2, <2>3, <2>4, <2>5, <2>6, <2>7 DEF LedgerInv
<1> QED BY <1>1, <1>2, <1>3

\* Changes from outside.
LEMMA FileLedgerStep ==
    ASSUME LedgerInv, ~Stops, ~LateEdits, NEW f \in Files
    PROVE  /\ DevPush(f) => LedgerInv'
           /\ HandEdit(f) => LedgerInv'
<1> USE DEF LedgerInv, TypeOK, kv, json, repo, local, said, Go, ProcType
<1>1. DevPush(f) => LedgerInv'
    <2> SUFFICES ASSUME DevPush(f) PROVE LedgerInv'
        OBVIOUS
    <2>1. TypeOK'
        BY FileTypeStep
    <2>2. Claimed'
        BY DEF DevPush, Tip, Claimed
    <2>3. Approved'
        BY DEF DevPush, Tip, Approved, InHand, Writing, Claimed
    <2>4. Exclusive'
        BY DEF DevPush, Tip, Exclusive, Holding, Writing
    <2>5. Modes'
        BY DEF DevPush, Tip, Modes, Holding, Writing, Alive
    <2>6. Locked'
        BY DEF DevPush, Tip, Locked, Writing, Exclusive, Holding
    <2>7. Carried'
        <3> SUFFICES ASSUME NEW u \in Tokens PROVE CarriedBy(u)'
            BY DEF Carried
        <3>0. [Tip(origin) EXCEPT ![f] = "dev"] \in Trees
            BY BranchFacts, TreeFacts, ContentFacts DEF RepoType
        <3>1. Published \subseteq Published'
            BY <3>0, PublishedGrows DEF DevPush
        <3>2. Kept(u)
            BY <3>1 DEF DevPush, Kept, Building, Carrying, Exclusive, Holding, Writing, Modes, Locked, Alive
        <3> QED BY <3>2, KeptCarried DEF Carried
    <2> QED BY <2>1, <2>2, <2>3, <2>4, <2>5, <2>6, <2>7 DEF LedgerInv
<1>2. HandEdit(f) => LedgerInv'
    <2> SUFFICES ASSUME HandEdit(f) PROVE LedgerInv'
        OBVIOUS
    <2>1. TypeOK'
        BY FileTypeStep
    <2>2. Claimed'
        BY DEF HandEdit, Claimed
    <2>3. Approved'
        BY DEF HandEdit, Approved, InHand, Writing, Claimed
    <2>4. Exclusive'
        BY DEF HandEdit, Exclusive, Holding, Writing
    <2>5. Modes'
        BY DEF HandEdit, Modes, Holding, Writing, Alive
    <2>6. Locked'
        BY DEF HandEdit, Locked, Writing, Exclusive, Holding
    <2>7. Carried'
        <3> SUFFICES ASSUME NEW u \in Tokens PROVE CarriedBy(u)'
            BY DEF Carried
        <3>1. ASSUME NEW g \in written, pc[u] = "write" PROVE work'[g] = work[g]
            <4>1. f \notin Held(u)
                BY DEF HandEdit
            <4>2. Held(u) = written
                BY <3>1 DEF Held, Writing
            <4> QED BY <3>1, <4>1, <4>2 DEF HandEdit, RepoType, LocalType, Trees
        <3>2. Kept(u)
            BY <3>1 DEF HandEdit, Kept, Published, Building, Carrying
        <3> QED BY <3>2, KeptCarried DEF Carried
    <2> QED BY <2>1, <2>2, <2>3, <2>4, <2>5, <2>6, <2>7 DEF LedgerInv
<1> QED BY <1>1, <1>2

\* The bot and the deployment as a whole.
LEMMA PlainLedgerStep ==
    ASSUME LedgerInv, ~Stops, ~LateEdits, NEW k \in Leases
    PROVE  /\ Purge => LedgerInv'
           /\ Expire(k) => LedgerInv'
           /\ Crash => LedgerInv'
           /\ Boot => LedgerInv'
           /\ Booted => LedgerInv'
           /\ DeployReset => LedgerInv'
           /\ DeployEnd => LedgerInv'
<1> USE DEF LedgerInv, TypeOK, kv, json, repo, local, said, Go, ProcType
<1>1. Purge => LedgerInv'
    <2> SUFFICES ASSUME Purge PROVE LedgerInv'
        OBVIOUS
    <2>1. TypeOK'
        BY PlainTypeStep
    <2>2. Claimed'
        BY DEF Purge, Claimed
    <2>3. Approved'
        BY DEF Purge, Approved, InHand, Writing, Claimed
    <2>4. Exclusive'
        BY DEF Purge, Exclusive, Holding, Writing
    <2>5. Modes'
        BY DEF Purge, Modes, Holding, Writing, Alive
    <2>6. Locked'
        BY DEF Purge, Locked, Writing, Exclusive, Holding
    <2>7. Carried'
        <3> SUFFICES ASSUME NEW u \in Tokens PROVE CarriedBy(u)'
            BY DEF Carried
        <3>1. Kept(u)
            BY DEF Purge, Kept, Published, Building, Carrying, Exclusive, Holding, Writing, Modes, Locked, Alive
        <3> QED BY <3>1, KeptCarried DEF Carried
    <2> QED BY <2>1, <2>2, <2>3, <2>4, <2>5, <2>6, <2>7 DEF LedgerInv
<1>2. Expire(k) => LedgerInv'
    <2> SUFFICES ASSUME Expire(k) PROVE LedgerInv'
        OBVIOUS
    <2>1. TypeOK'
        BY PlainTypeStep
    <2>2. Claimed'
        BY DEF Expire, Claimed
    <2>3. Approved'
        BY DEF Expire, Approved, InHand, Writing, Claimed
    <2>4. Exclusive'
        BY DEF Expire, Exclusive, Holding, Writing
    <2>5. Modes'
        BY DEF Expire, Modes, Holding, Writing, Alive
    <2>6. Locked'
        BY DEF Expire, Locked, Writing, Exclusive, Holding
    <2>7. Carried'
        <3> SUFFICES ASSUME NEW u \in Tokens PROVE CarriedBy(u)'
            BY DEF Carried
        <3>1. Kept(u)
            BY DEF Expire, Kept, Published, Building, Carrying, Exclusive, Holding, Writing, Modes, Locked, Alive
        <3> QED BY <3>1, KeptCarried DEF Carried
    <2> QED BY <2>1, <2>2, <2>3, <2>4, <2>5, <2>6, <2>7 DEF LedgerInv
<1>3. Crash => LedgerInv'
    <2> SUFFICES ASSUME Crash PROVE LedgerInv'
        OBVIOUS
    <2>1. TypeOK'
        BY PlainTypeStep
    <2>2. Claimed'
        BY DEF Crash, Clean, Idle, Unlock, Claimed
    <2>3. Approved'
        BY DEF Crash, Clean, Idle, Unlock, Approved, InHand, Writing, Claimed
    <2>4. Exclusive'
        BY DEF Crash, Clean, Idle, Unlock, Exclusive, Holding, Writing
    <2>5. Modes'
        BY DEF Crash, Clean, Idle, Unlock, Modes, Holding, Writing, Alive
    <2>6. Locked'
        BY DEF Crash, Clean, Idle, Unlock, Locked, Writing, Exclusive, Holding
    <2>7. Carried'
        <3> SUFFICES ASSUME NEW u \in Tokens PROVE CarriedBy(u)'
            BY DEF Carried
        <3>1. Kept(u)
            BY DEF Crash, Clean, Idle, Unlock, Kept, Published, Building, Carrying, Exclusive, Holding, Writing, Modes, Locked, Alive
        <3> QED BY <3>1, KeptCarried DEF Carried
    <2> QED BY <2>1, <2>2, <2>3, <2>4, <2>5, <2>6, <2>7 DEF LedgerInv
<1>4. Boot => LedgerInv'
    <2> SUFFICES ASSUME Boot PROVE LedgerInv'
        OBVIOUS
    <2>1. TypeOK'
        BY PlainTypeStep
    <2>2. Claimed'
        BY DEF Boot, Interrupted, Claimed
    <2>3. Approved'
        BY DEF Boot, Interrupted, Approved, InHand, Writing, Claimed
    <2>4. Exclusive'
        BY DEF Boot, Interrupted, Exclusive, Holding, Writing
    <2>5. Modes'
        BY DEF Boot, Interrupted, Modes, Holding, Writing, Alive
    <2>6. Locked'
        BY DEF Boot, Interrupted, Locked, Writing, Exclusive, Holding
    <2>7. Carried'
        <3> SUFFICES ASSUME NEW u \in Tokens PROVE CarriedBy(u)'
            BY DEF Carried
        <3>1. Kept(u)
            BY DEF Boot, Interrupted, Kept, Published, Building, Carrying, Exclusive, Holding, Writing, Modes, Locked, Alive
        <3> QED BY <3>1, KeptCarried DEF Carried
    <2> QED BY <2>1, <2>2, <2>3, <2>4, <2>5, <2>6, <2>7 DEF LedgerInv
<1>5. Booted => LedgerInv'
    <2> SUFFICES ASSUME Booted PROVE LedgerInv'
        OBVIOUS
    <2>1. TypeOK'
        BY PlainTypeStep
    <2>2. Claimed'
        BY DEF Booted, Claimed
    <2>3. Approved'
        BY DEF Booted, Approved, InHand, Writing, Claimed
    <2>4. Exclusive'
        BY DEF Booted, Exclusive, Holding, Writing
    <2>5. Modes'
        BY DEF Booted, Modes, Holding, Writing, Alive
    <2>6. Locked'
        BY DEF Booted, Locked, Writing, Exclusive, Holding
    <2>7. Carried'
        <3> SUFFICES ASSUME NEW u \in Tokens PROVE CarriedBy(u)'
            BY DEF Carried
        <3>1. Kept(u)
            BY DEF Booted, Kept, Published, Building, Carrying, Exclusive, Holding, Writing, Modes, Locked, Alive
        <3> QED BY <3>1, KeptCarried DEF Carried
    <2> QED BY <2>1, <2>2, <2>3, <2>4, <2>5, <2>6, <2>7 DEF LedgerInv
<1>6. DeployReset => LedgerInv'
    <2> SUFFICES ASSUME DeployReset PROVE LedgerInv'
        OBVIOUS
    <2>1. TypeOK'
        BY PlainTypeStep
    <2>2. Claimed'
        BY DEF DeployReset, Tip, Claimed
    <2>3. Approved'
        BY DEF DeployReset, Tip, Approved, InHand, Writing, Claimed
    <2>4. Exclusive'
        BY DEF DeployReset, Tip, Exclusive, Holding, Writing
    <2>5. Modes'
        BY DEF DeployReset, Tip, Modes, Holding, Writing, Alive
    <2>6. Locked'
        BY PlanAssumption DEF DeployReset, Locked, Writing
    <2>7. Carried'
        <3> SUFFICES ASSUME NEW u \in Tokens PROVE CarriedBy(u)'
            BY DEF Carried
        <3>1. Kept(u)
            BY PlanAssumption DEF DeployReset, Kept, Published, Building, Carrying, Exclusive, Holding, Writing, Modes, Locked, Alive, JsonType
        <3> QED BY <3>1, KeptCarried DEF Carried
    <2> QED BY <2>1, <2>2, <2>3, <2>4, <2>5, <2>6, <2>7 DEF LedgerInv
<1>7. DeployEnd => LedgerInv'
    <2> SUFFICES ASSUME DeployEnd PROVE LedgerInv'
        OBVIOUS
    <2>1. TypeOK'
        BY PlainTypeStep
    <2>2. Claimed'
        BY DEF DeployEnd, Claimed
    <2>3. Approved'
        BY DEF DeployEnd, Approved, InHand, Writing, Claimed
    <2>4. Exclusive'
        BY DEF DeployEnd, Exclusive, Holding, Writing
    <2>5. Modes'
        BY DEF DeployEnd, Modes, Holding, Writing, Alive
    <2>6. Locked'
        BY DEF DeployEnd, Locked, Writing, Exclusive, Holding
    <2>7. Carried'
        <3> SUFFICES ASSUME NEW u \in Tokens PROVE CarriedBy(u)'
            BY DEF Carried
        <3>1. Kept(u)
            BY DEF DeployEnd, Kept, Published, Building, Carrying, Exclusive, Holding, Writing, Modes, Locked, Alive
        <3> QED BY <3>1, KeptCarried DEF Carried
    <2> QED BY <2>1, <2>2, <2>3, <2>4, <2>5, <2>6, <2>7 DEF LedgerInv
<1> QED BY <1>1, <1>2, <1>3, <1>4, <1>5, <1>6, <1>7

LEMMA LedgerInit == Init => LedgerInv
<1> SUFFICES ASSUME Init PROVE LedgerInv
    OBVIOUS
<1>1. TypeOK
    BY TypeInit
<1>2. Claimed /\ Approved /\ Exclusive /\ Modes /\ Locked
    BY DEF Init, Claimed, Approved, InHand, Exclusive, Holding, Modes, Locked, Writing
<1>3. Carried
    BY DEF Init, Carried, CarriedBy
<1> QED BY <1>1, <1>2, <1>3 DEF LedgerInv

LEMMA LedgerStep ==
    ASSUME LedgerInv, ~Stops, ~LateEdits, [Next]_vars
    PROVE  LedgerInv'
<1>1. CASE Next
    <2>1. ASSUME NEW t \in Tokens, Owner(t) \/ Execute(t) \/ Stop(t) \/ Recover(t) PROVE LedgerInv'
        BY <2>1, TokenLedgerStep, TokenFileLedgerStep DEF Owner, Execute, Recover, Stop
    <2>2. ASSUME NEW f \in Files, DevPush(f) \/ HandEdit(f) PROVE LedgerInv'
        BY <2>2, FileLedgerStep
    <2>3. ASSUME Purge \/ Crash \/ Boot \/ Booted \/ Deploy PROVE LedgerInv'
        BY <2>3, PlainLedgerStep DEF Deploy, Leases
    <2>4. ASSUME NEW k \in Leases, Expire(k) PROVE LedgerInv'
        BY <2>4, PlainLedgerStep
    <2> QED BY <1>1, <2>1, <2>2, <2>3, <2>4 DEF Next
<1>2. CASE UNCHANGED vars
    <2>1. TypeOK'
        BY <1>2 DEF vars, kv, json, repo, local, said, LedgerInv, TypeOK, StoreType, LeaseType,
           JsonType, RepoType, ProcType, LocalType, SaidType
    <2>2. Claimed' /\ Approved' /\ Exclusive' /\ Modes' /\ Locked'
        BY <1>2 DEF vars, kv, local, said, LedgerInv, Claimed, Approved, Exclusive, Modes, Locked
    <2>3. Carried'
        BY <1>2 DEF vars, json, repo, local, said, LedgerInv, Carried, CarriedBy, Alone, AloneIn, Published
    <2> QED BY <2>1, <2>2, <2>3 DEF LedgerInv
<1> QED BY <1>1, <1>2

\* A branch that is one plan ahead of origin publishes that plan.
LEMMA PushPublishes ==
    ASSUME RepoType, NEW t \in Tokens, AloneIn(head, t), IsPrefix(origin, head), origin' = head,
           t \in InBranch(head)
    PROVE  Published' = Published \cup {t}
<1>1. Published \subseteq Published'
    BY PublishedGrows
<1>2. t \in Published'
    BY DEF Published
<1>3. Published' \subseteq Published \cup {t}
    BY DEF Published, InBranch, AloneIn, Alone
<1> QED BY <1>1, <1>2, <1>3

LEMMA DevPublishesNothing ==
    ASSUME RepoType, NEW f \in Files, DevPush(f)
    PROVE  Published' = Published
<1> DEFINE x == [Tip(origin) EXCEPT ![f] = "dev"]
<1>1. Tip(origin) \in Trees /\ x \in Trees
    BY BranchFacts, TreeFacts, ContentFacts DEF RepoType
<1>2. origin' = Append(origin, x)
    BY DEF DevPush
<1>3. Published \subseteq Published'
    BY <1>1, <1>2, PublishedGrows
<1>4. ASSUME NEW u \in Tokens, u \in Published' PROVE u \in Published
    <2> HIDE DEF x
    <2>1. PICK i \in 1..Len(origin'), g \in Files : origin'[i][g] = u
        BY <1>4 DEF Published, InBranch
    <2>2. Alone(Tip(origin), u) /\ u # "dev"
        BY OriginAlone, PlanAssumption
    <2>3. CASE i \in 1..Len(origin)
        BY <1>2, <2>1, <2>3 DEF RepoType, Published, InBranch
    <2>4. CASE i = Len(origin) + 1
        <3>1. x[g] = u
            BY <1>1, <1>2, <2>1, <2>4 DEF RepoType
        <3>2. Tip(origin)[g] = u
            BY <1>1, <2>2, <3>1 DEF x, Trees
        <3>3. Len(origin) \in 1..Len(origin)
            BY DEF RepoType
        <3> QED BY <3>2, <3>3 DEF Tip, Published, InBranch
    <2>5. i \in 1..Len(origin) \/ i = Len(origin) + 1
        BY <1>1, <1>2, <2>1 DEF RepoType
    <2> QED BY <2>3, <2>4, <2>5
<1>5. Published' \subseteq Tokens
    BY DEF Published, InBranch
<1> QED BY <1>3, <1>4, <1>5

\* Every action of one plan is a step of the ledger or leaves it alone.
LEMMA TokenMaps ==
    ASSUME LedgerInv, ~Stops, ~LateEdits, NEW t \in Tokens, NEW a \in BOOLEAN, NEW f \in Files
    PROVE  /\ Push(t) => [Ledger!Next]_(Ledger!ledger)
           /\ Press(t, a) => [Ledger!Next]_(Ledger!ledger)
           /\ Report(t) => [Ledger!Next]_(Ledger!ledger)
           /\ Announce(t) => [Ledger!Next]_(Ledger!ledger)
<1> USE DEF Ledger!Next, Ledger!ledger
<1>1. Push(t) => [Ledger!Next]_(Ledger!ledger)
    <2> SUFFICES ASSUME Push(t) PROVE [Ledger!Next]_(Ledger!ledger)
        OBVIOUS
    <2>1. verdict[t] = "approved" /\ told[t] = {} /\ UNCHANGED <<verdict, told>>
        BY DEF Push, said, LedgerInv, Approved, InHand, Writing
    <2>2. AloneIn(head, t) /\ t \in InBranch(head)
        BY DEF Push, LedgerInv, Carried, CarriedBy
    <2>3. origin' = origin \/ (IsPrefix(origin, head) /\ origin' = head)
        BY DEF Push
    <2>4. CASE origin' = origin
        <3>1. Published' = Published
            BY <2>4 DEF Published
        <3> QED BY <2>1, <3>1
    <2>5. CASE IsPrefix(origin, head) /\ origin' = head
        <3>1. Published' = Published \cup {t}
            BY <2>2, <2>5, PushPublishes DEF LedgerInv, TypeOK
        <3>2. Ledger!Publish(t)
            BY <2>1, <3>1 DEF Ledger!Publish
        <3> QED BY <3>2
    <2> QED BY <2>3, <2>4, <2>5
<1>2. Press(t, a) => [Ledger!Next]_(Ledger!ledger)
    <2> SUFFICES ASSUME Press(t, a) PROVE [Ledger!Next]_(Ledger!ledger)
        OBVIOUS
    <2>1. verdict[t] = "open"
        BY DEF Press, Claim, LedgerInv, Claimed
    <2>2. Published' = Published /\ told' = told
        BY DEF Press, Published
    <2>3. PICK v \in {"lapsed", IF a THEN "approved" ELSE "rejected"} :
              verdict' = [verdict EXCEPT ![t] = v]
        BY DEF Press
    <2>4. v \in Ledger!Verdicts \ {"open"}
        BY DEF Ledger!Verdicts
    <2>5. Ledger!Decide(t, v)
        BY <2>1, <2>2, <2>3 DEF Ledger!Decide
    <2> QED BY <2>4, <2>5
<1>3. ASSUME NEW o \in {"applied", "failed"}, Send(t, o), UNCHANGED <<origin, verdict>>,
             verdict[t] # "open", o = "applied" => t \in Published
      PROVE  [Ledger!Next]_(Ledger!ledger)
    <2>1. Published' = Published
        BY <1>3 DEF Published
    <2>2. CASE told' = told
        BY <1>3, <2>1, <2>2
    <2>3. CASE told' = [told EXCEPT ![t] = @ \cup {o}]
        <3>1. Ledger!Tell(t, o)
            BY <1>3, <2>1, <2>3 DEF Ledger!Tell
        <3> QED BY <3>1 DEF Ledger!Outcomes
    <2> QED BY <1>3, <2>2, <2>3 DEF Send
<1>4. Report(t) => [Ledger!Next]_(Ledger!ledger)
    <2> SUFFICES ASSUME Report(t) PROVE [Ledger!Next]_(Ledger!ledger)
        OBVIOUS
    <2> DEFINE o == IF pc[t] = "ok" THEN "applied" ELSE "failed"
    <2>1. verdict[t] # "open"
        BY DEF Report, LedgerInv, Claimed
    <2>2. o = "applied" => t \in Published
        BY DEF LedgerInv, Carried, CarriedBy
    <2>3. Send(t, o) /\ UNCHANGED <<origin, verdict>>
        BY DEF Report
    <2> QED BY <1>3, <2>1, <2>2, <2>3
<1>5. Announce(t) => [Ledger!Next]_(Ledger!ledger)
    <2> SUFFICES ASSUME Announce(t) PROVE [Ledger!Next]_(Ledger!ledger)
        OBVIOUS
    <2>1. PICK o \in unsent[t] : Send(t, o)
        BY DEF Announce
    <2>2. o \in {"applied", "failed"}
        BY DEF LedgerInv, TypeOK, SaidType
    <2>3. verdict[t] # "open" /\ (o = "applied" => t \in Published)
        BY DEF LedgerInv, Claimed, Carried, CarriedBy
    <2> QED BY <1>3, <2>1, <2>2, <2>3 DEF Announce
<1> QED BY <1>1, <1>2, <1>4, <1>5

\* What the other actions leave alone.
LEMMA OthersStutter ==
    ASSUME NEW t \in Tokens, NEW f \in Files,
           \/ Offer(t) \/ Close(t) \/ Begin(t) \/ Prepare(t) \/ TakeFlock(t) \/ Review(t) \/ WriteFile(t, f)
           \/ Add(t) \/ Commit(t) \/ SaveCommit(t) \/ Ask(t) \/ SavePushed(t)
           \/ Undo(t) \/ Unstage(t) \/ RestoreFile(t, f) \/ Restored(t)
           \/ Finish(t) \/ Leave(t) \/ StopEnds(t)
           \/ RecoverRead(t) \/ RecoverScan(t) \/ RecoverFile(t, f) \/ RecoverTell(t) \/ RecoverEnd(t)
    PROVE  UNCHANGED Ledger!ledger
<1> USE DEF Ledger!ledger, said
<1>1. CASE Offer(t) \/ Close(t) \/ Begin(t) \/ Prepare(t) \/ TakeFlock(t) \/ Review(t) \/ WriteFile(t, f)
    BY <1>1 DEF Offer, Close, Begin, Prepare, TakeFlock, Review, WriteFile, Published
<1>2. CASE Add(t) \/ Commit(t) \/ SaveCommit(t) \/ Ask(t) \/ SavePushed(t)
    BY <1>2 DEF Add, Commit, SaveCommit, Ask, SavePushed, Published
<1>3. CASE Undo(t) \/ Unstage(t) \/ RestoreFile(t, f) \/ Restored(t) \/ Finish(t) \/ Leave(t) \/ StopEnds(t)
    BY <1>3 DEF Undo, Unstage, RestoreFile, Restored, Finish, Leave, StopEnds, Published
<1>4. CASE RecoverRead(t) \/ RecoverScan(t) \/ RecoverFile(t, f) \/ RecoverTell(t) \/ RecoverEnd(t)
    BY <1>4 DEF RecoverRead, RecoverScan, RecoverFile, RecoverTell, RecoverEnd, Published
<1> QED BY <1>1, <1>2, <1>3, <1>4

LEMMA NextMaps ==
    ASSUME LedgerInv, ~Stops, ~LateEdits, [Next]_vars
    PROVE  [Ledger!Next]_(Ledger!ledger)
<1>1. CASE UNCHANGED vars
    BY <1>1 DEF vars, said, Ledger!ledger, Published
<1>2. ASSUME NEW t \in Tokens, Owner(t) \/ Execute(t) \/ Stop(t) \/ Recover(t)
      PROVE  [Ledger!Next]_(Ledger!ledger)
    <2>1. PICK f0 \in Files : TRUE
        BY PlanAssumption
    <2>2. CASE \E a \in BOOLEAN : Press(t, a) \/ Push(t) \/ Report(t) \/ Announce(t)
        BY <2>1, <2>2, TokenMaps
    <2>3. CASE ~\E a \in BOOLEAN : Press(t, a) \/ Push(t) \/ Report(t) \/ Announce(t)
        <3>1. PICK f \in Files :
                  \/ Offer(t) \/ Close(t) \/ Begin(t) \/ Prepare(t) \/ TakeFlock(t) \/ Review(t) \/ WriteFile(t, f)
                  \/ Add(t) \/ Commit(t) \/ SaveCommit(t) \/ Ask(t) \/ SavePushed(t)
                  \/ Undo(t) \/ Unstage(t) \/ RestoreFile(t, f) \/ Restored(t)
                  \/ Finish(t) \/ Leave(t) \/ StopEnds(t)
                  \/ RecoverRead(t) \/ RecoverScan(t) \/ RecoverFile(t, f) \/ RecoverTell(t) \/ RecoverEnd(t)
            BY <1>2, <2>1, <2>3 DEF Owner, Execute, Recover, Stop
        <3> QED BY <3>1, OthersStutter
    <2> QED BY <2>2, <2>3
<1>3. ASSUME NEW f \in Files, DevPush(f) \/ HandEdit(f) PROVE UNCHANGED Ledger!ledger
    <2>1. CASE DevPush(f)
        BY <2>1, DevPublishesNothing DEF DevPush, LedgerInv, TypeOK, said, Ledger!ledger
    <2>2. CASE HandEdit(f)
        BY <2>2 DEF HandEdit, said, Ledger!ledger, Published
    <2> QED BY <1>3, <2>1, <2>2
<1>4. ASSUME Purge \/ Crash \/ Boot \/ Booted \/ Deploy \/ \E k \in Leases : Expire(k)
      PROVE  UNCHANGED Ledger!ledger
    BY <1>4 DEF Purge, Crash, Boot, Booted, Deploy, DeployReset, DeployEnd, Expire, said,
       Ledger!ledger, Published
<1> QED BY <1>1, <1>2, <1>3, <1>4 DEF Next

\* The executor implements the ledger as long as no stop separates phase 2
\* from the deploy lock and nobody edits a file it has just written
\* (execute_approved, _write_apply, _recover_one).
THEOREM PlanLedgerKept == ASSUME ~Stops, ~LateEdits PROVE Spec => LedgerKept
<1>1. Init => Ledger!Init
    <2> SUFFICES ASSUME Init PROVE Published = {}
        BY DEF Init, Ledger!Init
    <2> QED BY PlanAssumption DEF Init, Published, InBranch, BaseTree
<1>2. LedgerInv /\ [Next]_vars => [Ledger!Next]_(Ledger!ledger)
    BY NextMaps
<1>3. LedgerInv /\ [Next]_vars => LedgerInv'
    BY LedgerStep
<1> QED BY LedgerInit, <1>1, <1>2, <1>3, PTL DEF Spec, LedgerKept, Ledger!Spec


\* Under the same conditions "applied" is never said of a plan that is not on
\* origin (_report, _recover_one).
THEOREM PlanAppliedPushed == ASSUME ~Stops, ~LateEdits PROVE Spec => []AppliedMeansPushed
<1>1. Init => AppliedMeansPushed
    BY DEF Init, AppliedMeansPushed
<1>2. ASSUME LedgerInv, AppliedMeansPushed, [Next]_vars PROVE AppliedMeansPushed'
    <2>1. [Ledger!Next]_(Ledger!ledger)
        BY <1>2, NextMaps
    <2>2. CASE UNCHANGED Ledger!ledger
        BY <1>2, <2>2 DEF Ledger!ledger, AppliedMeansPushed
    <2>3. ASSUME NEW t \in Tokens, NEW v, Ledger!Decide(t, v) PROVE AppliedMeansPushed'
        BY <1>2, <2>3 DEF Ledger!Decide, AppliedMeansPushed
    <2>4. ASSUME NEW t \in Tokens, Ledger!Publish(t) PROVE AppliedMeansPushed'
        BY <1>2, <2>4 DEF Ledger!Publish, AppliedMeansPushed
    <2>5. ASSUME NEW t \in Tokens, NEW o, Ledger!Tell(t, o) PROVE AppliedMeansPushed'
        BY <1>2, <2>5 DEF Ledger!Tell, AppliedMeansPushed, LedgerInv, TypeOK, SaidType
    <2> QED BY <2>1, <2>2, <2>3, <2>4, <2>5 DEF Ledger!Next
<1>3. LedgerInv /\ [Next]_vars => LedgerInv'
    BY LedgerStep
<1> QED BY LedgerInit, <1>1, <1>2, <1>3, PTL DEF Spec
=============================================================================
