------------------------------ MODULE PlanExec ------------------------------
(***************************************************************************)
(* The executor of approved plans, agents/reja.py: offer, decision,        *)
(* execution in the deployed checkout (locks, two phases, roll-back) and   *)
(* the recovery at start, beside scripts/deploy.sh and the developers who  *)
(* push to the same branch.  A branch is the sequence of its trees, a tree *)
(* tells who last wrote each file, and a plan writes its token.            *)
(***************************************************************************)
EXTENDS Naturals, FiniteSets, SequencesExt

CONSTANTS
    Tokens,       \* plans offered
    Files,        \* files of the repository
    Touch,        \* Touch[t]: the files plan t edits
    MaxOutside,   \* bound: developers' commits, edits by hand, /reset
    MaxTrouble,   \* bound: failed writes, lost answers, deaths of the bot
    Stops,        \* systemd may stop the bot in the middle of phase 2
    MaxLate,      \* bound: edits by hand to a file the bot is replacing
    None

ASSUME PlanAssumption ==
    /\ Touch \in [Tokens -> SUBSET Files]
    /\ \A t \in Tokens : Touch[t] # {}
    /\ None \notin Tokens \cup {"bot", "deploy"}
    /\ {"base", "dev", "hand", "late"} \cap Tokens = {}

Contents == Tokens \cup {"base", "dev", "hand", "late"}
Trees == [Files -> Contents]

VARIABLES
    \* agents.kv_store
    offered, appr, run, done,
    lease,        \* sup_exec_lock: the owner (sup_exec_active, which goes with it, only
                  \* holds back the watcher that restarts the bot, a Crash here)
    \* state/sup_orig/<token>/state.json: stage, new_sha256 written, commit
    stage, marked, saved,
    seen,         \* the payload's hashes, and so the originals
    kept,         \* tokens whose originals were kept as .qoldiq
    \* git
    origin, head, idx, work,
    flock,        \* the deploy lock: None, "bot" or "deploy"
    \* the bot process
    mode, pc, holder, base, written, committed, todo, partial, recq,
    \* what was decided; what the owner was told, what is still to be told after a
    \* restart, whose answer was lost on the way
    verdict, told, unsent, mute,
    \* judged without knowing: the commit was not recorded, or origin was unread
    \* or had moved on
    blind,
    budget

kv == <<offered, appr, run, done>>
json == <<stage, marked, saved, seen, kept>>
repo == <<head, idx, work>>
local == <<holder, base, written, committed, todo, partial, recq>>
said == <<verdict, told, blind, mute, unsent>>
vars == <<kv, lease, json, origin, repo, flock, mode, pc, local, said, budget>>

Leases == {"lock"}

\* Phase 2 of an execution, from its second look at the preconditions on.
Writing == {"recheck", "write", "commit", "save", "push", "ask", "pushed",
            "undo", "unstage", "restore"}

\* A tree nobody has changed.
BaseTree == [f \in Files |-> "base"]

Init ==
    /\ offered = {} /\ appr = {} /\ run = {} /\ done = {}
    /\ lease = [k \in Leases |-> None]
    /\ stage = [t \in Tokens |-> "none"]
    /\ marked = {} /\ kept = {}
    /\ saved = [t \in Tokens |-> <<>>]
    /\ seen = [t \in Tokens |-> BaseTree]
    /\ origin = <<BaseTree>>
    /\ head = origin
    /\ idx = origin[1] /\ work = origin[1]
    /\ flock = None
    /\ mode = "up" /\ pc = [t \in Tokens |-> "idle"]
    /\ holder = None /\ base = <<>> /\ written = {} /\ committed = <<>>
    /\ todo = {} /\ partial = FALSE /\ recq = {}
    /\ verdict = [t \in Tokens |-> "open"]
    /\ told = [t \in Tokens |-> {}] /\ blind = {}
    /\ unsent = [t \in Tokens |-> {}] /\ mute = {}
    /\ budget = [outside |-> MaxOutside, late |-> MaxLate, trouble |-> MaxTrouble]

Spend(b) == budget[b] > 0 /\ budget' = [budget EXCEPT ![b] = @ - 1]
Go(t, s) == pc' = [pc EXCEPT ![t] = s]
Tip(s) == s[Len(s)]
\* The hashes go with the payload and the originals.
Forget(t) == seen' = [seen EXCEPT ![t] = BaseTree]
\* rmtree of the token's directory, or its renaming to .qoldiq.
Discard(t) ==
    /\ Forget(t)
    /\ stage' = [stage EXCEPT ![t] = "none"] /\ saved' = [saved EXCEPT ![t] = <<>>]
    /\ marked' = marked \ {t}
\* _release_deploy_lock, or the kernel's: the bot frees the lock if it has it.
Unlock == flock' = IF flock = "bot" THEN None ELSE flock
\* One bot, so one execution: the bot's thread outlives a stop.
Alive == mode \in {"up", "stopping"}

-----------------------------------------------------------------------------
(* Offer and decision *)

\* offer_plan: the payload with the hashes of its files, then the buttons.
Offer(t) ==
    /\ mode = "up" /\ t \notin offered
    /\ offered' = offered \cup {t} /\ appr' = appr \cup {t}
    /\ seen' = [seen EXCEPT ![t] = [f \in Files |-> IF f \in Touch[t] THEN work[f] ELSE "base"]]
    /\ UNCHANGED <<run, done, lease, stage, marked, saved, kept, origin, repo,
                   flock, mode, pc, local, said, budget>>

\* purge_pending: /reset forgets every payload.
Purge ==
    /\ mode = "up" /\ appr # {} /\ Spend("outside")
    /\ appr' = {}
    /\ UNCHANGED <<offered, run, done, lease, json, origin, repo, flock, mode, pc, local, said>>

\* kv_claim: INSERT ... ON CONFLICT DO NOTHING.
Claim_slip1(t) == t \notin done /\ run' = run \cup {t}
Claim(t) == t \notin run /\ run' = run \cup {t}

\* decide: one claim per token, whatever is pressed and however often.  An
\* offer that is gone, or older than APPROVAL_TTL_S, has lapsed.
Press(t, approve) ==
    /\ mode = "up" /\ t \in offered /\ pc[t] = "idle"
    /\ Claim(t)
    /\ \E v \in {"lapsed", IF approve THEN "approved" ELSE "rejected"} :
           /\ t \notin appr => v = "lapsed"
           /\ verdict' = [verdict EXCEPT ![t] = v]
           /\ Go(t, IF v = "approved" THEN "begin" ELSE "close")
    /\ UNCHANGED <<offered, appr, done, lease, json, origin, repo, flock, mode, local, told, blind, mute, unsent, budget>>

\* decide, a refusal or a lapsed offer: sup_done_ at once.
Close(t) ==
    /\ mode = "up" /\ pc[t] = "close"
    /\ \/ done' = done \cup {t} /\ appr' = appr \ {t} /\ Forget(t) /\ UNCHANGED budget
       \/ /\ Spend("trouble") /\ UNCHANGED <<done, seen>>
          /\ appr' = IF verdict[t] = "rejected" THEN appr \ {t} ELSE appr
    /\ Go(t, "idle")
    /\ UNCHANGED <<offered, run, lease, stage, marked, saved, kept, origin, repo, flock, mode,
                   local, said>>

-----------------------------------------------------------------------------
(* Execution *)

\* execute_approved: the asyncio lock, the lease; busy ends the plan.
Begin(t) ==
    /\ mode = "up" /\ pc[t] = "begin"
    /\ \/ holder # None /\ Go(t, "fail") /\ UNCHANGED <<holder, lease>>
       \/ /\ holder = None /\ holder' = t
          /\ IF lease["lock"] \in {None, t}
             THEN /\ lease' = [k \in Leases |-> IF lease[k] = None THEN t ELSE lease[k]]
                  /\ Go(t, "prepare")
             ELSE Go(t, "fail") /\ UNCHANGED lease
    /\ UNCHANGED <<kv, json, origin, repo, flock, mode, base, written, committed,
                   todo, partial, recq, said, budget>>

\* A lease is renewed every minute by its execution only: it runs out (or is
\* taken over, which is the same) once that is dead.
Expire(k) ==
    /\ lease[k] # None /\ (mode = "down" \/ pc[lease[k]] = "idle")
    /\ lease' = [lease EXCEPT ![k] = None]
    /\ UNCHANGED <<kv, json, origin, repo, flock, mode, pc, local, said, budget>>

\* _preconditions: nothing staged, the files clean and as previewed, HEAD on origin.
Preconditions(t) ==
    /\ idx = Tip(head)
    /\ \A f \in Touch[t] : work[f] = idx[f] /\ work[f] = seen[t][f]
    /\ origin = head

\* _prepare_apply, without the deploy lock: preconditions, originals saved,
\* checks on a copy.  Any of it may fail (an unreadable origin, tsc).
Prepare(t) ==
    /\ mode = "up" /\ pc[t] = "prepare"
    /\ \/ Go(t, "fail") /\ UNCHANGED <<stage, base>>
       \/ /\ Preconditions(t)
          /\ stage' = [stage EXCEPT ![t] = "applying"]
          /\ base' = head
          /\ pc' \in {[pc EXCEPT ![t] = s] : s \in {"flock", "fail"}}
    /\ UNCHANGED <<kv, lease, marked, saved, seen, kept, origin, repo, flock, mode, holder, written, committed, todo, partial, recq, said, budget>>

\* _acquire_deploy_lock: waits DEPLOY_LOCK_WAIT_S for a deploy at most.
TakeFlock(t) ==
    /\ mode = "up" /\ pc[t] = "flock"
    /\ \/ flock = None /\ flock' = "bot" /\ Go(t, "recheck")
       \/ flock = "deploy" /\ Go(t, "fail") /\ UNCHANGED flock
    /\ UNCHANGED <<kv, lease, json, origin, repo, mode, local, said, budget>>

\* _write_apply: the preconditions again, the same HEAD; new_sha256 recorded.
Recheck_slip1(t) == UNCHANGED marked
Recheck(t) == marked' = marked \cup {t}
Review(t) ==
    /\ Alive /\ pc[t] = "recheck"
    /\ \/ Go(t, "fail") /\ Unlock /\ UNCHANGED <<marked, written, committed, partial>>
       \/ /\ Preconditions(t) /\ head = base
          /\ Recheck(t)
          /\ written' = {} /\ committed' = <<>> /\ partial' = FALSE
          /\ Go(t, "write") /\ UNCHANGED flock
    /\ UNCHANGED <<kv, lease, stage, saved, seen, kept, origin, repo, mode, holder,
                   base, todo, recq, said, budget>>

\* One file: its bytes are compared with the original, then replaced; a late
\* edit falls between the two.
WriteFile(t, f) ==
    /\ Alive /\ pc[t] = "write" /\ f \in Touch[t] \ written
    /\ \/ /\ work[f] \in {seen[t][f], "late"}
          /\ work' = [work EXCEPT ![f] = t] /\ written' = written \cup {f}
          /\ UNCHANGED <<pc, budget>>
       \/ work[f] # seen[t][f] /\ Go(t, "undo") /\ UNCHANGED <<work, written, budget>>
       \/ Spend("trouble") /\ Go(t, "undo") /\ UNCHANGED <<work, written>>
    /\ UNCHANGED <<kv, lease, json, origin, head, idx, flock, mode, holder, base,
                   committed, todo, partial, recq, said>>

\* git add of each file, then diff --cached must name exactly the plan's files.
Add_slip1(t) ==
    /\ Alive /\ pc[t] = "write" /\ written = Touch[t]
    /\ idx' = work /\ Go(t, "commit")
    /\ UNCHANGED <<kv, lease, json, origin, head, work, flock, mode, local, said, budget>>
Add(t) ==
    /\ Alive /\ pc[t] = "write" /\ written = Touch[t]
    /\ idx' = [f \in Files |-> IF f \in Touch[t] THEN work[f] ELSE idx[f]]
    /\ Go(t, IF {f \in Files : idx'[f] # Tip(head)[f]} = Touch[t] THEN "commit" ELSE "undo")
    /\ UNCHANGED <<kv, lease, json, origin, head, work, flock, mode, local, said, budget>>

\* git commit, which refuses when nothing is staged any more.
Commit(t) ==
    /\ Alive /\ pc[t] = "commit"
    /\ \/ /\ idx # Tip(head)
          /\ head' = Append(head, idx) /\ committed' = head'
          /\ Go(t, "save") /\ UNCHANGED budget
       \/ /\ (idx = Tip(head) /\ UNCHANGED budget) \/ Spend("trouble")
          /\ Go(t, "undo") /\ UNCHANGED <<head, committed>>
    /\ UNCHANGED <<kv, lease, json, origin, idx, work, flock, mode, holder, base,
                   written, todo, partial, recq, said>>

\* state.json: stage committed; a failure to write it is only logged.
SaveCommit(t) ==
    /\ Alive /\ pc[t] = "save"
    /\ \/ /\ stage' = [stage EXCEPT ![t] = "committed"]
          /\ saved' = [saved EXCEPT ![t] = committed] /\ UNCHANGED <<blind, budget>>
       \/ Spend("trouble") /\ blind' = blind \cup {t} /\ UNCHANGED <<stage, saved>>
    /\ Go(t, "push")
    /\ UNCHANGED <<kv, lease, marked, seen, kept, origin, repo, flock, mode, local,
                   verdict, told, mute, unsent>>

\* git push origin main: pushes whatever HEAD is.  It may fail, or succeed
\* while its answer is lost.
Push(t) ==
    /\ Alive /\ pc[t] = "push"
    /\ \/ IsPrefix(origin, head) /\ origin' = head /\ Go(t, "pushed") /\ UNCHANGED budget
       \/ ~IsPrefix(origin, head) /\ Go(t, "ask") /\ UNCHANGED <<origin, budget>>
       \/ /\ Spend("trouble") /\ Go(t, "ask")
          /\ origin' \in {origin} \cup {h \in {head} : IsPrefix(origin, h)}
    /\ UNCHANGED <<kv, lease, json, repo, flock, mode, local, said>>

\* The push failed: ls-remote, which may fail too ("" is not the commit).
AskRemote_slip1(t) == Go(t, "pushed") /\ UNCHANGED <<blind, budget>>
AskRemote_slip2(t) == Go(t, "undo") /\ UNCHANGED <<blind, budget>>
AskRemote(t) ==
    \/ origin = committed /\ Go(t, "pushed") /\ UNCHANGED <<blind, budget>>
    \/ /\ \/ origin # committed /\ UNCHANGED budget
          \/ Spend("trouble")
       /\ Go(t, "undo")
       /\ blind' = IF IsPrefix(committed, origin) THEN blind \cup {t} ELSE blind
Ask(t) ==
    /\ Alive /\ pc[t] = "ask" /\ AskRemote(t)
    /\ UNCHANGED <<kv, lease, json, origin, repo, flock, mode, local,
                   verdict, told, mute, unsent>>

SavePushed(t) ==
    /\ Alive /\ pc[t] = "pushed"
    /\ \/ stage' = [stage EXCEPT ![t] = "pushed"] /\ UNCHANGED budget
       \/ Spend("trouble") /\ UNCHANGED stage
    /\ Unlock /\ Go(t, "ok")
    /\ UNCHANGED <<kv, lease, marked, saved, seen, kept, origin, repo, mode, local, said>>

-----------------------------------------------------------------------------
(* _rollback *)

\* git reset --soft HEAD~1, if HEAD still is the commit c.
Uncommitted_slip1(c) == IF c # <<>> THEN Front(head) ELSE head
Uncommitted(c) == IF head = c THEN Front(head) ELSE head

Undo(t) ==
    /\ Alive /\ pc[t] = "undo"
    /\ head' = Uncommitted(committed)
    /\ partial' = (committed # <<>> /\ head # committed)
    /\ Go(t, "unstage")
    /\ UNCHANGED <<kv, lease, json, origin, idx, work, flock, mode, holder, base,
                   written, committed, todo, recq, said, budget>>

\* git reset -q -- <files>
Unstaged(fs) == [f \in Files |-> IF f \in fs THEN Tip(head)[f] ELSE idx[f]]

Unstage(t) ==
    /\ Alive /\ pc[t] = "unstage"
    /\ idx' = Unstaged(written) /\ todo' = written
    /\ Go(t, "restore")
    /\ UNCHANGED <<kv, lease, json, origin, head, work, flock, mode, holder, base,
                   written, committed, partial, recq, said, budget>>

RestoreFile(t, f) ==
    /\ Alive /\ pc[t] = "restore" /\ f \in todo
    /\ \/ work' = [work EXCEPT ![f] = seen[t][f]] /\ UNCHANGED <<partial, budget>>
       \/ Spend("trouble") /\ partial' = TRUE /\ UNCHANGED work
    /\ todo' = todo \ {f}
    /\ UNCHANGED <<kv, lease, json, origin, head, idx, flock, mode, pc, holder, base,
                   written, committed, recq, said>>

\* _keep_backup moves the originals away when anything is not as it was.
Restored(t) ==
    /\ Alive /\ pc[t] = "restore" /\ todo = {}
    /\ IF partial \/ \E f \in written : work[f] # idx[f] \/ idx[f] # Tip(head)[f]
       THEN kept' = kept \cup {t} /\ Discard(t)
       ELSE UNCHANGED <<kept, stage, marked, saved, seen>>
    /\ Unlock /\ Go(t, "fail")
    /\ UNCHANGED <<kv, lease, origin, repo, mode, local, said, budget>>

-----------------------------------------------------------------------------
(* The end of an execution *)

\* A message to the owner: send_text swallows a failure, the answer is lost.
Send(t, o) ==
    \/ told' = [told EXCEPT ![t] = @ \cup {o}] /\ UNCHANGED <<mute, budget>>
    \/ Spend("trouble") /\ mute' = mute \cup {t} /\ UNCHANGED told

\* _report: whether the message goes out does not change what follows.
Report(t) ==
    /\ mode = "up" /\ pc[t] \in {"ok", "fail"}
    /\ Send(t, IF pc[t] = "ok" THEN "applied" ELSE "failed")
    /\ Go(t, "finish")
    /\ UNCHANGED <<kv, lease, json, origin, repo, flock, mode, local, verdict, blind, unsent>>

\* _finish: sup_done_, the offer and, if sup_done_ was written, the originals.
Finish(t) ==
    /\ mode = "up" /\ pc[t] = "finish"
    /\ appr' = appr \ {t}
    /\ \/ done' = done \cup {t} /\ Discard(t) /\ UNCHANGED budget
       \/ Spend("trouble") /\ UNCHANGED <<done, stage, marked, saved, seen>>
    /\ Go(t, "release")
    /\ UNCHANGED <<offered, run, lease, kept, origin, repo,
                   flock, mode, local, said>>

Freed(t) == [k \in Leases |-> IF lease[k] = t THEN None ELSE lease[k]]

Release_slip1(t) == lease' = Freed(t) /\ UNCHANGED holder
Release(t) == lease' = Freed(t) /\ holder' = IF holder = t THEN None ELSE holder
Leave(t) ==
    /\ mode = "up" /\ pc[t] = "release"
    /\ Release(t) /\ Go(t, "idle")
    /\ IF holder = t
       THEN base' = <<>> /\ written' = {} /\ committed' = <<>> /\ partial' = FALSE
       ELSE UNCHANGED <<base, written, committed, partial>>
    /\ UNCHANGED <<kv, json, origin, repo, flock, mode, todo, recq, said, budget>>

-----------------------------------------------------------------------------
(* Death and recovery of the bot *)

Idle == [t \in Tokens |-> "idle"]
Clean == /\ holder' = None /\ base' = <<>> /\ written' = {} /\ committed' = <<>>
         /\ todo' = {} /\ partial' = FALSE /\ recq' = {}

\* A kill, os._exit or power loss: the kernel frees the flock, the leases stay.
\* An answer recorded as given and not yet sent is lost.
Crash ==
    /\ mode # "down" /\ Spend("trouble")
    /\ mode' = "down" /\ pc' = Idle /\ Clean
    /\ Unlock
    /\ mute' = mute \cup {t \in done : unsent[t] # {}}
    /\ unsent' = [t \in Tokens |-> {}]
    /\ UNCHANGED <<kv, lease, json, origin, repo, verdict, told, blind>>

\* SIGTERM in phase 2: the coroutine is cancelled and frees flock and leases,
\* its thread runs on and the interpreter waits for it.
Stop(t) ==
    /\ Stops /\ mode = "up" /\ holder = t /\ pc[t] \in Writing /\ Spend("trouble")
    /\ mode' = "stopping" /\ pc' = [Idle EXCEPT ![t] = pc[t]]
    /\ Unlock /\ lease' = Freed(t)
    /\ UNCHANGED <<kv, json, origin, repo, local, said>>

StopEnds(t) ==
    /\ mode = "stopping" /\ pc[t] \in {"ok", "fail"}
    /\ mode' = "down" /\ pc' = Idle /\ Clean
    /\ UNCHANGED <<kv, lease, json, origin, repo, flock, said, budget>>

Interrupted == run \ done

Boot ==
    /\ mode = "down"
    /\ mode' = "boot" /\ recq' = Interrupted
    /\ UNCHANGED <<kv, lease, json, origin, repo, flock, pc, holder, base, written,
                   committed, todo, partial, said, budget>>

\* Polling starts once the answers of the recovery were sent.
Booted ==
    /\ mode = "boot" /\ recq = {} /\ mode' = "up"
    /\ \A t \in Tokens : unsent[t] = {}
    /\ UNCHANGED <<kv, lease, json, origin, repo, flock, pc, local, said, budget>>

\* _recover_one: what the stage and origin's tip say.  Not under the deploy lock.
RecoverRead(t) ==
    /\ mode = "boot" /\ t \in recq /\ pc = Idle
    /\ \/ stage[t] = "none" /\ Go(t, "lost") /\ UNCHANGED <<head, blind, budget>>
       \/ stage[t] = "pushed" /\ Go(t, "there") /\ UNCHANGED <<head, blind, budget>>
       \/ /\ stage[t] = "committed" /\ origin = saved[t]
          /\ Go(t, "there") /\ UNCHANGED <<head, blind, budget>>
       \/ /\ stage[t] = "committed"
          /\ \/ origin # saved[t] /\ UNCHANGED budget
             \/ Spend("trouble")
          /\ head' = Uncommitted(saved[t])
          /\ blind' = IF IsPrefix(saved[t], origin) THEN blind \cup {t} ELSE blind
          /\ Go(t, "scan")
       \/ stage[t] = "applying" /\ Go(t, "scan") /\ UNCHANGED <<head, blind, budget>>
    /\ partial' = FALSE
    /\ UNCHANGED <<kv, lease, json, origin, idx, work, flock, mode, holder, base,
                   written, committed, todo, recq, verdict, told, mute, unsent>>

\* _restore_from_state: only files that still have the bytes we wrote.
Ours_slip1(t) == Touch[t]
Ours(t) == {f \in Touch[t] : work[f] = t}

RecoverScan(t) ==
    /\ mode = "boot" /\ pc[t] = "scan"
    /\ IF t \in marked
       THEN /\ todo' = Ours(t)
            /\ partial' = (\E f \in Touch[t] : work[f] \notin {t, seen[t][f]})
            /\ idx' = Unstaged(Touch[t])
       ELSE todo' = {} /\ UNCHANGED <<partial, idx>>
    /\ Go(t, "recover")
    /\ UNCHANGED <<kv, lease, json, origin, head, work, flock, mode, holder, base,
                   written, committed, recq, said, budget>>

RecoverFile(t, f) ==
    /\ mode = "boot" /\ pc[t] = "recover" /\ f \in todo
    /\ \/ work' = [work EXCEPT ![f] = seen[t][f]] /\ UNCHANGED <<partial, budget>>
       \/ Spend("trouble") /\ partial' = TRUE /\ UNCHANGED work
    /\ todo' = todo \ {f}
    /\ UNCHANGED <<kv, lease, json, origin, head, idx, flock, mode, pc, holder, base,
                   written, committed, recq, said>>

\* The outcome joins the list recover_interrupted returns.
RecoverTell(t) ==
    /\ mode = "boot"
    /\ pc[t] \in {"lost", "there"} \/ (pc[t] = "recover" /\ todo = {})
    /\ unsent' = [unsent EXCEPT ![t] = {IF pc[t] = "there" THEN "applied" ELSE "failed"}]
    /\ Go(t, "recovered")
    /\ UNCHANGED <<kv, lease, json, origin, repo, flock, mode, local, verdict, told, blind, mute, budget>>

\* sup_done_, the offer, the originals, the leases; an exception leaves it all
\* to the next start.
RecoverEnd(t) ==
    /\ mode = "boot" /\ pc[t] = "recovered"
    /\ \/ /\ done' = done \cup {t} /\ appr' = appr \ {t}
          /\ Discard(t)
          /\ kept' = IF partial THEN kept \cup {t} ELSE kept
          /\ lease' = Freed(t) /\ UNCHANGED budget
       \/ Spend("trouble") /\ UNCHANGED <<done, appr, stage, marked, saved, seen, kept, lease>>
    /\ recq' = recq \ {t} /\ Go(t, "idle") /\ partial' = FALSE
    /\ UNCHANGED <<offered, run, origin, repo, flock, mode, holder, base, written, committed, todo, said>>

\* leader_bot.run: the owner is told when every token was recovered, and after
\* sup_done_ was written.
Announce(t) ==
    /\ mode = "boot" /\ recq = {} /\ pc = Idle
    /\ \E o \in unsent[t] : Send(t, o)
    /\ unsent' = [unsent EXCEPT ![t] = {}]
    /\ UNCHANGED <<kv, lease, json, origin, repo, flock, mode, pc, local, verdict, blind>>

-----------------------------------------------------------------------------
(* deploy.sh, developers, hands *)

\* flock -w 60, then git fetch and git reset --hard origin/main (which may
\* fail); the build holds the lock on.
DeployReset ==
    /\ flock = None /\ flock' = "deploy"
    /\ \/ head' = origin /\ idx' = Tip(origin) /\ work' = Tip(origin)
       \/ UNCHANGED repo
    /\ UNCHANGED <<kv, lease, json, origin, mode, pc, local, said, budget>>

DeployEnd ==
    /\ flock = "deploy" /\ flock' = None
    /\ UNCHANGED <<kv, lease, json, origin, repo, mode, pc, local, said, budget>>

DevPush(f) ==
    /\ Tip(origin)[f] # "dev" /\ Spend("outside")
    /\ origin' = Append(origin, [Tip(origin) EXCEPT ![f] = "dev"])
    /\ UNCHANGED <<kv, lease, json, repo, flock, mode, pc, local, said>>

\* The files whose bytes plan t has replaced and may still put back, and those
\* it may be replacing at this moment: _rollback and the end of the recovery put
\* back what they hold without looking again.
Held(t) ==
    CASE pc[t] \in {"restore", "recover"} -> todo
      [] pc[t] \in Writing \ {"recheck", "restore"} -> written
      [] OTHER -> {}
Replacing(t) == IF pc[t] = "write" THEN Touch[t] ELSE Held(t)

LateEdits == MaxLate > 0

\* An edit in the checkout, at any time.  One that meets a file held or being
\* replaced at that moment is a late one.
HandEdit(f) ==
    /\ work[f] \notin {"hand", "late"}
    /\ \/ /\ \A t \in Tokens : f \notin Held(t)
          /\ Spend("outside")
          /\ work' = [work EXCEPT ![f] = "hand"]
       \/ /\ \E t \in Tokens : f \in Replacing(t)
          /\ LateEdits /\ Spend("late")
          /\ work' = [work EXCEPT ![f] = "late"]
    /\ UNCHANGED <<kv, lease, json, origin, head, idx, flock, mode, pc, local, said>>

-----------------------------------------------------------------------------
Execute(t) ==
    \/ Close(t) \/ Begin(t) \/ Prepare(t) \/ TakeFlock(t) \/ Review(t)
    \/ \E f \in Files : WriteFile(t, f)
    \/ Add(t) \/ Commit(t) \/ SaveCommit(t) \/ Push(t) \/ Ask(t) \/ SavePushed(t)
    \/ Undo(t) \/ Unstage(t) \/ (\E f \in Files : RestoreFile(t, f)) \/ Restored(t)
    \/ Report(t) \/ Finish(t) \/ Leave(t) \/ StopEnds(t)

Recover(t) ==
    \/ RecoverRead(t) \/ RecoverScan(t) \/ (\E f \in Files : RecoverFile(t, f))
    \/ RecoverTell(t) \/ RecoverEnd(t) \/ Announce(t)

Owner(t) == Offer(t) \/ \E approve \in BOOLEAN : Press(t, approve)

Deploy == DeployReset \/ DeployEnd

Next ==
    \/ \E t \in Tokens : Owner(t) \/ Execute(t) \/ Stop(t) \/ Recover(t)
    \/ Purge \/ Crash \/ Boot \/ Booted \/ Deploy
    \/ \E k \in Leases : Expire(k)
    \/ \E f \in Files : DevPush(f) \/ HandEdit(f)

Spec == Init /\ [][Next]_vars

\* The bot's tasks run on, systemd restarts it, deploy.sh ends, time passes.
FairSpec ==
    /\ Spec
    /\ \A t \in Tokens : WF_vars(Execute(t)) /\ WF_vars(Recover(t))
    /\ WF_vars(Boot) /\ WF_vars(Booted) /\ WF_vars(DeployEnd)
    /\ \A k \in Leases : WF_vars(Expire(k))

-----------------------------------------------------------------------------
Steps == {"idle", "begin", "close", "prepare", "flock", "ok", "fail", "finish", "release",
          "lost", "there", "scan", "recover", "recovered"} \cup Writing

\* A recorded commit has a parent.
HasParent(s) == s # <<>> => Len(s) >= 2

StoreType == offered \subseteq Tokens /\ appr \subseteq Tokens /\ run \subseteq Tokens /\ done \subseteq Tokens
LeaseType == lease \in [Leases -> Tokens \cup {None}]
JsonType ==
    /\ stage \in [Tokens -> {"none", "applying", "committed", "pushed"}]
    /\ marked \subseteq Tokens /\ kept \subseteq Tokens /\ seen \in [Tokens -> Trees]
    /\ saved \in [Tokens -> Seq(Trees)] /\ \A t \in Tokens : HasParent(saved[t])
RepoType ==
    /\ origin \in Seq(Trees) \ {<<>>} /\ head \in Seq(Trees) \ {<<>>}
    /\ idx \in Trees /\ work \in Trees
ProcType ==
    /\ flock \in {None, "bot", "deploy"} /\ mode \in {"up", "boot", "down", "stopping"}
    /\ pc \in [Tokens -> Steps] /\ holder \in Tokens \cup {None}
LocalType ==
    /\ base \in Seq(Trees) /\ committed \in Seq(Trees) /\ HasParent(committed)
    /\ written \subseteq Files /\ todo \subseteq Files /\ partial \in BOOLEAN
    /\ recq \subseteq Tokens
SaidType ==
    /\ verdict \in [Tokens -> {"open", "approved", "rejected", "lapsed"}]
    /\ told \in [Tokens -> SUBSET {"applied", "failed"}] /\ blind \subseteq Tokens
    /\ unsent \in [Tokens -> SUBSET {"applied", "failed"}] /\ mute \subseteq Tokens

\* Type correctness of the store, the originals, the repository, the process.
TypeOK ==
    /\ StoreType /\ LeaseType /\ JsonType /\ RepoType /\ ProcType /\ LocalType /\ SaidType

\* The plans whose bytes are in a branch.
InBranch(s) == {t \in Tokens : \E i \in 1..Len(s) : \E f \in Files : s[i][f] = t}
Published == InBranch(origin)

\* Every commit that reaches origin is a developer's or one approved plan
\* applied to its parent, all its files and nothing else, and no plan twice:
\* half a plan, another's staged or hand-made change, a leftover commit of
\* a failed plan never ride along (_preconditions, diff --cached, the claim).
WholePlansPushed ==
    LET By(i, t) == origin[i] = [f \in Files |-> IF f \in Touch[t] THEN t ELSE origin[i - 1][f]]
        ByDev(i) == \E f \in Files : origin[i] = [origin[i - 1] EXCEPT ![f] = "dev"]
        Commits == 2..Len(origin)
    IN  /\ \A i \in Commits : ByDev(i) \/ \E t \in Tokens : verdict[t] = "approved" /\ By(i, t)
        /\ \A i, j \in Commits : \A t \in Tokens : By(i, t) /\ By(j, t) => i = j

\* "Applied" is said, at once or after a restart, only of a plan on origin.
AppliedMeansPushed == \A t \in Tokens : "applied" \in told[t] => t \in Published

\* "Failed" is said only of a plan that is not on origin, whichever step failed
\* or was cut off and whatever later plans push, with two exceptions (blind):
\* origin could not be read or had moved on when it was asked (_remote_sha,
\* _recover_one), and the commit was made but the state file that should name
\* it could not be written (the swallowed OSError after git commit).
FailedMeansAbsent ==
    \A t \in Tokens : "failed" \in told[t] => t \in blind \/ t \notin Published

\* A plan that failed leaves no byte in the checkout once its end is recorded,
\* unless its originals were kept for a human: after a roll-back, after a
\* crash in the middle of one, and after a crash in the recovery.
NoResidue ==
    \A t \in Tokens :
        /\ mode = "up" /\ t \in done /\ pc[t] = "idle"
        /\ t \notin kept \cup Published
        => \A f \in Files : work[f] # t

\* An edit by hand is overwritten by deploy.sh only: neither by an execution
\* that found the file clean before (the second look, the byte comparison before
\* each write), nor by its roll-back (which puts back what it wrote), nor by a
\* recovery after a crash (_restore_from_state compares with new_sha256).  It
\* does not speak of a late edit: one to a file the plan has already written,
\* or between comparison and replacement, which _rollback does overwrite.
HandEditKept ==
    [][\A f \in Files : work[f] = "hand" /\ work'[f] # "hand"
        => flock = None /\ flock' = "deploy"]_vars


\* No plan locks the others out for ever, however it ended.
NotLockedOut == []<>(holder = None /\ lease["lock"] = None)

\* The executor implements the ledger its owner is promised.
Ledger == INSTANCE PlanLedger WITH published <- Published
LedgerKept == Ledger!Spec
=============================================================================
