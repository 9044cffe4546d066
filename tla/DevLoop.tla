------------------------------- MODULE DevLoop -------------------------------
(***************************************************************************)
(* One task's convergence loop (orchestrator/loop.py, Orchestrator) with   *)
(* the git trees it lives in and the people and failures around it.        *)
(*                                                                         *)
(* The loop keeps no state of its own between phases: it derives the next  *)
(* phase by replaying the iteration log, runs the phase, appends one entry *)
(* and commits.  What survives a kill is therefore exactly the files:      *)
(*   wt    the task's working tree on the VPS, uncommitted edits included, *)
(*   head  the tree committed on the task branch in that worktree,         *)
(*   hub   the tree of the task branch on the hub (origin).                *)
(* A tree holds the log, the version of the code outside the task's own    *)
(* lane, the risk and blockers of the stored review verdicts, and the      *)
(* recorded merge decision.  gitdiff.code_sha reads HEAD, so the sha a     *)
(* gate entry is keyed to is head.code, whatever the agent saw in wt.      *)
(*                                                                         *)
(* Steps are cut where the process can die with a different disk: after    *)
(* the agent or gate ran (and its verdict file was written), after the log *)
(* append, after the commit, and after each step of the finalizing tail.   *)
(*                                                                         *)
(* Modelled elsewhere or left out: sessions and prompts (data), the        *)
(* quota_exhausted / quota_resumed entries (no replay function reads them) *)
(* and the summary, handback and state files (the lane only).  Agents edit *)
(* the tree, as any role may, but do not commit: the orchestrator does.    *)
(***************************************************************************)
EXTENDS LogReplay

CONSTANTS
    WithExplorer,    \* "explorer" in the task's roles
    Risks,           \* risk levels a review verdict may declare
    InvariantCodes,  \* code versions whose diff touches invariant tests
    StopCodes,       \* code versions whose diff alone makes the policy stop
    MaxCode,         \* bound: code versions beyond the base version 0
    Budget           \* bounds: how often each external event may happen

ExternalEvents == {"kill", "fault", "quota", "resume", "rebuild", "dpush"}

ASSUME DevLoopAssumption ==
    /\ WithExplorer \in BOOLEAN
    /\ Risks \subseteq {"low", "medium", "high"}
    /\ Risks # {}
    /\ InvariantCodes \subseteq Nat
    /\ StopCodes \subseteq Nat
    /\ MaxCode \in Nat
    /\ Budget \in [ExternalEvents -> Nat]

VARIABLES
    pc,        \* where the loop process is; "idle" = no loop process
    job,       \* the entry the phase in progress is about to append
    fin,       \* the terminal state the finalizing tail is recording
    wt,        \* working tree
    head,      \* committed tree
    hub,       \* pushed tree
    behind,    \* the hub branch holds a commit head does not contain
    director,  \* where the Director's --phase resume process is
    told,      \* <<episode, state>> of every terminal notification sent
    pinged,    \* the current or last loop process notified
    exit,      \* how the last loop process ended
    nextCode,  \* the next fresh code version
    left       \* external events still allowed

vars == <<pc, job, fin, wt, head, hub, behind, director, told, pinged, exit,
          nextCode, left>>
trees == <<wt, head, hub, behind>>
people == <<director, told>>
process == <<job, fin>>
status == <<pinged, exit>>

NoRisk == "none"
NoDecision == "none"

Tree == [log : Seq(Entry), code : Nat, rw1risk : Risks \cup {NoRisk},
         rw2risk : Risks \cup {NoRisk}, rw2blocks : BOOLEAN,
         merge : MergeDecisions \cup {NoDecision}]

\* The tree of origin/<default branch>: no log, no verdicts.
BaseTree == [log |-> <<>>, code |-> 0, rw1risk |-> NoRisk, rw2risk |-> NoRisk,
             rw2blocks |-> FALSE, merge |-> NoDecision]

NoJob == Plain("terminal", "ok")

CaughtPcs == {"explore", "top", "append", "commit", "fin_commit", "fin_push",
              "fin_notify", "fin_pushok", "fin_marker", "fin_mcommit", "fin_mpush"}
ErrorPcs == {"err_append", "err_commit", "err_notify"}
AdoptPcs == {"adopt_append", "adopt_commit"}
RunPcs == CaughtPcs \cup ErrorPcs \cup AdoptPcs
Pcs == RunPcs \cup {"idle"}

Init ==
    /\ pc = "idle"
    /\ job = NoJob
    /\ fin = NoState
    /\ wt = BaseTree
    /\ head = BaseTree
    /\ hub = BaseTree
    /\ behind = FALSE
    /\ director = "none"
    /\ told = {}
    /\ pinged = FALSE
    /\ exit = "none"
    /\ nextCode = 1
    /\ left = Budget

Logged(tree, e) == [tree EXCEPT !.log = Append(@, e)]

Spend(event) == left[event] > 0 /\ left' = [left EXCEPT ![event] = @ - 1]

\* The agent leaves the code as it is or edits it into a fresh version.
AgentLeaves(code) ==
    \/ code = wt.code /\ UNCHANGED nextCode
    \/ nextCode <= MaxCode /\ code = nextCode /\ nextCode' = nextCode + 1

-----------------------------------------------------------------------------
(* Choosing the phase *)

\* declared_risk_from_verdicts = "high"
DeclaredRiskHigh(tree) == "high" \in {tree.rw1risk, tree.rw2risk}

override_phase(phase) ==
    IF ~WithRw2 THEN phase
    ELSE IF phase = "developer" /\ nonconvergence_detected(wt.log)
         THEN IF senior_ran(wt.log) THEN "deadlock" ELSE "senior"
    ELSE IF /\ phase \in {"authoritative", "push"}
            /\ ~senior_ran(wt.log)
            /\ DeclaredRiskHigh(wt) \/ head.code \in InvariantCodes
         THEN "senior"
    ELSE phase

\* The phase the while-loop of _run_phases runs next.
Phase ==
    LET derived == derive_resume_point(wt.log)
    IN  IF ResumeForcesDeveloper(wt.log, derived) THEN "developer"
        ELSE override_phase(derived)

At(phase) == pc = "top" /\ Phase = phase

-----------------------------------------------------------------------------
(* Phases: agent or gate, then append, then commit *)

\* The agent or gate of a phase has run, leaving the tree and the entry.
RanPhase(tree, entry) ==
    /\ wt' = tree
    /\ job' = entry
    /\ pc' = "append"
    /\ UNCHANGED <<fin, head, hub, behind, people, status, left>>

\* Mutant: the verdict is keyed to the tree the agent leaves behind.
LateVerdict(action, outcome, fp) ==
    [Plain(action, outcome) EXCEPT !.sha = wt'.code, !.seen = wt.code, !.fp = fp]

Verdict(action, outcome, fp) ==
    [Plain(action, outcome) EXCEPT !.sha = head.code, !.seen = wt.code, !.fp = fp]

RunExplorer ==
    /\ pc = "explore"
    /\ \E outcome \in {"ok", "error"}, code \in 0 .. MaxCode :
          /\ AgentLeaves(code)
          /\ RanPhase([wt EXCEPT !.code = code], Plain("explorer", outcome))

RunDeveloper ==
    /\ At("developer")
    /\ \E outcome \in {"ok", "error"}, code \in 0 .. MaxCode :
          /\ AgentLeaves(code)
          /\ RanPhase([wt EXCEPT !.code = code], Plain("developer", outcome))

RunFastTests ==
    /\ At("fast_tests")
    /\ \/ RanPhase(wt, [Plain("fast_tests", "pass") EXCEPT !.seen = wt.code])
       \/ \E fp \in Fps :
             RanPhase(wt, [Plain("fast_tests", "fail") EXCEPT !.seen = wt.code, !.fp = fp])
    /\ UNCHANGED nextCode

\* rw1: three malformed answers leave no verdict; otherwise the verdict
\* file is written before the entry that announces it.
RunRw1 ==
    /\ At("rw1")
    /\ \E code \in 0 .. MaxCode :
          /\ AgentLeaves(code)
          /\ \/ RanPhase([wt EXCEPT !.code = code], Plain("rw1", "malformed"))
             \/ \E risk \in Risks, outcome \in {"approved", "changes_requested"} :
                   RanPhase([wt EXCEPT !.code = code, !.rw1risk = risk],
                            Verdict("rw1", outcome, NoFp))

RunRw2 ==
    /\ At("rw2")
    /\ \E code \in 0 .. MaxCode :
          /\ AgentLeaves(code)
          /\ \/ RanPhase([wt EXCEPT !.code = code], Plain("rw2", "malformed"))
             \/ \E risk \in Risks :
                   RanPhase([wt EXCEPT !.code = code, !.rw2risk = risk, !.rw2blocks = FALSE],
                            Verdict("rw2", "go", NoFp))
             \/ \E risk \in Risks, fp \in Fps :
                   RanPhase([wt EXCEPT !.code = code, !.rw2risk = risk, !.rw2blocks = TRUE],
                            Verdict("rw2", "nogo", fp))

\* The Docker gate clones the worktree at code_sha: it never sees
\* uncommitted edits.  Flaky: this sha failed the gate before, passes now.
RunAuthoritative ==
    /\ At("authoritative")
    /\ LET failedBefore == \E i \in Where(wt.log, {"authoritative"}) :
                              wt.log[i].sha = head.code /\ wt.log[i].outcome = "fail"
           result(outcome) == [Plain("authoritative", outcome) EXCEPT
                                  !.sha = head.code, !.seen = head.code]
       IN  \/ RanPhase(wt, [result("pass") EXCEPT !.flaky = failedBefore])
           \/ \E fp \in Fps : RanPhase(wt, [result("fail") EXCEPT !.fp = fp])
    /\ UNCHANGED nextCode

\* A senior whose output stays malformed is recorded as a deadlock.
RunSenior ==
    /\ At("senior")
    /\ \E code \in 0 .. MaxCode :
          /\ AgentLeaves(code)
          /\ \/ RanPhase([wt EXCEPT !.code = code], Plain("senior", "deadlock"))
             \/ \E outcome \in {"approved", "changes_requested"} :
                   RanPhase([wt EXCEPT !.code = code], Verdict("senior", outcome, NoFp))

AppendEntry ==
    /\ pc \in {"append", "adopt_append"}
    /\ wt' = Logged(wt, job)
    /\ job' = NoJob
    /\ pc' = IF pc = "append" THEN "commit" ELSE "adopt_commit"
    /\ UNCHANGED <<fin, head, hub, behind, people, status, nextCode, left>>

\* After a code-ready adoption run() starts: explorer first, if not yet run.
LoopEntry == IF WithExplorer /\ Where(wt.log, {"explorer"}) = {} THEN "explore" ELSE "top"

CommitEntry ==
    /\ pc \in {"commit", "adopt_commit"}
    /\ head' = wt
    /\ pc' = IF pc = "commit" THEN "top" ELSE LoopEntry
    /\ UNCHANGED <<process, wt, hub, behind, people, status, nextCode, left>>

-----------------------------------------------------------------------------
(* The end of a run: decide, then the finalizing tail *)

\* Mutant: only the authoritative gate is asked.
GateOnlyDecision ==
    IF AuthoritativeOk(wt.log, head.code) THEN "auto_merge" ELSE "stop_before_merge"

\* _decide_merge: policy reasons about the diff are a function of the code
\* version (StopCodes); the rest is replayed from the log and the verdicts.
Decision ==
    IF /\ GatesGreen(wt.log, head.code)
       /\ ~DeclaredRiskHigh(wt)
       /\ \A i \in Where(wt.log, {"senior"}) : wt.log[i].outcome # "deadlock"
       /\ head.code \notin StopCodes
    THEN "auto_merge" ELSE "stop_before_merge"

\* Enter _finalize with the given state.
Finalize(state) == fin' = state /\ pc' = "fin_commit"

DecideMerge ==
    /\ At("push")
    /\ wt' = [wt EXCEPT !.merge = Decision]
    /\ Finalize(MergeDecided(Decision))
    /\ UNCHANGED <<job, head, hub, behind, people, status, nextCode, left>>

CapReached ==
    /\ At("cap_reached")
    /\ Finalize("CAP_REACHED")
    /\ UNCHANGED <<job, trees, people, status, nextCode, left>>

Deadlocked ==
    /\ At("deadlock")
    /\ Finalize("ESCALATED_DEADLOCK")
    /\ UNCHANGED <<job, trees, people, status, nextCode, left>>

\* The push-ok entry exists but no terminal marker: record it again, commit
\* and push, without a second notification.
Done ==
    /\ At("done")
    /\ fin' = IF wt.merge = NoDecision THEN "PUSHED" ELSE MergeDecided(wt.merge)
    /\ pc' = "fin_marker"
    /\ UNCHANGED <<job, trees, people, status, nextCode, left>>

\* An agent's quota waits exceed the run's budget, after any edits it made.
QuotaTimeout ==
    /\ pc = "explore" \/ (pc = "top" /\ Phase \in {"developer", "rw1", "rw2", "senior"})
    /\ Spend("quota")
    /\ \E code \in 0 .. MaxCode :
          AgentLeaves(code) /\ wt' = [wt EXCEPT !.code = code]
    /\ Finalize("QUOTA_TIMEOUT")
    /\ UNCHANGED <<job, head, hub, behind, people, status>>

\* Mutant: the tail does not push before it records the push.
FinalCommitUnpushed ==
    /\ pc = "fin_commit"
    /\ head' = wt
    /\ pc' = "fin_notify"
    /\ UNCHANGED <<process, wt, hub, behind, people, status, nextCode, left>>

FinalCommit ==
    /\ pc = "fin_commit"
    /\ head' = wt
    /\ pc' = IF Pushes(fin) THEN "fin_push" ELSE "fin_notify"
    /\ UNCHANGED <<process, wt, hub, behind, people, status, nextCode, left>>

\* Mutant: the marker comes before the notification, which a kill loses.
FinalPushUntold ==
    /\ pc = "fin_push"
    /\ ~behind
    /\ hub' = head
    /\ pc' = "fin_marker"
    /\ UNCHANGED <<process, wt, head, behind, people, status, nextCode, left>>

\* git push HEAD:refs/heads/<task>: refused unless it fast-forwards.
FinalPush ==
    /\ pc = "fin_push"
    /\ ~behind
    /\ hub' = head
    /\ pc' = "fin_notify"
    /\ UNCHANGED <<process, wt, head, behind, people, status, nextCode, left>>

Notify(state) ==
    /\ told' = told \cup {<<Episode(wt.log), state>>}
    /\ pinged' = TRUE

FinalNotify ==
    /\ pc = "fin_notify"
    /\ Notify(fin)
    /\ pc' = IF Succeeded(fin) THEN "fin_pushok" ELSE "fin_marker"
    /\ UNCHANGED <<process, trees, director, exit, nextCode, left>>

RecordPushOk ==
    /\ pc = "fin_pushok"
    /\ wt' = Logged(wt, Plain("push", "ok"))
    /\ pc' = "fin_marker"
    /\ UNCHANGED <<process, head, hub, behind, people, status, nextCode, left>>

RecordMarker ==
    /\ pc = "fin_marker"
    /\ wt' = Logged(wt, Plain("terminal", fin))
    /\ pc' = "fin_mcommit"
    /\ UNCHANGED <<process, head, hub, behind, people, status, nextCode, left>>

\* The loop process is gone.
Exit(how) == pc' = "idle" /\ job' = NoJob /\ fin' = NoState /\ exit' = how

MarkerCommit ==
    /\ pc = "fin_mcommit"
    /\ head' = wt
    /\ IF Pushes(fin)
       THEN pc' = "fin_mpush" /\ UNCHANGED <<process, exit>>
       ELSE Exit("returned")
    /\ UNCHANGED <<wt, hub, behind, people, pinged, nextCode, left>>

MarkerPush ==
    /\ pc = "fin_mpush"
    /\ ~behind
    /\ hub' = head
    /\ Exit("returned")
    /\ UNCHANGED <<wt, head, behind, people, pinged, nextCode, left>>

-----------------------------------------------------------------------------
(* Exceptions *)

\* Any exception inside run() other than a quota timeout reaches
\* _internal_error, except one raised by the tail that the quota handler
\* itself is running, or by the adoption before run(): those leave main().
Uncaught == fin = "QUOTA_TIMEOUT" \/ pc \in AdoptPcs

\* The exception ends the run: unhandled, or through _internal_error.
Raise ==
    /\ IF Uncaught
       THEN Exit("raised")
       ELSE pc' = "err_append" /\ job' = NoJob /\ fin' = NoState /\ UNCHANGED exit
    /\ UNCHANGED <<trees, people, pinged, nextCode>>

\* Any step may fail for a reason in the environment (git, disk, agent).
StepFails ==
    /\ pc \in CaughtPcs \cup AdoptPcs
    /\ Spend("fault")
    /\ Raise

\* A push that does not fast-forward fails, every time it is tried.
PushRefused ==
    /\ pc \in {"fin_push", "fin_mpush"}
    /\ behind
    /\ Raise
    /\ UNCHANGED left

\* _internal_error guards each side effect on its own, so a broken tree
\* still lets the notification out.  A second INTERNAL_ERROR directly after
\* one changes nothing that is replayed and is not logged again here.
ErrorAppend ==
    /\ pc = "err_append"
    /\ \/ /\ LET n == Len(wt.log)
                 e == Plain("terminal", "INTERNAL_ERROR")
             IN  wt' = IF n > 0 /\ wt.log[n] = e THEN wt ELSE Logged(wt, e)
          /\ UNCHANGED left
       \/ Spend("fault") /\ UNCHANGED wt
    /\ pc' = "err_commit"
    /\ UNCHANGED <<process, head, hub, behind, people, status, nextCode>>

ErrorCommit ==
    /\ pc = "err_commit"
    /\ \/ head' = wt /\ UNCHANGED left
       \/ Spend("fault") /\ UNCHANGED head
    /\ pc' = "err_notify"
    /\ UNCHANGED <<process, wt, hub, behind, people, status, nextCode>>

\* Mutant: an internal error ends the run without a word.
ErrorSilent ==
    /\ pc = "err_notify"
    /\ Exit("returned")
    /\ UNCHANGED <<trees, people, pinged, nextCode, left>>

ErrorNotify ==
    /\ pc = "err_notify"
    /\ Notify("INTERNAL_ERROR")
    /\ Exit("returned")
    /\ UNCHANGED <<trees, director, nextCode, left>>

\* The process is killed (or the machine reboots): the disk stays.
Kill ==
    /\ pc # "idle"
    /\ Spend("kill")
    /\ Exit("killed")
    /\ UNCHANGED <<trees, people, pinged, nextCode>>

-----------------------------------------------------------------------------
(* Starting a run *)

\* Mutant: a retryable terminal is returned like a sticky one.
KickoffOnce ==
    /\ pc = "idle"
    /\ last_terminal_state(wt.log) = NoState
    /\ pc' = LoopEntry
    /\ pinged' = FALSE
    /\ exit' = "none"
    /\ UNCHANGED <<process, trees, people, nextCode, left>>

\* Mutant: a finished task is run like any other.
KickoffFinished ==
    /\ pc = "idle"
    /\ pc' = LoopEntry
    /\ pinged' = FALSE
    /\ exit' = "none"
    /\ UNCHANGED <<process, trees, people, nextCode, left>>

\* run(): nothing happens when the log already records a sticky terminal.
Kickoff ==
    /\ pc = "idle"
    /\ recorded_terminal(wt.log) = NoState
    /\ pc' = LoopEntry
    /\ pinged' = FALSE
    /\ exit' = "none"
    /\ UNCHANGED <<process, trees, people, nextCode, left>>

\* _adopt_code_ready: a fresh task whose hub branch holds finished code
\* syncs to it and records it as the first developer round.
KickoffCodeReady ==
    /\ pc = "idle"
    /\ Where(wt.log, {"developer"}) = {}
    /\ last_terminal_state(wt.log) = NoState
    /\ hub.code # BaseTree.code
    /\ wt' = hub /\ head' = hub /\ behind' = FALSE
    /\ job' = Plain("developer", "ok")
    /\ pc' = "adopt_append"
    /\ pinged' = FALSE
    /\ exit' = "none"
    /\ UNCHANGED <<fin, hub, people, nextCode, left>>

-----------------------------------------------------------------------------
(* The Director and the hub *)

\* --phase resume, up to the hard reset onto the hub branch.  The guard is
\* the whole validation of _phase_resume: the run lock is only taken later,
\* by the loop the resume starts.
ResumeSync ==
    /\ director = "none"
    /\ Spend("resume")
    /\ clears_terminal("director_resume", last_terminal_state(wt.log))
    /\ wt' = hub /\ head' = hub /\ behind' = FALSE
    /\ director' = "append"
    /\ exit' = "none"
    /\ UNCHANGED <<pc, process, hub, told, pinged, nextCode>>

ResumeAppend ==
    /\ director = "append"
    /\ wt' = Logged(wt, Plain("director_resume", "ok"))
    /\ director' = "commit"
    /\ UNCHANGED <<pc, process, head, hub, behind, told, status, nextCode, left>>

\* After this commit the resume runs the loop, which is a Kickoff if the
\* run lock is free.
ResumeCommit ==
    /\ director = "commit"
    /\ head' = wt
    /\ director' = "none"
    /\ UNCHANGED <<pc, process, wt, hub, behind, told, status, nextCode, left>>

ResumeKilled ==
    /\ director # "none"
    /\ Spend("kill")
    /\ director' = "none"
    /\ UNCHANGED <<pc, process, trees, told, status, nextCode>>

\* The Director pushes a commit (a corrected spec, finished code) to the
\* task branch from another clone.
DirectorPush ==
    /\ nextCode <= MaxCode
    /\ Spend("dpush")
    /\ hub' = [hub EXCEPT !.code = nextCode]
    /\ behind' = TRUE
    /\ nextCode' = nextCode + 1
    /\ UNCHANGED <<pc, process, wt, head, people, status>>

\* The VPS is replaced: the worktree is cut anew from the hub branch, or
\* from the default branch when the task was never pushed.
Rebuild ==
    /\ pc = "idle"
    /\ director = "none"
    /\ Spend("rebuild")
    /\ wt' = hub /\ head' = hub /\ behind' = FALSE
    /\ exit' = "none"
    /\ UNCHANGED <<pc, process, hub, people, pinged, nextCode>>

-----------------------------------------------------------------------------
(* The specification *)

LoopStep ==
    \/ RunExplorer \/ RunDeveloper \/ RunFastTests \/ RunRw1 \/ RunRw2
    \/ RunAuthoritative \/ RunSenior \/ AppendEntry \/ CommitEntry
    \/ DecideMerge \/ CapReached \/ Deadlocked \/ Done
    \/ FinalCommit \/ FinalPush \/ FinalNotify \/ RecordPushOk
    \/ RecordMarker \/ MarkerCommit \/ MarkerPush \/ PushRefused
    \/ ErrorAppend \/ ErrorCommit \/ ErrorNotify

Interruption == QuotaTimeout \/ StepFails \/ Kill \/ ResumeKilled

ResumeStep == ResumeAppend \/ ResumeCommit

\* The discipline the documents ask of the Director: one command at a time
\* for a task, the next one when the process of the last has ended; a task
\* whose branch was pushed to is restarted by a command that syncs it.
Attended == pc = "idle" /\ director = "none"

Next ==
    \/ LoopStep
    \/ Interruption
    \/ ResumeStep
    \/ Attended /\ ~behind /\ Kickoff
    \/ Attended /\ KickoffCodeReady
    \/ Attended /\ ResumeSync
    \/ DirectorPush
    \/ Rebuild

Spec == Init /\ [][Next]_vars

\* Fairness: a live process takes its next step, an aborted resume is not
\* abandoned half way, and somebody (the queue, the Director told by the
\* notification) starts a task that is not finished again.
Progress ==
    /\ WF_vars(LoopStep)
    /\ WF_vars(ResumeStep)
    /\ WF_vars(Attended /\ ~behind /\ Kickoff)

FairSpec == Spec /\ Progress

-----------------------------------------------------------------------------
(* Properties *)

\* The types of all variables, the run's bounds included.
TypeOK ==
    /\ pc \in Pcs
    /\ job \in Entry
    /\ fin \in TerminalStates \cup {NoState}
    /\ wt \in Tree /\ head \in Tree /\ hub \in Tree
    /\ behind \in BOOLEAN
    /\ director \in {"none", "append", "commit"}
    /\ told \subseteq Nat \X TerminalStates
    /\ pinged \in BOOLEAN
    /\ exit \in {"none", "returned", "raised", "killed"}
    /\ nextCode \in Nat
    /\ left \in [ExternalEvents -> Nat]

\* A gate entry keyed to the code a tree holds was given on that very code,
\* in the working, the committed and the pushed tree: neither uncommitted
\* edits, nor edits a reviewer makes while reviewing, nor a crash between
\* entry and commit lets an approval apply to code nobody looked at
\* (loop._run_rw1/_run_rw2/_run_senior reading gitdiff.code_sha, and
\* gate_states_from_log comparing it with the code_sha being merged).
BoundTo(tree) ==
    \A i \in DOMAIN tree.log :
        tree.log[i].sha = tree.code => tree.log[i].seen = tree.code

ApprovalsBindCode == BoundTo(wt) /\ BoundTo(head) /\ BoundTo(hub)

\* Whatever the interleaving of reviews, overrides, crashes and resumes, a
\* completed push is backed, since the last developer round, by an
\* authoritative pass that comes last, after either a senior approval or the
\* whole chain fast tests, rw1, rw2 in this order (loop._run_phases).
FullyGated(log) ==
    \A p \in Where(log, {"push"}) :
        LET prior == {i \in Where(log, PhaseActions) : i < p}
            start == Latest({i \in prior : log[i].action = "developer"})
            gate(action, outcome) ==
                {i \in prior : i > start /\ log[i].action = action
                                         /\ log[i].outcome = outcome}
        IN  /\ Latest(prior) \in gate("authoritative", "pass")
            /\ \/ gate("senior", "approved") # {}
               \/ \E f \in gate("fast_tests", "pass"), r \in gate("rw1", "approved") :
                     /\ f < r
                     /\ WithRw2 => \E g \in gate("rw2", "go") : r < g

PushFullyGated == FullyGated(wt.log) /\ FullyGated(hub.log)

\* The auto-merge decision that is announced and recorded speaks of the code
\* that was pushed: its gates are green for exactly that version (loop.
\* _decide_merge, policy.merge_decision: "all three gates on the CURRENT HEAD
\* SHA").
AutoMergeEarned ==
    fin = "MERGE_DECIDED:auto_merge" /\ pc \in {"fin_notify", "fin_pushok", "fin_marker"}
        => GatesGreen(head.log, head.code)

\* The same as long as no process was killed and no step failed: reviewers
\* who edit while reviewing, director resumes and commits from other clones
\* never leave an auto-merge decision on code its gates did not pass.
AutoMergeEarnedUndisturbed ==
    left["kill"] = Budget["kill"] /\ left["fault"] = Budget["fault"] => AutoMergeEarned

\* The developer never gets more rounds than the cap plus what each resume
\* grants, across kills, retries and resumes (derive_resume_point's cap,
\* _resume_developer_point's grant).
RoundsBounded ==
    Rounds(wt.log) <= MaxLoops + ResumeGrant * Episode(wt.log)

\* A log that makes a re-kickoff return at once (a sticky terminal not
\* cleared) belongs to an episode whose outcome the Director was notified
\* of: the marker is written after the notification (loop._finalize).
Told(log) ==
    recorded_terminal(log) # NoState =>
        \E t \in told :
            /\ t[1] = Episode(log)
            /\ \/ t[2] = recorded_terminal(log)
               \/ recorded_terminal(log) = "PUSHED" /\ Succeeded(t[2])

NoLostNotification == Told(wt.log) /\ Told(head.log) /\ Told(hub.log)

\* A run that returns has notified, unless the episode it finishes was
\* notified of already (the "done" branch of _run_phases).
ReturnsReported ==
    exit = "returned" =>
        pinged \/ \E t \in told : t[1] = Episode(wt.log) /\ Succeeded(t[2])

\* What a push-ok entry claims was published is on the hub: the log up to
\* that entry is the beginning of the hub's log (loop._finalize pushes
\* before it records; gitops.sync_worktree_to_origin only resets to the hub).
PushedIsPublished ==
    \A p \in Where(wt.log, {"push"}) :
        p - 1 <= Len(hub.log) /\ SubSeq(wt.log, 1, p - 1) = SubSeq(hub.log, 1, p - 1)

\* What origin shows of a task is never taken back, by no kill, failed step,
\* foreign commit or rebuilt machine; and behind a log that says the task is
\* finished, the next thing it ever shows is a resume of the Director's
\* (loop.run returns at a sticky terminal, the marker is the last push of a
\* run, gitops.push does not force).
RecordKept ==
    [][/\ Len(hub.log) <= Len(hub'.log)
       /\ \A i \in DOMAIN hub.log : hub'.log[i] = hub.log[i]
       /\ recorded_terminal(hub.log) # NoState /\ hub'.log # hub.log =>
             hub'.log[Len(hub.log) + 1].action = "director_resume"]_vars

\* Every task that is started ends in a recorded, sticky outcome, however
\* often it was interrupted (retryable states are retried to the end), as
\* long as nobody else pushes to its branch.
EventuallyFinished == pc # "idle" ~> recorded_terminal(wt.log) # NoState

\* What the other runs check one by one, in one formula for the runs in which
\* the Director intervenes: no resume, foreign commit or rebuilt VPS lets code
\* be pushed without its gates, an outcome pass unnoticed, a log claim a push
\* that the hub does not show, or the developer have more rounds than granted.
GuaranteesHold ==
    /\ TypeOK
    /\ ApprovalsBindCode /\ PushFullyGated
    /\ NoLostNotification /\ PushedIsPublished
    /\ RoundsBounded
==============================================================================
