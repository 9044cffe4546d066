----------------------------- MODULE ReportOnly -----------------------------
(***************************************************************************)
(* The report-only path of the loop (Orchestrator._run_report_only): an    *)
(* investigator's report, a verify round over its findings, the path       *)
(* guard and the merge decision, with agents that may edit any file, quota *)
(* windows, failing steps, kills, resumes and a rebuilt VPS. The           *)
(* finalizing tail is that of DevLoop, without its notification.           *)
(***************************************************************************)
EXTENDS AgentCall, Terminals

CONSTANTS MaxRuns, MaxKills, MaxFaults, MaxDirector   \* bounds: kickoffs, kills, failing steps, the Director's doings

ASSUME ReportOnlyAssumption ==
  MaxRuns \in Nat /\ MaxKills \in Nat /\ MaxFaults \in Nat /\ MaxDirector \in Nat

Replay == INSTANCE LogReplay WITH MaxLoops <- 1, ResumeGrant <- 1, WithRw2 <- FALSE, Fps <- {}

VARIABLES
  pc,      \* where the loop process is; "idle": there is none
  fin,     \* the terminal state the tail records
  parsed,  \* how the accepted payload came about: "ok", or "partial" (a failed run's)
  wt,      \* working tree
  head,    \* committed tree
  hub,     \* pushed tree
  left,    \* interruptions still allowed
  lost     \* history: the verify round was in the log when its commit failed or was killed

vars == <<pc, fin, parsed, wt, head, hub, left, lost, callVars>>
trees == <<wt, head, hub>>

Reports == {"none", "ok", "partial", "edited"}
Contents == Reports \X (0..2)
NoContent == <<"none", 0>>
Entry == [action : {"investigator", "verify", "path_guard", "push", "terminal", "director_resume"},
          outcome : {"ok", "malformed", "violation"} \cup TerminalStates, content : Contents]

\* A tree: the log, report.md, findings.json (a version, 0: none), whether source
\* files are touched, whether a spec would run by itself, merge-decision.json.
Tree == [log : Seq(Entry), report : Reports, findings : 0..2, source : BOOLEAN,
         runnable : BOOLEAN, decision : MergeDecisions \cup {"none"}]
BaseTree == [log |-> <<>>, report |-> "none", findings |-> 0, source |-> FALSE,
             runnable |-> FALSE, decision |-> "none"]

report_content_sha(t) == <<t.report, t.findings>>

\* append_log; the content of a verify entry is the code's content_sha, that of
\* a terminal is history: what the tree held when it was recorded.
Logs(t, action, outcome) ==
  [t EXCEPT !.log = Append(@, [action |-> action, outcome |-> outcome,
      content |-> IF <<action, outcome>> = <<"verify", "ok">> \/ action = "terminal" THEN report_content_sha(t) ELSE NoContent])]
Has(t, action) == \E i \in DOMAIN t.log : t.log[i].action = action

\* Mutant: any successful verify round will do.
AnyVerify(t) == \E i \in DOMAIN t.log : t.log[i].action = "verify" /\ t.log[i].outcome = "ok"

Verified(t, content) ==
  \E i \in DOMAIN t.log : /\ t.log[i].action = "verify" /\ t.log[i].outcome = "ok"
                          /\ t.log[i].content = content

report_verify_confirmed(t) == Verified(t, report_content_sha(t))

\* The decision on the committed diff, which the guard found free of source edits;
\* what was verified, and what is in a spec of that diff, is read from the worktree.
report_only_decision(runnable) ==
  IF runnable \/ ~report_verify_confirmed(wt) THEN "stop_before_merge" ELSE "auto_merge"

Init == /\ pc = "idle" /\ fin = NoState /\ parsed = "ok"
        /\ wt = BaseTree /\ head = BaseTree /\ hub = BaseTree
        /\ left = [run |-> MaxRuns, kill |-> MaxKills, fault |-> MaxFaults, director |-> MaxDirector]
        /\ lost = FALSE /\ tries = 0 /\ attempt = 0 /\ spent = 0 /\ slept = 0

Spend(what) == left[what] > 0 /\ left' = [left EXCEPT ![what] = @ - 1]

(***************************************************************************)
(* The phases                                                              *)
(***************************************************************************)

\* run(): a recorded sticky terminal is returned, else the phases are entered
\* with a new quota budget.
Kickoff ==
  /\ pc = "idle" /\ Replay!recorded_terminal(wt.log) = NoState
  /\ Spend("run") /\ pc' = "top"
  /\ UNCHANGED <<fin, parsed, trees, lost, callVars>>

\* A phase runs when the log holds no entry of it.
Enter ==
  /\ pc = "top"
  /\ pc' = (IF ~Has(wt, "investigator") THEN "investigator"
            ELSE IF ~Has(wt, "verify") THEN "verify" ELSE "guard")
  /\ StartCall
  /\ UNCHANGED <<fin, parsed, trees, left, lost>>

\* What an agent may do to the worktree while it runs, however it ends.
Edits == {wt, [wt EXCEPT !.source = TRUE], [wt EXCEPT !.runnable = TRUE]}

\* The tail starts for this state.
Finalize(state) == fin' = state /\ pc' = "fin_commit"

Malformed(phase) == IF phase = "verify" THEN "VERIFY_MALFORMED" ELSE "INVESTIGATOR_MALFORMED"

Agent ==
  /\ pc \in {"investigator", "verify"}
  /\ \E r \in Replies, t \in Edits :
       \/ /\ Accepted(r)
          /\ parsed' = (IF r.exit = "ok" THEN "ok" ELSE "partial")
          /\ pc' = (IF pc = "verify" THEN "ver_write" ELSE "inv_write") /\ wt' = t
          /\ StartCall /\ UNCHANGED fin
       \/ (Waits(r) \/ Retries(r)) /\ wt' = t /\ UNCHANGED <<pc, fin, parsed>>
       \/ /\ TimesOut(r) /\ Finalize("QUOTA_TIMEOUT") /\ wt' = t
          /\ UNCHANGED <<parsed, callVars>>
       \/ /\ GivesUp(r) /\ Finalize(Malformed(pc)) /\ wt' = Logs(t, pc, "malformed")
          /\ UNCHANGED <<parsed, callVars>>
  /\ UNCHANGED <<head, hub, left, lost>>

\* The report, the proposed findings and a fix spec forced to be a draft.
WriteReport ==
  /\ pc = "inv_write" /\ pc' = "inv_append"
  /\ wt' = [wt EXCEPT !.report = parsed]
  /\ UNCHANGED <<fin, parsed, head, hub, left, lost, callVars>>

WriteFindings ==
  /\ pc = "ver_write" /\ pc' = "ver_append"
  /\ \E version \in 1..2 : wt' = [wt EXCEPT !.findings = version]
  /\ UNCHANGED <<fin, parsed, head, hub, left, lost, callVars>>

AppendPhase ==
  /\ pc \in {"inv_append", "ver_append"}
  /\ wt' = Logs(wt, IF pc = "inv_append" THEN "investigator" ELSE "verify", "ok")
  /\ pc' = "commit"
  /\ UNCHANGED <<fin, parsed, head, hub, left, lost, callVars>>

CommitPhase ==
  /\ pc = "commit" /\ pc' = "top" /\ head' = wt /\ parsed' = "ok"
  /\ UNCHANGED <<fin, wt, hub, left, lost, callVars>>

Decide(runnable) ==
  /\ wt' = [wt EXCEPT !.decision = report_only_decision(runnable)]
  /\ Finalize(MergeDecided(report_only_decision(runnable)))

\* What nondraft_report_specs finds: in the files of the committed diff, the
\* worktree's text. A spec edited since the commit is seen if its file was there.
Seen == {head.runnable, wt.runnable}

\* Mutant: the decision is taken for guard enough.
DecideOnly ==
  /\ pc = "guard" /\ \E runnable \in Seen : Decide(runnable)
  /\ UNCHANGED <<parsed, head, hub, left, lost, callVars>>

\* path_guard on origin/main...HEAD: it sees what is committed.
GuardAndDecide ==
  /\ pc = "guard"
  /\ IF head.source
     THEN wt' = Logs(wt, "path_guard", "violation") /\ Finalize("PATH_GUARD_VIOLATION")
     ELSE \E runnable \in Seen : Decide(runnable)
  /\ UNCHANGED <<parsed, head, hub, left, lost, callVars>>

(***************************************************************************)
(* The finalizing tail, and what ends it early                             *)
(***************************************************************************)
\* The process is gone, and its quota budget with it.
Gone == pc' = "idle" /\ fin' = NoState /\ parsed' = "ok" /\ StartRun

\* A run ends early. If the verify round is logged and not committed, what its agent
\* edited is in no commit, and the retry has the round behind it.
Dies == lost' = (lost \/ (Has(wt, "verify") /\ ~Has(head, "verify")))

\* What the log gets once the work is published.
Marking == IF Succeeded(fin) THEN "fin_entry" ELSE "fin_mark"

FinalCommit ==
  /\ pc = "fin_commit" /\ head' = wt
  /\ pc' = (IF Pushes(fin) THEN "fin_push" ELSE Marking)
  /\ UNCHANGED <<fin, parsed, wt, hub, left, lost, callVars>>

FinalPush ==
  /\ pc = "fin_push" /\ hub' = head /\ pc' = Marking
  /\ UNCHANGED <<fin, parsed, wt, head, left, lost, callVars>>

FinalMark ==
  /\ pc \in {"fin_entry", "fin_mark"}
  /\ wt' = (IF pc = "fin_entry" THEN Logs(wt, "push", "ok") ELSE Logs(wt, "terminal", fin))
  /\ pc' = (IF pc = "fin_entry" THEN "fin_mark" ELSE "fin_record")
  /\ UNCHANGED <<fin, parsed, head, hub, left, lost, callVars>>

FinalRecord ==
  /\ pc = "fin_record" /\ head' = wt
  /\ IF Pushes(fin) THEN pc' = "fin_publish" /\ UNCHANGED <<fin, parsed, callVars>> ELSE Gone
  /\ UNCHANGED <<wt, hub, left, lost>>

FinalPublish ==
  /\ pc = "fin_publish" /\ hub' = head /\ Gone
  /\ UNCHANGED <<wt, head, left, lost>>

\* An exception: unhandled in the tail of a quota timeout, else recorded by
\* _internal_error as far as the disk lets it.
StepFails ==
  /\ pc \notin {"idle", "error"} /\ Spend("fault")
  /\ IF fin = "QUOTA_TIMEOUT" THEN Gone
     ELSE pc' = "error" /\ fin' = NoState /\ parsed' = "ok" /\ StartRun
  /\ Dies /\ UNCHANGED trees

InternalError ==
  /\ pc = "error" /\ Gone
  /\ wt' \in {wt, Logs(wt, "terminal", "INTERNAL_ERROR")}
  /\ head' \in {head, wt'}
  /\ UNCHANGED <<hub, left, lost>>

Kill ==
  /\ pc # "idle" /\ Spend("kill") /\ Gone
  /\ Dies /\ UNCHANGED trees

(***************************************************************************)
(* The Director and the VPS                                                *)
(***************************************************************************)

\* --phase resume of a finished task: the worktree is reset to the hub, the
\* event appended and committed (DevLoop has its steps); the loop follows.
Resume ==
  /\ pc = "idle" /\ Spend("director")
  /\ clears_terminal("director_resume", Replay!last_terminal_state(wt.log))
  /\ wt' = Logs(hub, "director_resume", "ok") /\ head' = wt'
  /\ UNCHANGED <<pc, fin, parsed, hub, lost, callVars>>

\* The Director rewrites the report on the task branch from another clone;
\* nothing runs, and the worktree follows.
RewriteReport ==
  /\ pc = "idle" /\ hub.report # "none" /\ Spend("director")
  /\ hub' = [hub EXCEPT !.report = "edited"] /\ wt' = hub' /\ head' = hub'
  /\ UNCHANGED <<pc, fin, parsed, lost, callVars>>

\* A rebuilt VPS cuts the worktree from the hub.
Rebuild ==
  /\ pc = "idle" /\ Spend("director") /\ wt' = hub /\ head' = hub
  /\ UNCHANGED <<pc, fin, parsed, hub, lost, callVars>>

RunStep == \/ Enter \/ Agent \/ WriteReport \/ WriteFindings \/ AppendPhase \/ CommitPhase
           \/ GuardAndDecide \/ FinalCommit \/ FinalPush \/ FinalMark \/ FinalRecord
           \/ FinalPublish \/ InternalError

Next == RunStep \/ Kickoff \/ StepFails \/ Kill \/ Resume \/ RewriteReport \/ Rebuild

\* A live process takes its next step: a hung agent is killed by its timeout.
Spec == Init /\ [][Next]_vars /\ WF_vars(RunStep)

(***************************************************************************)
(* Properties                                                              *)
(***************************************************************************)
TypeOK ==
  /\ pc \in {"idle", "top", "investigator", "verify", "inv_write", "ver_write", "inv_append",
             "ver_append", "commit", "guard", "fin_commit", "fin_push", "fin_entry", "fin_mark",
             "fin_record", "fin_publish", "error"}
  /\ fin \in TerminalStates \cup {NoState} /\ parsed \in {"ok", "partial"}
  /\ wt \in Tree /\ head \in Tree /\ hub \in Tree
  /\ left \in [{"run", "kill", "fault", "director"} -> Nat] /\ lost \in BOOLEAN
  /\ tries \in 0..MaxRetries /\ attempt \in 0..Len(Backoff) /\ spent \in Nat /\ slept \in Nat

\* Whatever is killed, fails, is resumed or rewritten on the hub in between: an
\* auto-merge is only ever recorded, in any tree, for the very report and
\* findings a verify round went with, and over a spec that would run by itself
\* only if the commit of that round was lost.
AutoMergeVerified ==
  \A t \in {wt, head, hub} : \A i \in DOMAIN t.log :
    t.log[i].action = "terminal" /\ t.log[i].outcome = "MERGE_DECIDED:auto_merge" =>
      Verified(t, t.log[i].content) /\ (t.runnable => lost)

\* A success is recorded in a tree with source edits only if the commit of the
\* verify round was lost: no other kill, failing step, resume or rebuild lets
\* edits past a guard that looks at the commit while the tail commits the worktree.
SuccessIsGuarded ==
  \A t \in {wt, head, hub} :
    Succeeded(Replay!last_terminal_state(t.log)) /\ t.source => lost

\* Nothing from a run of an agent that failed becomes the report.
FailedRunNeverParsed == \A t \in {wt, head, hub} : t.report # "partial"

\* All the waits of a run together stay within its budget, whichever of its
\* agents they were for.
WaitsWithinBudget == slept <= MaxWait

\* What the calls of agents keep, whichever phase they are for.
CallsSound == TypeOK /\ FailedRunNeverParsed /\ WaitsWithinBudget

\* Whatever the agents answer, and however often the quota runs out, a run ends.
RunEnds == (pc # "idle") ~> (pc = "idle")

\* _recorded_terminal's docstring: a malformed investigation never ends as an
\* auto-merge of an empty deliverable.
EmptyNeverAutoMerged ==
  Replay!last_terminal_state(hub.log) = "MERGE_DECIDED:auto_merge" => hub.report # "none"
=============================================================================
