--------------------------- MODULE ReportOnlyProofs ---------------------------
(***************************************************************************)
(* The safety of the report-only path, for every retry limit, backoff,     *)
(* wait budget and number of interruptions: what an auto-merge speaks of   *)
(* was verified, a success holds no source edits unless the commit of the  *)
(* verify round was lost, and the agents' waits stay within the budget.    *)
(***************************************************************************)
EXTENDS ReportOnly, WellFoundedInduction, TLAPS

-----------------------------------------------------------------------------
(* States and entries *)

LEMMA StateNames ==
    /\ {"QUOTA_TIMEOUT", "INTERNAL_ERROR", "PATH_GUARD_VIOLATION", "VERIFY_MALFORMED",
        "INVESTIGATOR_MALFORMED", "PUSHED"} \subseteq TerminalStates
    /\ \A d : MergeDecided(d) \in TerminalStates /\ Succeeded(MergeDecided(d))
    /\ \A d : MergeDecided(d) = "MERGE_DECIDED:auto_merge" => d = "auto_merge"
    /\ ~Succeeded("QUOTA_TIMEOUT") /\ ~Succeeded("INTERNAL_ERROR")
    /\ ~Succeeded("PATH_GUARD_VIOLATION") /\ ~Succeeded("VERIFY_MALFORMED")
    /\ ~Succeeded("INVESTIGATOR_MALFORMED")
    /\ Succeeded("MERGE_DECIDED:auto_merge") /\ Succeeded("PUSHED") /\ ~Succeeded(NoState)
<1> USE DEF TerminalStates, SuccessStates, MergeDecidedStates, RetryableStates,
            FailureStates, MergeDecided, MergeDecisions
<1>1. \A d : MergeDecided(d) \in {"MERGE_DECIDED:auto_merge", "MERGE_DECIDED:stop_before_merge"}
  OBVIOUS
<1>2. {MergeDecided(d) : d \in MergeDecisions} =
         {"MERGE_DECIDED:auto_merge", "MERGE_DECIDED:stop_before_merge"}
  OBVIOUS
<1>3. MergeDecidedStates = {"MERGE_DECIDED:auto_merge", "MERGE_DECIDED:stop_before_merge"}
  BY <1>2
<1> QED BY <1>1, <1>3 DEF Succeeded, NoState

\* The entry that Logs appends.
NewEntry(t, action, outcome) ==
    [action |-> action, outcome |-> outcome,
     content |-> IF <<action, outcome>> = <<"verify", "ok">> \/ action = "terminal"
                 THEN report_content_sha(t) ELSE NoContent]

LoggedActions == {"investigator", "verify", "path_guard", "push", "terminal",
                  "director_resume"}

LEMMA LogsFacts ==
    ASSUME NEW t \in Tree, NEW action \in LoggedActions,
           NEW outcome \in {"ok", "malformed", "violation"} \cup TerminalStates
    PROVE  /\ NewEntry(t, action, outcome) \in Entry
           /\ Logs(t, action, outcome) \in Tree
           /\ Logs(t, action, outcome).log = Append(t.log, NewEntry(t, action, outcome))
           /\ Logs(t, action, outcome).report = t.report
           /\ Logs(t, action, outcome).findings = t.findings
           /\ Logs(t, action, outcome).source = t.source
           /\ Logs(t, action, outcome).runnable = t.runnable
<1>1. report_content_sha(t) \in Contents /\ NoContent \in Contents
  BY DEF report_content_sha, Contents, NoContent, Reports, Tree
<1>2. NewEntry(t, action, outcome) \in Entry
  BY <1>1 DEF NewEntry, Entry, LoggedActions
<1>3. Logs(t, action, outcome) =
         [t EXCEPT !.log = Append(t.log, NewEntry(t, action, outcome))]
  BY DEF Logs, NewEntry
<1>4. Append(t.log, NewEntry(t, action, outcome)) \in Seq(Entry)
  BY <1>2 DEF Tree
<1> QED BY <1>2, <1>3, <1>4 DEF Tree

LEMMA AppendFacts ==
    ASSUME NEW log \in Seq(Entry), NEW e \in Entry
    PROVE  /\ Len(log) \in Nat
           /\ DOMAIN log = 1 .. Len(log)
           /\ DOMAIN Append(log, e) = 1 .. Len(log) + 1
           /\ \A i \in 1 .. Len(log) : Append(log, e)[i] = log[i]
           /\ Append(log, e)[Len(log) + 1] = e
OBVIOUS

-----------------------------------------------------------------------------
(* Types, and what the calls of agents keep *)

TailPcs == {"fin_commit", "fin_push", "fin_entry", "fin_mark", "fin_record", "fin_publish"}

\* What a quota budget charged is what was slept, and a payload that is kept
\* is always that of a successful run.
CallInv ==
    /\ TypeOK
    /\ pc \in TailPcs => fin \in TerminalStates
    /\ parsed = "ok"
    /\ slept = spent /\ spent <= MaxWait
    /\ FailedRunNeverParsed

LEMMA WaitPlanPositive ==
    ASSUME attempt \in 0 .. Len(Backoff), NEW reset \in Resets
    PROVE  wait_plan(reset) \in Nat
<1>1. Backoff \in Seq(Nat \ {0}) /\ Len(Backoff) \in Nat \ {0} /\ Buffer \in Nat
      /\ reset \in Int
  BY AgentCallAssumption
<1>2. (IF attempt < Len(Backoff) THEN attempt + 1 ELSE Len(Backoff)) \in 1 .. Len(Backoff)
  BY <1>1
<1>3. \A i \in 1 .. Len(Backoff) : Backoff[i] \in Nat
  BY <1>1
<1> QED BY <1>1, <1>2, <1>3 DEF wait_plan

\* The bookkeeping of one run of an agent.
LEMMA CallsKeep ==
    ASSUME tries \in 0 .. MaxRetries, attempt \in 0 .. Len(Backoff),
           spent \in Nat, slept = spent, spent <= MaxWait, NEW r \in Replies,
           StartCall \/ StartRun \/ Waits(r) \/ Retries(r) \/ UNCHANGED callVars
    PROVE  /\ tries' \in 0 .. MaxRetries /\ attempt' \in 0 .. Len(Backoff)
           /\ spent' \in Nat /\ slept' = spent' /\ spent' <= MaxWait
<1>1. Len(Backoff) \in Nat /\ MaxRetries \in Nat /\ MaxWait \in Nat
  BY AgentCallAssumption
<1>2. CASE StartCall \/ StartRun \/ UNCHANGED callVars
  BY <1>1, <1>2 DEF StartCall, StartRun, callVars
<1>3. CASE Waits(r)
  <2>1. r.exit = "quota" /\ r.reset \in Resets
    BY <1>3 DEF Waits, Replies
  <2>2. wait_plan(r.reset) \in Nat
    BY <2>1, WaitPlanPositive
  <2>3. /\ spent' = spent + wait_plan(r.reset) /\ slept' = slept + wait_plan(r.reset)
        /\ spent + wait_plan(r.reset) <= MaxWait
        /\ tries' = tries
        /\ attempt' = IF attempt < Len(Backoff) THEN attempt + 1 ELSE attempt
    BY <1>3 DEF Waits, charge, Affordable
  <2> QED BY <1>1, <2>2, <2>3
<1>4. CASE Retries(r)
  BY <1>1, <1>4 DEF Retries
<1> QED BY <1>2, <1>3, <1>4

LEMMA CallInit == Init => CallInv
<1> SUFFICES ASSUME Init PROVE CallInv
  OBVIOUS
<1>1. BaseTree \in Tree /\ BaseTree.report = "none"
  BY DEF BaseTree, Tree, Reports
<1>2. left \in [{"run", "kill", "fault", "director"} -> Nat]
  BY ReportOnlyAssumption DEF Init
<1>3. MaxRetries \in Nat /\ Len(Backoff) \in Nat /\ MaxWait \in Nat
  BY AgentCallAssumption
<1>4. /\ pc = "idle" /\ fin = NoState /\ parsed = "ok"
      /\ wt = BaseTree /\ head = BaseTree /\ hub = BaseTree
      /\ tries = 0 /\ attempt = 0 /\ spent = 0 /\ slept = 0
  BY DEF Init
<1>5. lost \in BOOLEAN
  BY DEF Init
<1> QED BY <1>1, <1>2, <1>3, <1>4, <1>5 DEF CallInv, TypeOK, TailPcs, FailedRunNeverParsed

\* A step that keeps the types of each part keeps CallInv.
LEMMA CallStep ==
    ASSUME CallInv, [Next]_vars
    PROVE  CallInv'
<1> USE DEF callVars, trees
<1>0. /\ wt \in Tree /\ head \in Tree /\ hub \in Tree /\ fin \in TerminalStates \cup {NoState}
      /\ wt.report # "partial" /\ head.report # "partial" /\ hub.report # "partial"
      /\ tries \in 0 .. MaxRetries /\ attempt \in 0 .. Len(Backoff) /\ spent \in Nat
      /\ slept = spent /\ spent <= MaxWait /\ parsed = "ok"
      /\ left \in [{"run", "kill", "fault", "director"} -> Nat] /\ lost \in BOOLEAN
  BY DEF CallInv, TypeOK, FailedRunNeverParsed
<1> DEFINE Calls == /\ tries' \in 0 .. MaxRetries /\ attempt' \in 0 .. Len(Backoff)
                    /\ spent' \in Nat /\ slept' = spent' /\ spent' <= MaxWait
           Good(t) == t \in Tree /\ t.report # "partial"
           Pcs == {"idle", "top", "investigator", "verify", "inv_write", "ver_write",
                   "inv_append", "ver_append", "commit", "guard", "fin_commit", "fin_push",
                   "fin_entry", "fin_mark", "fin_record", "fin_publish", "error"}
           Rest == /\ Good(wt') /\ Good(head') /\ Good(hub')
                   /\ left' \in [{"run", "kill", "fault", "director"} -> Nat]
                   /\ lost' \in BOOLEAN
<1>1. ASSUME StartCall \/ StartRun \/ UNCHANGED callVars
      PROVE  Calls
  <2>1. [exit |-> "ok", valid |-> TRUE] \in Replies
    BY DEF Replies
  <2> QED BY <1>0, <1>1, <2>1, CallsKeep
<1>2. ASSUME NEW what \in {"run", "kill", "fault", "director"}, Spend(what)
      PROVE  left' \in [{"run", "kill", "fault", "director"} -> Nat]
  BY <1>0, <1>2 DEF Spend
<1>3. ASSUME NEW t, Good(t), NEW action \in LoggedActions,
             NEW outcome \in {"ok", "malformed", "violation"} \cup TerminalStates
      PROVE  Good(Logs(t, action, outcome))
  BY <1>3, LogsFacts
<1>4. ASSUME Calls, Rest, parsed' = "ok", pc' \in Pcs,
             fin' \in TerminalStates \cup {NoState},
             pc' \in TailPcs => fin' \in TerminalStates
      PROVE  CallInv'
  BY <1>4 DEF CallInv, TypeOK, FailedRunNeverParsed
<1> HIDE DEF Calls
<1>5. CASE Kickoff
  BY <1>0, <1>1, <1>2, <1>4, <1>5 DEF Kickoff, TailPcs
<1>6. CASE Enter
  BY <1>0, <1>1, <1>4, <1>6 DEF Enter, TailPcs
<1>7. CASE Agent
  <2>1. PICK r \in Replies, t \in Edits :
          \/ /\ Accepted(r)
             /\ parsed' = (IF r.exit = "ok" THEN "ok" ELSE "partial")
             /\ pc' = (IF pc = "verify" THEN "ver_write" ELSE "inv_write") /\ wt' = t
             /\ StartCall /\ UNCHANGED fin
          \/ (Waits(r) \/ Retries(r)) /\ wt' = t /\ UNCHANGED <<pc, fin, parsed>>
          \/ /\ TimesOut(r) /\ Finalize("QUOTA_TIMEOUT") /\ wt' = t
             /\ UNCHANGED <<parsed, callVars>>
          \/ /\ GivesUp(r) /\ Finalize(Malformed(pc)) /\ wt' = Logs(t, pc, "malformed")
             /\ UNCHANGED <<parsed, callVars>>
    BY <1>7 DEF Agent
  <2>2. Good(t)
    BY <1>0, <2>1 DEF Edits, Tree
  <2>3. /\ pc \in {"investigator", "verify"} /\ head' = head /\ hub' = hub
        /\ left' = left /\ lost' = lost
    BY <1>7 DEF Agent
  <2>4. Good(Logs(t, pc, "malformed"))
    BY <1>3, <2>2, <2>3 DEF LoggedActions
  <2>5. Malformed(pc) \in TerminalStates
    BY StateNames DEF Malformed
  <2>6. CASE Accepted(r) /\ parsed' = (IF r.exit = "ok" THEN "ok" ELSE "partial")
             /\ pc' = (IF pc = "verify" THEN "ver_write" ELSE "inv_write") /\ wt' = t
             /\ StartCall /\ UNCHANGED fin
    BY <1>0, <1>1, <1>4, <2>2, <2>3, <2>6 DEF Accepted, TailPcs
  <2>7. CASE (Waits(r) \/ Retries(r)) /\ wt' = t /\ UNCHANGED <<pc, fin, parsed>>
    <3>1. Calls
      BY <1>0, <2>7, CallsKeep DEF Calls
    <3> QED BY <1>0, <1>4, <2>2, <2>3, <2>7, <3>1 DEF TailPcs
  <2>8. CASE TimesOut(r) /\ Finalize("QUOTA_TIMEOUT") /\ wt' = t
             /\ UNCHANGED <<parsed, callVars>>
    BY <1>0, <1>1, <1>4, <2>2, <2>3, <2>8, StateNames DEF Finalize
  <2>9. CASE GivesUp(r) /\ Finalize(Malformed(pc)) /\ wt' = Logs(t, pc, "malformed")
             /\ UNCHANGED <<parsed, callVars>>
    BY <1>0, <1>1, <1>4, <2>3, <2>4, <2>5, <2>9 DEF Finalize
  <2> QED BY <2>1, <2>6, <2>7, <2>8, <2>9
<1>8. CASE WriteReport
  <2>1. Good([wt EXCEPT !.report = parsed])
    BY <1>0 DEF Tree, Reports
  <2> QED BY <1>0, <1>1, <1>4, <1>8, <2>1 DEF WriteReport, TailPcs
<1>9. CASE WriteFindings
  <2>1. PICK version \in 1 .. 2 : wt' = [wt EXCEPT !.findings = version]
    BY <1>9 DEF WriteFindings
  <2>2. version \in 0 .. 2
    OBVIOUS
  <2>3. Good(wt')
    BY <1>0, <2>1, <2>2 DEF Tree
  <2> QED BY <1>0, <1>1, <1>4, <1>9, <2>3 DEF WriteFindings, TailPcs
<1>10. CASE AppendPhase
  <2>1. Good(Logs(wt, "investigator", "ok")) /\ Good(Logs(wt, "verify", "ok"))
    BY <1>0, <1>3 DEF LoggedActions
  <2> QED BY <1>0, <1>1, <1>4, <1>10, <2>1 DEF AppendPhase, TailPcs
<1>11. CASE CommitPhase
  BY <1>0, <1>1, <1>4, <1>11 DEF CommitPhase, TailPcs
<1>12. CASE GuardAndDecide
  <2>1. Good(Logs(wt, "path_guard", "violation"))
    BY <1>0, <1>3 DEF LoggedActions
  <2>2. \A runnable : Good([wt EXCEPT !.decision = report_only_decision(runnable)])
    BY <1>0 DEF Tree, report_only_decision, MergeDecisions
  <2> QED
    BY <1>0, <1>1, <1>4, <1>12, <2>1, <2>2, StateNames DEF GuardAndDecide, Decide, Finalize
<1>13. CASE FinalCommit
  BY <1>0, <1>1, <1>4, <1>13 DEF FinalCommit, Marking, TailPcs, CallInv
<1>14. CASE FinalPush
  BY <1>0, <1>1, <1>4, <1>14 DEF FinalPush, Marking, TailPcs, CallInv
<1>15. CASE FinalMark
  <2>1. fin \in TerminalStates
    BY <1>15 DEF FinalMark, CallInv, TailPcs
  <2>2. Good(Logs(wt, "push", "ok")) /\ Good(Logs(wt, "terminal", fin))
    BY <1>0, <1>3, <2>1 DEF LoggedActions
  <2> QED BY <1>0, <1>1, <1>4, <1>15, <2>1, <2>2 DEF FinalMark
<1>16. CASE FinalRecord
  BY <1>0, <1>1, <1>4, <1>16 DEF FinalRecord, Gone, TailPcs, CallInv
<1>17. CASE FinalPublish
  BY <1>0, <1>1, <1>4, <1>17 DEF FinalPublish, Gone, TailPcs
<1>18. CASE StepFails
  BY <1>0, <1>1, <1>2, <1>4, <1>18 DEF StepFails, Dies, Gone, TailPcs
<1>19. CASE InternalError
  <2>1. Good(Logs(wt, "terminal", "INTERNAL_ERROR"))
    BY <1>0, <1>3, StateNames DEF LoggedActions
  <2>2. Good(wt') /\ Good(head')
    BY <1>0, <1>19, <2>1 DEF InternalError
  <2> QED BY <1>0, <1>1, <1>4, <1>19, <2>2 DEF InternalError, Gone, TailPcs
<1>20. CASE Kill
  BY <1>0, <1>1, <1>2, <1>4, <1>20 DEF Kill, Dies, Gone, TailPcs
<1>21. CASE Resume
  <2>1. Good(Logs(hub, "director_resume", "ok"))
    BY <1>0, <1>3 DEF LoggedActions
  <2> QED BY <1>0, <1>1, <1>2, <1>4, <1>21, <2>1 DEF Resume, TailPcs
<1>22. CASE RewriteReport
  <2>1. Good([hub EXCEPT !.report = "edited"])
    BY <1>0 DEF Tree, Reports
  <2> QED BY <1>0, <1>1, <1>2, <1>4, <1>22, <2>1 DEF RewriteReport, TailPcs
<1>23. CASE Rebuild
  BY <1>0, <1>1, <1>2, <1>4, <1>23 DEF Rebuild, TailPcs
<1>24. CASE UNCHANGED vars
  BY <1>24 DEF vars, CallInv, TypeOK, FailedRunNeverParsed
<1> QED
  BY <1>5, <1>6, <1>7, <1>8, <1>9, <1>10, <1>11, <1>12, <1>13, <1>14, <1>15, <1>16,
     <1>17, <1>18, <1>19, <1>20, <1>21, <1>22, <1>23, <1>24 DEF Next, RunStep

\* The waits of a run stay within its budget, nothing of a failed agent run
\* becomes the report, and every entry is one the replay knows: for any
\* backoff, resets, retries and budget (quota.QuotaAwareRunner.run,
\* agent_retry.request_payload, loop._run_investigator / _run_verify).
THEOREM AgentCallsSound == Spec => []CallsSound
<1>1. CallInv => CallsSound
  BY DEF CallInv, CallsSound, WaitsWithinBudget
<1> QED BY <1>1, CallInit, CallStep, PTL DEF Spec

-----------------------------------------------------------------------------
(* What a log's successes speak of *)

AutoMerge == "MERGE_DECIDED:auto_merge"

IsSuccess(e) == Replay!IsMark(e) /\ Succeeded(Replay!MarkState(e))

BothRan(t) == Has(t, "investigator") /\ Has(t, "verify")

\* A tree: a success is recorded after both phases (which no agent then runs
\* again), over source edits only if that is excused, and an auto-merge for a
\* content that a verify round went with.
TreeOk(t, excused) ==
    \A i \in DOMAIN t.log :
      /\ IsSuccess(t.log[i]) => (t.source => excused) /\ BothRan(t)
      /\ t.log[i].action = "terminal" /\ t.log[i].outcome = AutoMerge
           => (t.runnable => excused) /\ Verified(t, t.log[i].content)

Ordered(t) == Has(t, "verify") => Has(t, "investigator")

\* What ties the committed tree, which the guard looks at, to the working tree,
\* which the tail commits: once a verify round is committed no agent runs, and
\* one that is logged and not committed is about to be, or its commit was lost.
CommitInv ==
    /\ Ordered(wt) /\ Ordered(head) /\ Ordered(hub)
    /\ pc \in {"verify", "ver_write", "ver_append"} => Has(wt, "investigator")
    /\ pc \in {"investigator", "verify"} => ~Has(wt, pc)
    /\ Has(head, "verify")
         => Has(wt, "verify") /\ wt.source = head.source /\ wt.runnable = head.runnable
    /\ Has(wt, "verify") /\ ~Has(head, "verify") => lost \/ pc \in {"commit", "fin_commit"}

Recording == {"fin_commit", "fin_push", "fin_entry", "fin_mark"}

\* What the loop still remembers of its guard and decision until it has
\* recorded them.
GuardInv ==
    /\ TreeOk(wt, lost) /\ TreeOk(head, lost) /\ TreeOk(hub, lost)
    /\ pc = "guard" => BothRan(wt)
    /\ pc = "fin_entry" => Succeeded(fin)
    /\ pc \in Recording /\ Succeeded(fin) => (wt.source => lost) /\ BothRan(wt)
    /\ pc \in Recording /\ fin = AutoMerge
         => (wt.runnable => lost) /\ report_verify_confirmed(wt)

\* What is in the log stays there.
LEMMA HasLogs ==
    ASSUME NEW t \in Tree, NEW action \in LoggedActions,
           NEW outcome \in {"ok", "malformed", "violation"} \cup TerminalStates
    PROVE  /\ \A a : Has(Logs(t, action, outcome), a) <=> Has(t, a) \/ a = action
           /\ \A c : Verified(t, c) => Verified(Logs(t, action, outcome), c)
           /\ BothRan(t) => BothRan(Logs(t, action, outcome))
           /\ report_verify_confirmed(t) => report_verify_confirmed(Logs(t, action, outcome))
<1> DEFINE s == Logs(t, action, outcome)
           e == NewEntry(t, action, outcome)
<1>1. s.log = Append(t.log, e) /\ t.log \in Seq(Entry) /\ e \in Entry
      /\ s.report = t.report /\ s.findings = t.findings
  BY LogsFacts DEF Tree
<1> HIDE DEF s, e
<1>2. /\ DOMAIN t.log \subseteq DOMAIN s.log
      /\ \A i \in DOMAIN t.log : s.log[i] = t.log[i]
  <2>1. DOMAIN t.log = 1 .. Len(t.log) /\ DOMAIN s.log = 1 .. Len(t.log) + 1
        /\ Len(t.log) \in Nat
    BY <1>1, AppendFacts
  <2>2. \A i \in 1 .. Len(t.log) : s.log[i] = t.log[i]
    BY <1>1, AppendFacts
  <2> QED BY <2>1, <2>2
<1>3. \A a : Has(s, a) <=> Has(t, a) \/ a = action
  <2>1. /\ DOMAIN t.log = 1 .. Len(t.log) /\ DOMAIN s.log = 1 .. Len(t.log) + 1
        /\ Len(t.log) \in Nat /\ s.log[Len(t.log) + 1] = e
    BY <1>1, AppendFacts
  <2>2. e.action = action
    BY DEF e, NewEntry
  <2>3. DOMAIN s.log = DOMAIN t.log \cup {Len(t.log) + 1} /\ s.log[Len(t.log) + 1].action = action
    BY <2>1, <2>2
  <2> QED BY <1>2, <2>3 DEF Has
<1>4. \A c : Verified(t, c) => Verified(s, c)
  BY <1>2 DEF Verified
<1>5. report_content_sha(s) = report_content_sha(t)
  BY <1>1 DEF report_content_sha
<1> QED BY <1>3, <1>4, <1>5 DEF s, BothRan, report_verify_confirmed

LEMMA TreeOkLogs ==
    ASSUME NEW t \in Tree, NEW l, NEW action \in LoggedActions,
           NEW outcome \in {"ok", "malformed", "violation"} \cup TerminalStates,
           TreeOk(t, l),
           IsSuccess(NewEntry(t, action, outcome)) => (t.source => l) /\ BothRan(t),
           action = "terminal" /\ outcome = AutoMerge
             => (t.runnable => l) /\ report_verify_confirmed(t)
    PROVE  TreeOk(Logs(t, action, outcome), l)
<1> DEFINE s == Logs(t, action, outcome)
           e == NewEntry(t, action, outcome)
<1>1. /\ s.log = Append(t.log, e) /\ t.log \in Seq(Entry) /\ e \in Entry
      /\ s.source = t.source /\ s.runnable = t.runnable
  <2>1. t.log \in Seq(Entry)
    BY DEF Tree
  <2> QED BY <2>1, LogsFacts
<1>2. /\ \A c : Verified(t, c) => Verified(s, c)
      /\ BothRan(t) => BothRan(s)
  BY HasLogs
<1>3. /\ e.action = action /\ e.outcome = outcome
      /\ action = "terminal" => e.content = report_content_sha(t)
  BY DEF NewEntry
<1>4. IsSuccess(e) => (t.source => l) /\ BothRan(t)
  OBVIOUS
<1> HIDE DEF s, e
<1> SUFFICES ASSUME NEW i \in DOMAIN s.log
             PROVE  /\ IsSuccess(s.log[i]) => (s.source => l) /\ BothRan(s)
                    /\ s.log[i].action = "terminal" /\ s.log[i].outcome = AutoMerge
                         => (s.runnable => l) /\ Verified(s, s.log[i].content)
  BY DEF TreeOk, s
<1>5. /\ Len(t.log) \in Nat /\ DOMAIN t.log = 1 .. Len(t.log)
      /\ DOMAIN s.log = 1 .. Len(t.log) + 1
      /\ s.log[Len(t.log) + 1] = e
      /\ \A j \in 1 .. Len(t.log) : s.log[j] = t.log[j]
  BY <1>1, AppendFacts
<1>6. CASE i = Len(t.log) + 1
  BY <1>1, <1>2, <1>3, <1>4, <1>5, <1>6 DEF report_verify_confirmed
<1>7. CASE i \in DOMAIN t.log
  <2>1. s.log[i] = t.log[i]
    BY <1>5, <1>7
  <2> QED BY <1>1, <1>2, <1>7, <2>1 DEF TreeOk
<1> QED BY <1>5, <1>6, <1>7

\* A tree with the same log, and no new source edit or runnable spec.
LEMMA TreeOkSameLog ==
    ASSUME NEW t, NEW s, NEW l, TreeOk(t, l), s.log = t.log,
           s.source = t.source, s.runnable = t.runnable
    PROVE  /\ TreeOk(s, l)
           /\ \A a : Has(s, a) <=> Has(t, a)
BY DEF TreeOk, BothRan, Has, Verified

\* An agent edits a tree only while its own phase is not in the log.
LEMMA TreeOkEdited ==
    ASSUME NEW t, NEW s, NEW l, TreeOk(t, l), s.log = t.log,
           NEW phase \in {"investigator", "verify"}, ~Has(t, phase)
    PROVE  TreeOk(s, l)
<1>1. /\ \A i \in DOMAIN t.log : ~IsSuccess(t.log[i])
  BY DEF TreeOk, BothRan
<1>2. \A i \in DOMAIN t.log :
        t.log[i].action = "terminal" /\ t.log[i].outcome = AutoMerge => IsSuccess(t.log[i])
  BY StateNames DEF IsSuccess, Replay!IsMark, Replay!MarkState, AutoMerge
<1> QED BY <1>1, <1>2 DEF TreeOk

\* What is excused stays excused.
LEMMA TreeOkExcused ==
    ASSUME NEW t, NEW l, NEW m, TreeOk(t, l), l => m
    PROVE  TreeOk(t, m)
BY DEF TreeOk

LEMMA GuardInit == Init => CommitInv /\ GuardInv
BY DEF Init, CommitInv, Ordered, Has, GuardInv, TreeOk, BaseTree, Recording

\* Entries that are no success; a recorded one is.
LEMMA EntryKinds ==
    ASSUME NEW t
    PROVE  /\ \A a \in {"investigator", "verify", "path_guard", "director_resume"} : \A o :
                ~IsSuccess(NewEntry(t, a, o))
           /\ \A o : IsSuccess(NewEntry(t, "terminal", o)) <=> Succeeded(o)
<1>1. \A a, o : NewEntry(t, a, o).action = a /\ NewEntry(t, a, o).outcome = o
  BY DEF NewEntry
<1> QED BY <1>1 DEF IsSuccess, Replay!IsMark, Replay!MarkState

\* Each step, with the part of GuardInv that speaks of the process.
LEMMA GuardStep ==
    ASSUME CallInv, CommitInv, GuardInv, [Next]_vars
    PROVE  GuardInv'
<1> DEFINE Remembers ==
             /\ pc = "guard" => BothRan(wt)
             /\ pc = "fin_entry" => Succeeded(fin)
             /\ pc \in Recording /\ Succeeded(fin) => (wt.source => lost) /\ BothRan(wt)
             /\ pc \in Recording /\ fin = AutoMerge
                  => (wt.runnable => lost) /\ report_verify_confirmed(wt)
           Trees == TreeOk(wt, lost) /\ TreeOk(head, lost) /\ TreeOk(hub, lost)
<1>0. /\ wt \in Tree /\ head \in Tree /\ hub \in Tree
      /\ TreeOk(wt, lost) /\ TreeOk(head, lost) /\ TreeOk(hub, lost)
      /\ fin \in TerminalStates \cup {NoState} /\ parsed = "ok"
      /\ pc \in TailPcs => fin \in TerminalStates
  BY DEF CallInv, TypeOK, GuardInv
<1> USE DEF trees
<1>1. SUFFICES Trees' /\ Remembers'
  BY DEF GuardInv
<1>2. ASSUME pc' \notin {"investigator", "verify", "guard"} \cup Recording
      PROVE  Remembers'
  BY <1>2 DEF Recording
<1>3. ASSUME NEW t, t \in Tree, TreeOk(t, lost), NEW action \in {"investigator", "verify", "path_guard", "director_resume"},
             NEW outcome \in {"ok", "malformed", "violation"}
      PROVE  TreeOk(Logs(t, action, outcome), lost)
  <2>1. ~IsSuccess(NewEntry(t, action, outcome)) /\ action \in LoggedActions
    BY EntryKinds DEF LoggedActions
  <2> QED BY <1>3, <2>1, TreeOkLogs
<1>4. /\ NoState # AutoMerge /\ ~Succeeded(NoState) /\ Succeeded(AutoMerge)
      /\ AutoMerge = "MERGE_DECIDED:auto_merge"
  BY StateNames DEF AutoMerge, NoState
<1>5. CASE Kickoff
  BY <1>0, <1>2, <1>5 DEF Kickoff, Recording
<1>6. CASE Enter
  <2>1. wt' = wt /\ head' = head /\ hub' = hub /\ lost' = lost
        /\ pc' = (IF ~Has(wt, "investigator") THEN "investigator"
                  ELSE IF ~Has(wt, "verify") THEN "verify" ELSE "guard")
    BY <1>6 DEF Enter
  <2> QED BY <1>0, <2>1 DEF Recording, BothRan
<1>7. CASE Agent
  <2>1. PICK r \in Replies, t \in Edits :
          \/ /\ Accepted(r)
             /\ pc' = (IF pc = "verify" THEN "ver_write" ELSE "inv_write") /\ wt' = t
          \/ wt' = t /\ UNCHANGED <<pc, fin>>
          \/ Finalize("QUOTA_TIMEOUT") /\ wt' = t
          \/ Finalize(Malformed(pc)) /\ wt' = Logs(t, pc, "malformed")
    BY <1>7 DEF Agent
  <2>2. pc \in {"investigator", "verify"} /\ ~Has(wt, pc) /\ head' = head /\ hub' = hub
        /\ lost' = lost
    BY <1>7 DEF Agent, CommitInv
  <2>3. t \in Tree /\ t.log = wt.log
    BY <1>0, <2>1 DEF Edits, Tree
  <2>4. TreeOk(t, lost)
    BY <1>0, <2>2, <2>3, TreeOkEdited
  <2>5. TreeOk(Logs(t, pc, "malformed"), lost)
    BY <1>3, <2>2, <2>3, <2>4
  <2>6. ~Succeeded(Malformed(pc)) /\ ~Succeeded("QUOTA_TIMEOUT")
        /\ Malformed(pc) # AutoMerge /\ "QUOTA_TIMEOUT" # AutoMerge
    BY <1>4, StateNames DEF Malformed
  <2>7. CASE pc' = (IF pc = "verify" THEN "ver_write" ELSE "inv_write") /\ wt' = t
    BY <1>0, <1>2, <2>2, <2>4, <2>7 DEF Recording
  <2>8. CASE wt' = t /\ UNCHANGED <<pc, fin>>
    BY <1>0, <2>2, <2>4, <2>8 DEF Recording
  <2>9. CASE Finalize("QUOTA_TIMEOUT") /\ wt' = t
    BY <1>0, <2>2, <2>4, <2>6, <2>9 DEF Finalize
  <2>10. CASE Finalize(Malformed(pc)) /\ wt' = Logs(t, pc, "malformed")
    BY <1>0, <2>2, <2>5, <2>6, <2>10 DEF Finalize
  <2> QED BY <2>1, <2>7, <2>8, <2>9, <2>10
<1>8. CASE WriteReport
  <2>1. /\ wt'.log = wt.log /\ wt'.source = wt.source /\ wt'.runnable = wt.runnable
        /\ pc' = "inv_append" /\ head' = head /\ hub' = hub /\ lost' = lost
    BY <1>0, <1>8 DEF WriteReport, Tree
  <2>2. TreeOk(wt', lost)
    BY <1>0, <2>1, TreeOkSameLog
  <2> QED BY <1>0, <1>2, <2>1, <2>2 DEF Recording
<1>9. CASE WriteFindings
  <2>1. /\ wt'.log = wt.log /\ wt'.source = wt.source /\ wt'.runnable = wt.runnable
        /\ pc' = "ver_append" /\ head' = head /\ hub' = hub /\ lost' = lost
    BY <1>0, <1>9 DEF WriteFindings, Tree
  <2>2. TreeOk(wt', lost)
    BY <1>0, <2>1, TreeOkSameLog
  <2> QED BY <1>0, <1>2, <2>1, <2>2 DEF Recording
<1>10. CASE AppendPhase
  <2>1. TreeOk(Logs(wt, "investigator", "ok"), lost) /\ TreeOk(Logs(wt, "verify", "ok"), lost)
    BY <1>0, <1>3
  <2> QED BY <1>0, <1>2, <1>10, <2>1 DEF AppendPhase, Recording
<1>11. CASE CommitPhase
  BY <1>0, <1>2, <1>11 DEF CommitPhase, Recording
<1>12. CASE GuardAndDecide
  <2>1. BothRan(wt) /\ head' = head /\ hub' = hub /\ pc' = "fin_commit" /\ lost' = lost
    BY <1>12 DEF GuardAndDecide, Decide, Finalize, GuardInv
  <2>2. CASE head.source
    <3>1. wt' = Logs(wt, "path_guard", "violation") /\ fin' = "PATH_GUARD_VIOLATION"
      BY <1>12, <2>2 DEF GuardAndDecide, Finalize
    <3>2. TreeOk(wt', lost)
      BY <1>0, <1>3, <3>1
    <3>3. ~Succeeded(fin') /\ fin' # AutoMerge
      BY <3>1, <1>4, StateNames
    <3> QED BY <1>0, <2>1, <3>2, <3>3
  <2>3. CASE ~head.source
    <3>1. PICK runnable \in Seen :
             /\ wt' = [wt EXCEPT !.decision = report_only_decision(runnable)]
             /\ fin' = MergeDecided(report_only_decision(runnable))
      BY <1>12, <2>3 DEF GuardAndDecide, Decide, Finalize
    <3>2. /\ wt'.log = wt.log /\ wt'.source = wt.source /\ wt'.runnable = wt.runnable
          /\ wt'.report = wt.report /\ wt'.findings = wt.findings
      BY <1>0, <3>1 DEF Tree
    <3>3. TreeOk(wt', lost) /\ BothRan(wt')
      BY <1>0, <2>1, <3>2, TreeOkSameLog DEF BothRan
    \* The committed tree is the working tree, unless the verify round's commit was lost.
    <3>4. lost \/ (wt.source = head.source /\ runnable = wt.runnable)
      <4>1. pc = "guard"
        BY <1>12 DEF GuardAndDecide
      <4>2. Has(head, "verify") \/ lost
        BY <2>1, <4>1 DEF CommitInv, BothRan
      <4> QED BY <3>1, <4>2 DEF CommitInv, Seen
    <3>5. ASSUME fin' = AutoMerge
          PROVE  (wt'.runnable => lost) /\ report_verify_confirmed(wt')
      <4>1. report_only_decision(runnable) = "auto_merge"
        BY <3>1, <3>5, StateNames DEF AutoMerge
      <4>2. ~runnable /\ report_verify_confirmed(wt)
        BY <4>1 DEF report_only_decision
      <4> QED
        BY <3>2, <3>4, <4>2 DEF report_verify_confirmed, Verified, report_content_sha
    <3> QED BY <1>0, <2>1, <2>3, <3>2, <3>3, <3>4, <3>5
  <2> QED BY <2>2, <2>3
<1>13. CASE FinalCommit
  <2>1. pc = "fin_commit" /\ head' = wt /\ wt' = wt /\ hub' = hub /\ fin' = fin
        /\ lost' = lost /\ pc' = (IF Pushes(fin) THEN "fin_push" ELSE Marking)
    BY <1>13 DEF FinalCommit
  <2> QED BY <1>0, <2>1 DEF Marking, Recording, GuardInv
<1>14. CASE FinalPush
  <2>1. pc = "fin_push" /\ hub' = head /\ wt' = wt /\ head' = head /\ fin' = fin
        /\ lost' = lost /\ pc' = Marking
    BY <1>14 DEF FinalPush
  <2> QED BY <1>0, <2>1 DEF Marking, Recording, GuardInv
<1>15. CASE FinalMark
  <2>1. pc \in {"fin_entry", "fin_mark"} /\ head' = head /\ hub' = hub /\ fin' = fin
        /\ fin \in TerminalStates /\ lost' = lost
    BY <1>0, <1>15 DEF FinalMark, TailPcs
  <2>2. /\ Succeeded(fin) => (wt.source => lost) /\ BothRan(wt)
        /\ fin = AutoMerge => (wt.runnable => lost) /\ report_verify_confirmed(wt)
    BY <2>1 DEF GuardInv, Recording
  <2>3. CASE pc = "fin_entry"
    <3>1. wt' = Logs(wt, "push", "ok") /\ pc' = "fin_mark" /\ Succeeded(fin)
      BY <1>15, <2>3 DEF FinalMark, GuardInv
    <3>2. TreeOk(wt', lost) /\ BothRan(wt') /\ wt'.source = wt.source /\ wt'.runnable = wt.runnable
      BY <1>0, <2>2, <3>1, TreeOkLogs, HasLogs, LogsFacts DEF LoggedActions
    <3>3. report_verify_confirmed(wt) => report_verify_confirmed(wt')
      BY <1>0, <3>1, HasLogs DEF LoggedActions
    <3> QED BY <1>0, <2>1, <2>2, <3>1, <3>2, <3>3
  <2>4. CASE pc = "fin_mark"
    <3>1. wt' = Logs(wt, "terminal", fin) /\ pc' = "fin_record"
      BY <1>15, <2>4 DEF FinalMark
    <3>2. TreeOk(wt', lost)
      BY <1>0, <2>1, <2>2, <3>1, TreeOkLogs, EntryKinds DEF LoggedActions
    <3> QED BY <1>0, <1>2, <2>1, <3>1, <3>2 DEF Recording
  <2> QED BY <2>1, <2>3, <2>4
<1>16. CASE FinalRecord
  BY <1>0, <1>2, <1>16 DEF FinalRecord, Gone, Recording
<1>17. CASE FinalPublish
  BY <1>0, <1>2, <1>17 DEF FinalPublish, Gone, Recording
<1>18. CASE StepFails
  <2>1. UNCHANGED trees /\ (lost => lost')
    BY <1>18 DEF StepFails, Dies
  <2>2. pc' \in {"idle", "error"}
    BY <1>18 DEF StepFails, Gone
  <2> QED BY <1>0, <1>2, <2>1, <2>2, TreeOkExcused DEF Recording
<1>19. CASE InternalError
  <2>1. TreeOk(Logs(wt, "terminal", "INTERNAL_ERROR"), lost)
    <3>1. "INTERNAL_ERROR" \in TerminalStates /\ "INTERNAL_ERROR" # AutoMerge
          /\ ~IsSuccess(NewEntry(wt, "terminal", "INTERNAL_ERROR"))
      BY <1>4, StateNames, EntryKinds
    <3> QED BY <1>0, <3>1, TreeOkLogs DEF LoggedActions
  <2>2. TreeOk(wt', lost) /\ TreeOk(head', lost) /\ hub' = hub /\ pc' = "idle"
        /\ lost' = lost
    BY <1>0, <1>19, <2>1 DEF InternalError, Gone
  <2> QED BY <1>0, <1>2, <2>2 DEF Recording
<1>20. CASE Kill
  <2>1. UNCHANGED trees /\ (lost => lost') /\ pc' = "idle"
    BY <1>20 DEF Kill, Gone, Dies
  <2> QED BY <1>0, <1>2, <2>1, TreeOkExcused DEF Recording
<1>21. CASE Resume
  <2>1. TreeOk(Logs(hub, "director_resume", "ok"), lost)
    BY <1>0, <1>3
  <2> QED BY <1>0, <1>2, <1>21, <2>1 DEF Resume, Recording
<1>22. CASE RewriteReport
  <2>1. /\ hub'.log = hub.log /\ hub'.source = hub.source /\ hub'.runnable = hub.runnable
        /\ pc' = "idle" /\ wt' = hub' /\ head' = hub' /\ lost' = lost
    BY <1>0, <1>22 DEF RewriteReport, Tree
  <2>2. TreeOk(hub', lost)
    BY <1>0, <2>1, TreeOkSameLog
  <2> QED BY <1>2, <2>1, <2>2 DEF Recording
<1>23. CASE Rebuild
  BY <1>0, <1>2, <1>23 DEF Rebuild, Recording
<1>24. CASE UNCHANGED vars
  BY <1>24 DEF vars, GuardInv, Recording
<1> QED
  BY <1>5, <1>6, <1>7, <1>8, <1>9, <1>10, <1>11, <1>12, <1>13, <1>14, <1>15, <1>16,
     <1>17, <1>18, <1>19, <1>20, <1>21, <1>22, <1>23, <1>24 DEF Next, RunStep

\* The trees of the two phases, and their commits.
LEMMA CommitStep ==
    ASSUME CallInv, CommitInv, [Next]_vars
    PROVE  CommitInv'
<1> USE DEF trees
<1>0. /\ wt \in Tree /\ head \in Tree /\ hub \in Tree
      /\ Ordered(wt) /\ Ordered(head) /\ Ordered(hub)
      /\ pc \in TailPcs => fin \in TerminalStates
  BY DEF CallInv, TypeOK, CommitInv
\* Nothing but the log grows.
<1> DEFINE Same(s, t) == /\ s.source = t.source /\ s.runnable = t.runnable
                         /\ \A a \in {"investigator", "verify"} : Has(s, a) <=> Has(t, a)
           Early == {"investigator", "verify", "ver_write", "ver_append", "commit", "fin_commit"}
<1>1. ASSUME Same(wt', wt), Same(head', head), Same(hub', hub), lost' = lost,
             pc' \notin Early, pc \notin {"commit", "fin_commit"}
      PROVE  CommitInv'
  BY <1>1 DEF CommitInv, Ordered
<1>2. ASSUME NEW t, t \in Tree, NEW action \in {"path_guard", "push", "terminal", "director_resume"},
             NEW outcome \in {"ok", "malformed", "violation"} \cup TerminalStates
      PROVE  Same(Logs(t, action, outcome), t)
  <2>1. action \in LoggedActions
    BY DEF LoggedActions
  <2>2. \A a : Has(Logs(t, action, outcome), a) <=> Has(t, a) \/ a = action
    BY <1>2, <2>1, HasLogs
  <2>3. /\ Logs(t, action, outcome).source = t.source
        /\ Logs(t, action, outcome).runnable = t.runnable
    BY <1>2, <2>1, LogsFacts
  <2>4. action # "investigator" /\ action # "verify"
    OBVIOUS
  <2> QED BY <2>2, <2>3, <2>4
<1>3. ASSUME Same(wt', head'), Same(hub', hub) \/ Same(hub', wt'), Ordered(wt'),
             pc' \notin {"investigator", "verify", "ver_write", "ver_append"}
      PROVE  CommitInv'
  BY <1>0, <1>3 DEF CommitInv, Ordered
<1>5. CASE Kickoff
  BY <1>1, <1>5 DEF Kickoff
<1>6. CASE Enter
  <2>1. wt' = wt /\ head' = head /\ hub' = hub /\ lost' = lost /\ pc = "top"
        /\ pc' = (IF ~Has(wt, "investigator") THEN "investigator"
                  ELSE IF ~Has(wt, "verify") THEN "verify" ELSE "guard")
    BY <1>6 DEF Enter
  <2> QED BY <2>1 DEF CommitInv
<1>7. CASE Agent
  <2>1. PICK r \in Replies, t \in Edits :
          \/ /\ Accepted(r)
             /\ pc' = (IF pc = "verify" THEN "ver_write" ELSE "inv_write") /\ wt' = t
          \/ wt' = t /\ UNCHANGED <<pc, fin>>
          \/ Finalize("QUOTA_TIMEOUT") /\ wt' = t
          \/ Finalize(Malformed(pc)) /\ wt' = Logs(t, pc, "malformed")
    BY <1>7 DEF Agent
  <2>2. /\ pc \in {"investigator", "verify"} /\ ~Has(wt, pc) /\ head' = head /\ hub' = hub
        /\ lost' = lost
    BY <1>7 DEF Agent, CommitInv
  <2>3. t \in Tree /\ \A a : Has(t, a) <=> Has(wt, a)
    <3>1. t \in Tree /\ t.log = wt.log
      BY <1>0, <2>1 DEF Edits, Tree
    <3> QED BY <3>1 DEF Has
  <2>4. ~Has(wt, "verify") /\ ~Has(head, "verify")
    BY <1>0, <2>2 DEF CommitInv, Ordered
  <2>5. \A a : Has(Logs(t, pc, "malformed"), a) <=> Has(wt, a) \/ a = pc
    BY <2>2, <2>3, HasLogs DEF LoggedActions
  <2>6. pc = "verify" => Has(wt, "investigator")
    BY DEF CommitInv
  <2>7. CASE pc' = (IF pc = "verify" THEN "ver_write" ELSE "inv_write") /\ wt' = t
    BY <1>0, <2>2, <2>3, <2>4, <2>6, <2>7 DEF CommitInv, Ordered
  <2>8. CASE wt' = t /\ UNCHANGED <<pc, fin>>
    BY <1>0, <2>2, <2>3, <2>4, <2>6, <2>8 DEF CommitInv, Ordered
  <2>9. CASE Finalize("QUOTA_TIMEOUT") /\ wt' = t
    BY <1>0, <2>2, <2>3, <2>4, <2>9 DEF CommitInv, Ordered, Finalize
  <2>10. CASE Finalize(Malformed(pc)) /\ wt' = Logs(t, pc, "malformed")
    BY <1>0, <2>2, <2>4, <2>5, <2>6, <2>10 DEF CommitInv, Ordered, Finalize
  <2> QED BY <2>1, <2>7, <2>8, <2>9, <2>10
<1>8. CASE WriteReport
  <2>1. wt' = [wt EXCEPT !.report = parsed]
    BY <1>8 DEF WriteReport
  <2>2. wt'.log = wt.log /\ wt'.source = wt.source /\ wt'.runnable = wt.runnable
    BY <1>0, <2>1 DEF Tree
  <2>3. Same(wt', wt)
    BY <2>2 DEF Has
  <2> QED BY <1>1, <1>8, <2>3 DEF WriteReport
<1>9. CASE WriteFindings
  <2>1. PICK version \in 1 .. 2 : wt' = [wt EXCEPT !.findings = version]
    BY <1>9 DEF WriteFindings
  <2>2. wt'.log = wt.log /\ wt'.source = wt.source /\ wt'.runnable = wt.runnable
    BY <1>0, <2>1 DEF Tree
  <2>3. \A a : Has(wt', a) <=> Has(wt, a)
    BY <2>2 DEF Has
  <2>4. pc = "ver_write" /\ pc' = "ver_append" /\ head' = head /\ hub' = hub /\ lost' = lost
    BY <1>9 DEF WriteFindings
  <2> QED BY <2>2, <2>3, <2>4 DEF CommitInv, Ordered
<1>10. CASE AppendPhase
  <2>1. pc' = "commit" /\ head' = head /\ hub' = hub /\ lost' = lost
        /\ wt' = Logs(wt, IF pc = "inv_append" THEN "investigator" ELSE "verify", "ok")
        /\ pc \in {"inv_append", "ver_append"}
    BY <1>10 DEF AppendPhase
  <2>2. CASE pc = "inv_append"
    <3>1. /\ wt'.source = wt.source /\ wt'.runnable = wt.runnable
          /\ \A a : Has(wt', a) <=> Has(wt, a) \/ a = "investigator"
      BY <1>0, <2>1, <2>2, LogsFacts, HasLogs DEF LoggedActions
    <3> QED BY <2>1, <3>1 DEF CommitInv, Ordered
  <2>3. CASE pc = "ver_append"
    <3>1. /\ wt'.source = wt.source /\ wt'.runnable = wt.runnable
          /\ \A a : Has(wt', a) <=> Has(wt, a) \/ a = "verify"
      BY <1>0, <2>1, <2>3, LogsFacts, HasLogs DEF LoggedActions
    <3> QED BY <2>1, <2>3, <3>1 DEF CommitInv, Ordered
  <2> QED BY <2>1, <2>2, <2>3
<1>11. CASE CommitPhase
  BY <1>0, <1>3, <1>11 DEF CommitPhase
<1>12. CASE GuardAndDecide
  <2>1. head' = head /\ hub' = hub /\ lost' = lost /\ pc = "guard" /\ pc' = "fin_commit"
    BY <1>12 DEF GuardAndDecide, Decide, Finalize
  <2>2. Same(wt', wt)
    <3>1. CASE wt' = Logs(wt, "path_guard", "violation")
      BY <1>0, <1>2, <3>1
    <3>2. CASE wt'.log = wt.log /\ wt'.source = wt.source /\ wt'.runnable = wt.runnable
      BY <3>2 DEF Has
    <3>3. ASSUME NEW runnable, wt' = [wt EXCEPT !.decision = report_only_decision(runnable)]
          PROVE  wt'.log = wt.log /\ wt'.source = wt.source /\ wt'.runnable = wt.runnable
      BY <1>0, <3>3 DEF Tree
    <3> QED BY <1>12, <3>1, <3>2, <3>3 DEF GuardAndDecide, Decide
  <2> QED BY <2>1, <2>2 DEF CommitInv, Ordered
<1>13. CASE FinalCommit
  BY <1>0, <1>3, <1>13 DEF FinalCommit, Marking
<1>14. CASE FinalPush
  <2>1. hub' = head /\ wt' = wt /\ head' = head /\ lost' = lost /\ pc = "fin_push"
        /\ pc' \in {"fin_entry", "fin_mark"}
    BY <1>14 DEF FinalPush, Marking
  <2> QED BY <1>0, <2>1 DEF CommitInv
<1>15. CASE FinalMark
  <2>1. Same(wt', wt)
    <3>1. fin \in TerminalStates
      BY <1>0, <1>15 DEF FinalMark, TailPcs
    <3>2. Same(Logs(wt, "push", "ok"), wt) /\ Same(Logs(wt, "terminal", fin), wt)
      <4> HIDE DEF Same
      <4>1. wt \in Tree /\ fin \in {"ok", "malformed", "violation"} \cup TerminalStates
        BY <1>0, <3>1
      <4> QED BY <1>2, <4>1
    <3> HIDE DEF Same
    <3> QED BY <1>15, <3>2 DEF FinalMark
  <2> QED BY <1>1, <1>15, <2>1 DEF FinalMark
<1>16. CASE FinalRecord
  BY <1>0, <1>3, <1>16 DEF FinalRecord, Gone
<1>17. CASE FinalPublish
  <2>1. hub' = head /\ wt' = wt /\ head' = head /\ lost' = lost /\ pc = "fin_publish"
        /\ pc' = "idle"
    BY <1>17 DEF FinalPublish, Gone
  <2> QED BY <1>0, <2>1 DEF CommitInv
<1>18. CASE StepFails
  <2>1. UNCHANGED trees /\ pc' \in {"idle", "error"}
        /\ lost' = (lost \/ (Has(wt, "verify") /\ ~Has(head, "verify")))
    BY <1>18 DEF StepFails, Gone, Dies
  <2> QED BY <2>1 DEF CommitInv
<1>19. CASE InternalError
  <2>1. Same(Logs(wt, "terminal", "INTERNAL_ERROR"), wt)
    BY <1>0, <1>2, StateNames
  <2>2. Same(wt', wt) /\ (head' = head \/ head' = wt') /\ hub' = hub /\ lost' = lost
        /\ pc = "error" /\ pc' = "idle"
    BY <1>19, <2>1 DEF InternalError, Gone
  <2> QED BY <1>0, <1>1, <1>3, <2>2 DEF Ordered
<1>20. CASE Kill
  <2>1. UNCHANGED trees /\ pc' = "idle"
        /\ lost' = (lost \/ (Has(wt, "verify") /\ ~Has(head, "verify")))
    BY <1>20 DEF Kill, Gone, Dies
  <2> QED BY <2>1 DEF CommitInv
<1>21. CASE Resume
  <2>1. Same(Logs(hub, "director_resume", "ok"), hub)
    BY <1>0, <1>2
  <2> QED BY <1>0, <1>3, <1>21, <2>1 DEF Resume, Ordered
<1>22. CASE RewriteReport
  <2>1. /\ hub'.log = hub.log /\ hub'.source = hub.source /\ hub'.runnable = hub.runnable
        /\ pc' = "idle" /\ wt' = hub' /\ head' = hub'
    BY <1>0, <1>22 DEF RewriteReport, Tree
  <2>2. Same(hub', hub)
    BY <2>1 DEF Has
  <2> QED BY <1>0, <1>3, <2>1, <2>2 DEF Ordered
<1>23. CASE Rebuild
  BY <1>0, <1>3, <1>23 DEF Rebuild
<1>24. CASE UNCHANGED vars
  BY <1>24 DEF vars, CommitInv, Ordered
<1> QED
  BY <1>5, <1>6, <1>7, <1>8, <1>9, <1>10, <1>11, <1>12, <1>13, <1>14, <1>15, <1>16,
     <1>17, <1>18, <1>19, <1>20, <1>21, <1>22, <1>23, <1>24 DEF Next, RunStep

LEMMA GuardInvariant == Spec => [](CallInv /\ CommitInv /\ GuardInv)
<1>1. Init => CallInv /\ CommitInv /\ GuardInv
  BY CallInit, GuardInit
<1>2. CallInv /\ CommitInv /\ GuardInv /\ [Next]_vars => CallInv' /\ CommitInv' /\ GuardInv'
  BY CallStep, CommitStep, GuardStep
<1> QED BY <1>1, <1>2, PTL DEF Spec

\* An auto-merge that any tree has on record is one of a report and findings
\* that a verify round went with, whatever was killed, failed, resumed, rebuilt
\* or rewritten in between. The decision looks for specs that would run by
\* themselves in the files of the committed diff alone, so the tree holds one
\* only if a run was cut off between the verify entry and its commit
\* (loop._run_report_only, policy.report_only_decision,
\* loop.report_verify_confirmed).
THEOREM AutoMergesAreVerified == Spec => []AutoMergeVerified
<1>1. GuardInv => AutoMergeVerified
  <2> SUFFICES ASSUME GuardInv, NEW t \in {wt, head, hub}, NEW i \in DOMAIN t.log,
                      t.log[i].action = "terminal",
                      t.log[i].outcome = "MERGE_DECIDED:auto_merge"
               PROVE  Verified(t, t.log[i].content) /\ (t.runnable => lost)
    BY DEF AutoMergeVerified
  <2>1. TreeOk(t, lost)
    BY DEF GuardInv
  <2> QED BY <2>1 DEF TreeOk, AutoMerge
<1> QED BY <1>1, GuardInvariant, PTL

-----------------------------------------------------------------------------
(* The last mark of a log, and the state it stands for *)

Less == {p \in Nat \X Nat : p[1] < p[2]}

LEMMA LeastNumber ==
    ASSUME NEW T, T \subseteq Nat, T # {}
    PROVE  \E n \in T : \A m \in T : n <= m
<1>1. IsWellFoundedOn(Less, Nat)
  BY NatLessThanWellFounded DEF OpToRel, Less
<1>2. PICK n \in T : \A m \in T : <<m, n>> \notin Less
  BY <1>1, WFMin
<1>3. ASSUME NEW m \in T
      PROVE  n <= m
  <2>1. m \in Nat /\ n \in Nat /\ <<m, n>> \notin Less
    BY <1>2
  <2> QED BY <2>1 DEF Less
<1> QED BY <1>3

\* Positions are bounded by the length, so a set of them has a last one.
LEMMA LatestIsMember ==
    ASSUME NEW n \in Nat, NEW S \in SUBSET (1 .. n), Replay!Latest(S) # 0
    PROVE  Replay!Latest(S) \in S
<1>1. S # {} /\ Replay!Latest(S) = CHOOSE i \in S : \A j \in S : j <= i
  BY DEF Replay!Latest
<1>2. \A i \in S : i \in Nat /\ 1 <= i /\ i <= n
  OBVIOUS
<1> DEFINE Bounds == {k \in Nat : \A i \in S : i <= k}
<1>3. PICK m \in Bounds : \A k \in Bounds : m <= k
  <2>1. n \in Bounds
    BY <1>2
  <2> HIDE DEF Bounds
  <2>2. Bounds \subseteq Nat
    BY DEF Bounds
  <2> QED BY <2>1, <2>2, LeastNumber
<1>4. m \in Nat /\ \A i \in S : i <= m
  OBVIOUS
<1>5. m \in S
  <2> SUFFICES ASSUME m \notin S PROVE FALSE
    OBVIOUS
  <2>1. PICK i \in S : i \in Nat /\ 1 <= i /\ i <= m
    BY <1>1, <1>2, <1>4
  <2>2. m - 1 \in Nat /\ \A j \in S : j <= m - 1
    BY <1>2, <1>4, <2>1
  <2>3. m <= m - 1
    BY <1>3, <2>2
  <2> QED BY <1>4, <2>3
<1> QED BY <1>1, <1>4, <1>5

\* A success that a log ends in is one of its entries.
LEMMA LastSuccessIsEntry ==
    ASSUME NEW t \in Tree, Succeeded(Replay!last_terminal_state(t.log))
    PROVE  \E i \in DOMAIN t.log : IsSuccess(t.log[i])
<1> DEFINE marks == {i \in DOMAIN t.log : Replay!IsMark(t.log[i])}
           last == Replay!Latest(marks)
<1>1. Replay!LastMark(t.log) = last
  BY DEF Replay!LastMark
<1>2. Replay!last_terminal_state(t.log) =
        IF last = 0 THEN NoState ELSE Replay!MarkState(t.log[last])
  BY <1>1 DEF Replay!last_terminal_state, Replay!NoState, NoState
<1>3. last # 0
  BY <1>2, StateNames
<1>4. last \in marks
  <2>1. Len(t.log) \in Nat /\ marks \in SUBSET (1 .. Len(t.log))
    BY DEF Tree
  <2> HIDE DEF marks
  <2> QED BY <1>3, <2>1, LatestIsMember
<1> QED BY <1>2, <1>3, <1>4 DEF IsSuccess

\* The path guard looks at the committed tree, and the tail commits the working
\* tree: the two differ in source edits only when a run was cut off between the
\* verify entry and its commit. A tree with source edits is therefore never one
\* that says it succeeded, for any number of kills, failing steps, resumes and
\* rebuilds, unless that happened (loop._run_report_only, path_guard,
\* loop._finalize).
THEOREM SuccessesAreGuarded == Spec => []SuccessIsGuarded
<1>1. CallInv /\ GuardInv => SuccessIsGuarded
  <2> SUFFICES ASSUME CallInv, GuardInv, NEW t \in {wt, head, hub},
                      Succeeded(Replay!last_terminal_state(t.log))
               PROVE  t.source => lost
    BY DEF SuccessIsGuarded
  <2>1. t \in Tree /\ TreeOk(t, lost)
    BY DEF CallInv, TypeOK, GuardInv
  <2>2. PICK i \in DOMAIN t.log : IsSuccess(t.log[i])
    BY <2>1, LastSuccessIsEntry
  <2> QED BY <2>1, <2>2 DEF TreeOk
<1> QED BY <1>1, GuardInvariant, PTL
================================================================================
