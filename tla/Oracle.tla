------------------------------- MODULE Oracle -------------------------------
(***************************************************************************)
(* The oracle on the Director's main: which merges a run reviewed, the     *)
(* escapes found in shipped code, and the run log they are counted from    *)
(* (orchestrator/oracle/: cli, runlog, escapes, scope, trigger). The flags *)
(* of one task, `Task`, are followed event by event; main also takes       *)
(* merges of other tasks.                                                  *)
(***************************************************************************)
EXTENDS Flags

CONSTANTS
  Task, Other,          \* the task followed, and any other
  TaskBuckets, OtherBuckets,   \* bounds on the blast radii of their merges
  MaxMerges,            \* bound on merges on main
  MaxRuns,              \* bound on recorded runs
  L1_SAMPLE_EVERY, TRIGGER_TASK_COUNT   \* thresholds

ASSUME OracleAssumption ==
  /\ TaskBuckets \subseteq {"L1", "L2", "L3", "none"} /\ OtherBuckets \subseteq {"L1", "L2", "L3", "none"}
  /\ MaxMerges \in Nat /\ MaxRuns \in Nat
  /\ L1_SAMPLE_EVERY \in Nat \ {0} /\ TRIGGER_TASK_COUNT \in Nat

VARIABLES
  main,     \* the agent merges of main, oldest first
  runlog,   \* oracle/run-log.jsonl
  session   \* the record-run command under way

vars == <<flagVars, main, runlog, session>>

\* A merge ships product files of a bucket, or artifacts alone ("none").
Merge == [task : {Task, Other}, bucket : {"L1", "L2", "L3", "none"}]

(***************************************************************************)
(* Reading. A sha of main is a position, 0 the root; a run covers the      *)
(* merges of from + 1 .. to.                                               *)
(***************************************************************************)
Runs == {n \in DOMAIN runlog : runlog[n].action = "oracle-run"}
NoMark == -1

\* The end of the last run.
watermark == IF Runs = {} THEN NoMark ELSE runlog[CHOOSE n \in Runs : \A m \in Runs : m <= n].to

\* merged_tasks_in_range: merges without a product diff are no oracle scope.
merged_in(from, to) == {i \in from + 1 .. to : main[i].bucket # "none"}

\* Mutant of Reviewed: every Nth merge of any kind.
ReviewedEveryNth(from, to) ==
  {i \in merged_in(from, to) : Cardinality({j \in merged_in(from, to) : j < i}) % L1_SAMPLE_EVERY = 0}

\* select_scope: all of L2 and L3, and every Nth of L1 in order.
Reviewed(from, to) ==
  {i \in merged_in(from, to) :
     main[i].bucket = "L1" =>
       Cardinality({j \in merged_in(from, to) : j < i /\ main[j].bucket = "L1"}) % L1_SAMPLE_EVERY = 0}
Skipped(from, to) == merged_in(from, to) \ Reviewed(from, to)

authentic_ids == {runlog[n].flag : n \in {m \in DOMAIN runlog : runlog[m].action = "escape-raised"}}

\* Mutant of iter_escapes: every escape of the task logs counts.
IterAllEscapes ==
  LET flags == derive_flags(log["main"])
  IN {i \in DOMAIN flags : flags[i].kind = ORACLE_ESCAPE}

\* iter_escapes: the escapes of the task logs that the run log vouches for.
iter_escapes ==
  LET flags == derive_flags(log["main"])
  IN {i \in authentic_ids \cap DOMAIN flags : flags[i].kind = ORACLE_ESCAPE}

\* oracle_due and trigger.check; `aged`: TRIGGER_MAX_DAYS passed since the last run.
oracle_due(aged) ==
  \/ watermark = NoMark
  \/ Cardinality(merged_in(watermark, Len(main))) >= TRIGGER_TASK_COUNT
  \/ \E i \in merged_in(watermark, Len(main)) : main[i].bucket = "L3"
  \/ aged

(***************************************************************************)
(* Steps.                                                                  *)
(***************************************************************************)
NoSession == [pc |-> "none", to |-> 0]

Init == FlagsInit /\ main = <<>> /\ runlog = <<>> /\ session = NoSession

\* The Director merges: of the task followed, main receives the log of the
\* pushed branch, if that continues main's.
Continues == Len(log["main"]) <= Len(pushed) /\ SubSeq(pushed, 1, Len(log["main"])) = log["main"]

MergeTask ==
  /\ Len(main) < MaxMerges /\ pushed # <<>> /\ Continues
  /\ \A w \in Directors : cmd[w].pc = "idle"
  /\ \E b \in TaskBuckets : main' = Append(main, [task |-> Task, bucket |-> b])
  /\ log' = [log EXCEPT !["main"] = pushed]
  /\ UNCHANGED <<pushed, cmd, acked, jobs, kills, resets, plants, runlog, session>>

MergeOther ==
  /\ Len(main) < MaxMerges
  /\ \E b \in OtherBuckets : main' = Append(main, [task |-> Other, bucket |-> b])
  /\ UNCHANGED <<flagVars, runlog, session>>

\* The branch of a merged task is gone from the hub; a rework starts in a
\* worktree cut from main.
Rework ==
  /\ resets < MaxResets /\ resets' = resets + 1
  /\ \E i \in DOMAIN main : main[i].task = Task
  /\ \A w \in Workers : cmd[w].pc = "idle"
  /\ acked' = {a \in acked : a.at = "main"}
  /\ log' = [log EXCEPT !["wt"] = log["main"]] /\ pushed' = <<>>
  /\ UNCHANGED <<cmd, jobs, kills, plants, main, runlog, session>>

\* A finding whose command was killed may be recorded again, as long as the
\* ledger the Director reads does not count it.
Escape(w) ==
  /\ log["main"] # <<>> /\ Enter(w)
  /\ LET flags == derive_flags(log["main"])
         escapes == {i \in DOMAIN flags : flags[i].kind = ORACLE_ESCAPE /\ flags[i].key # 0}
         keys(S) == {flags[i].key : i \in S}
     IN \E k \in {FreshKey(w)} \cup (keys(escapes) \ keys(iter_escapes)) :
          (\A v \in Directors : cmd[v].key # k) /\ RaiseFlag(w, k)
  /\ UNCHANGED <<main, runlog, session>>

\* append_escape, the second half of raise_oracle_escape.
AppendEscape(w) ==
  /\ cmd[w].pc = "anchor"
  /\ runlog' = Append(runlog, [action |-> "escape-raised", flag |-> cmd[w].id])
  /\ cmd' = [cmd EXCEPT ![w] = Idle]
  /\ UNCHANGED <<log, pushed, acked, jobs, kills, resets, plants, main, session>>

\* record-run [--since <sha>] --to <sha>: the endpoint is resolved first.
RecordStart ==
  /\ session.pc = "none" /\ Cardinality(Runs) < MaxRuns
  /\ \E to \in 1 .. Len(main) :   \* bound: a run ends at a merge
       session' = [pc |-> "append", to |-> to]
  /\ UNCHANGED <<flagVars, main, runlog>>

\* _resolve_scope starts at --since, on any run and wherever that lies, or at the
\* watermark, and refuses when there is neither.
from_sha(since) == IF since = NoMark THEN watermark ELSE since
Starts == {from_sha(since) : since \in {NoMark} \cup 0 .. Len(main)} \ {NoMark}

RecordedFindings == UNION {runlog[n].findings : n \in Runs}

\* Mutant of RunFindings: a rework's run takes the old ones again.
RunFindingsAgain(reviewed) ==
  IF \E i \in reviewed : main[i].task = Task THEN iter_escapes ELSE {}

\* An escape belongs to the run that is first to record it.
RunFindings(reviewed) ==
  IF \E i \in reviewed : main[i].task = Task THEN iter_escapes \ RecordedFindings ELSE {}

\* The range is walked to the commit that was resolved.
RunRecord(from, to) ==
  LET reviewed == Reviewed(from, session.to)
  IN [action |-> "oracle-run", from |-> from, to |-> to, reviewed |-> reviewed,
      skipped |-> Skipped(from, session.to), findings |-> RunFindings(reviewed)]

\* Mutant of RecordAppend: the run is said to end at main as it is now.
RecordAppendMain ==
  /\ session.pc = "append" /\ session' = NoSession
  /\ \E from \in Starts : runlog' = Append(runlog, RunRecord(from, Len(main)))
  /\ UNCHANGED <<flagVars, main>>

RecordAppend ==
  /\ session.pc = "append" /\ session' = NoSession
  /\ \E from \in Starts : runlog' = Append(runlog, RunRecord(from, session.to))
  /\ UNCHANGED <<flagVars, main>>

Next ==
  \/ FlagsNext /\ UNCHANGED <<main, runlog, session>>
  \/ MergeTask \/ MergeOther \/ Rework
  \/ \E w \in Directors : Escape(w) \/ AppendEscape(w)
  \/ RecordStart \/ RecordAppend

Spec == Init /\ [][Next]_vars

(***************************************************************************)
(* Properties                                                              *)
(***************************************************************************)
TypeOK ==
  /\ \A c \in Checkouts : \A n \in DOMAIN log[c] : log[c][n] \in FlagEvent
  /\ \A n \in DOMAIN pushed : pushed[n] \in FlagEvent
  /\ \A c \in Checkouts : jobs[c] \in 0 .. MaxJobs[c]
  /\ \A w \in Writers : cmd[w].pc \in {"idle", "append", "anchor"}
  /\ main \in Seq(Merge) /\ session.pc \in {"none", "append"}
  /\ authentic_ids \subseteq Ids /\ watermark \in {NoMark} \cup 0 .. Len(main)

\* "A dismissal drops the escape from the ledger, so it must never be reachable
\* from inside the loop" (resolve_flag): an escape is closed by a command of the
\* Director's that said so, or by a line the branch brought along, which nothing
\* can tell from one (its key is 0); never by a flag command of the loop node.
LoopClosesNoEscape ==
  \A i \in iter_escapes :
    LET d == derive_flags(log["main"])[i]
    IN d.status # "open" =>
         d.by = 0 \/ [at |-> "main", job |-> d.status, id |-> i, key |-> d.by] \in acked

\* What the flag commands of both checkouts promise: a raise or a resolution
\* that reported success is in the log, whole and under its own id.
FlagLogSound == TypeOK /\ RaisedVisible /\ ResolutionStands /\ LoopClosesNoEscape

\* The ledger counts each finding of the Director once and nothing else: not
\* what a branch wrote into its log, and not twice the finding whose command
\* was killed between its two appends and typed again.
LedgerCountsFindings ==
  LET flags == derive_flags(log["main"])
  IN /\ \A i \in iter_escapes : flags[i].key # 0 /\ flags[i].key % 2 = 0
     /\ \A i, j \in iter_escapes : flags[i].key = flags[j].key => i = j

\* The first run to end at a merge or past it started there or past it: the
\* Director's --since left the merge to no run.
SteppedOver(i) ==
  \E n \in Runs : i <= runlog[n].from /\ \A m \in Runs : m < n => runlog[m].to < i

\* Every merge of product files up to the watermark was reviewed, or named as
\* skipped, by a run, unless a --since stepped over it: no merge that lands while
\* a run is recorded is lost, and none to a run that starts at the watermark.
WatermarkCovers ==
  \A i \in 1 .. watermark :
    main[i].bucket # "none" =>
      SteppedOver(i) \/ \E n \in Runs : i \in runlog[n].reviewed \cup runlog[n].skipped

\* A run claims findings of merges it reviewed, and no two runs the same one.
FindingsOnce ==
  /\ \A n \in Runs : runlog[n].findings # {} => \E i \in runlog[n].reviewed : main[i].task = Task
  /\ \A n, m \in Runs : n # m => runlog[n].findings \cap runlog[m].findings = {}

\* A high-risk merge that no run reviewed keeps the trigger due, however the runs
\* overlap or go back, unless a --since stepped over it.
BlindSpotIsDue ==
  \A i \in DOMAIN main :
    main[i].bucket = "L3" /\ (\A n \in Runs : i \notin runlog[n].reviewed) =>
      SteppedOver(i) \/ oracle_due(FALSE)
=============================================================================
