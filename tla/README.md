# Formal models of laddy

laddy runs autonomous development tasks. On a VPS, a worker ("the loop")
drives developer and reviewer agents over a task branch, runs test gates, and
pushes the branch to a bare hub on the same machine. On a trusted machine a
person ("the Director") verifies and merges it. This directory holds TLA+ models
of the program's control, TLC configurations that check them on small
instances, and TLAPS proofs of the properties that matter most.

Paths are relative to the repository; `loop.py`, `run.py`, ... are files of
`orchestrator/`.

## 1. Inventory

### Parts, their state, their operations

| part | state it keeps | operations | modelled |
|---|---|---|---|
| convergence loop (`loop.py`) | none between phases: everything is replayed from files | phases explorer, developer, fast tests, rw1, rw2, authoritative gate, senior, push; finalizing tail; internal error | `DevLoop` |
| terminal taxonomy (`terminals.py`) | constants | stickiness, kind, push, resume channel of a state | `Terminals` |
| log replay (`loop.py`, `fingerprint.py`) | the iteration log | next phase, recorded terminal, resume grant, non-convergence, gate states | `LogReplay` |
| git trees (`gitops.py`, `gitdiff.py`) | worktree, task branch, hub branch | commit all, push, sync to hub, fresh worktree, code sha | in `DevLoop`, `ReportOnly`, `TaskQueue` |
| resume channel (`run.py`, `_phase_resume`) | entry in the log | validate, sync, append, commit, run the loop | `DevLoop` |
| run and queue locks (`queue.py`) | lock file with a pid, flock guard | acquire with reclaim of a dead holder, release | `RunLock` |
| task queue (`queue.py`, `run.py`) | numbered item files | enqueue (plain, chained), drain, remove | `TaskQueue` |
| JSONL files (`artifacts.py`) | event lines | append, read | `JsonlLog` |
| other task artifacts (`artifacts.py`, `fsutil.py`) | verdicts, sessions, summaries | write whole files | the ones replay reads are fields of the trees |
| report-only path (`loop.py`) | report, findings, a spec | investigate, verify, guard, decide | `ReportOnly` |
| merge policy (`policy.py`, `target_policy.py`) | none | merge decision, path guard, risk, blast radius | `MergePolicy` |
| quota and agent retries (`quota.py`, `agent_retry.py`) | budget of a run | wait, charge, retry | `AgentCall` |
| agents, verdict parsing (`agents.py`, `verdict.py`, `human_text.py`) | none | run a CLI, parse its answer | every outcome is possible |
| flags (`flags.py`) | entries in the log | raise, resolve, derive | `Flags` |
| gates before a run (`clarify.py`, `remote_ask.py`, `run.py`) | question and answer files, log entries | ask, answer, time out, approve a design | `Asks` |
| Director's merge (`local_merge.py`, `merge_check*.py`, `hub_tripwire.py`) | local main, hub main, origin | discover, judge, confirm, merge, push, delete | `LocalMerge`, its decision in `MergeGates`, the recomputed policy in `MergeRoute` |
| test gates (`testgate.py`) | none | run commands in Docker | pass, fail, flaky |
| handoff (`handoff.py`) | none | notify, handback | that a notification is sent |
| specs, roles, configuration | files, environment | parse | constants |
| oracle (`oracle/`) | run log with runs and escapes | escape, record a run, scope, trigger | `Oracle`; not its prompts, inputs and seeded evals |
| phone (`phone/`) | answer files | list questions, write an answer | in `Asks`; not its static files |
| note server, monitoring, scripts | small services and observers | HTTP handlers, samplers, shell | no |

### How they interact

The loop, the queue runner and the Director's commands are separate processes.
They share only files: the log and the verdicts in a task's worktree, git
branches, lock files, and the queue directory. No process keeps a fact in memory
that another one needs; a kill therefore leaves exactly the files. The queue
runner calls the loop in its own process, under the task's run lock. The
Director's resume edits the worktree first and takes that lock afterwards.

The Director's machine meets the VPS in the hub alone: it fetches task branches,
recomputes with its own copy of the policy what the loop decided, and pushes
main. Flags and oracle findings travel in the logs that a merge brings along.
Questions of the gates reach the Director through two files per task, which the
phone's server reads and writes.

### What is hard here

* A kill between two writes: agent output, verdict file, log entry, commit,
  push, notification, marker. Everything is resumed by replay.
* Three versions of the code at any time: in the worktree, committed, pushed.
  A verdict is keyed to one of them and a reviewer may have edited another.
* Exceptions in the code that handles the end of a run.
* Two commands on one task: resume, kickoff, queue, enqueue.
* A lock file that survives its holder, in a world that recycles pids.
* An append that stops in the middle of a line or of a character.
* Chains of tasks, of which one fails, is skipped, or is built anew.
* A branch that is judged on the trusted machine while the untrusted one goes on
  writing it, by a policy that may differ from the one it was decided under.
* A batch of merges in which each one changes what the next one lands on.
* Agents that answer malformed, run out of quota, or fail with a complete answer
  in their output, under one budget for all of them.
* Two commands that use the same question file; a phone that shows an old page.
* Findings counted from two files on a main that goes on moving.

`PROJECT.json` lists these as hazards, each at its line with the properties that
would show it going wrong.

## 2. Modules

| module | models | builds on |
|---|---|---|
| `Terminals` | `terminals.py` | |
| `LogReplay` | pure replay functions of `loop.py` | `Terminals` |
| `DevLoop`, `MCDevLoop` | the loop, its trees, failures, the Director | `LogReplay` |
| `DevLoopProofs` | theorems about `DevLoop` | `DevLoop` |
| `AgentCall` | `request_payload` over the quota runner | |
| `ReportOnly`, `MCReportOnly` | the report-only path of the loop | composes `AgentCall`, `LogReplay`, `Terminals` |
| `ReportOnlyProofs` | theorems about `ReportOnly` | `ReportOnly` |
| `RunLock` | `queue._acquire_lock` and release | |
| `JsonlLog`, `MCJsonlLog` | `append_jsonl`, `read_jsonl` | |
| `FileProofs` | theorems about `RunLock` and `JsonlLog` | `RunLock`, `JsonlLog` |
| `TaskQueue`, `MCTaskQueue` | enqueue commands, queue runner, direct loops | abstracts `DevLoop` and `RunLock` |
| `TaskQueueProofs` | theorems about `TaskQueue` | `TaskQueue` |
| `MergeGates` | `decide`, the gate results, the tripwire's reading | |
| `TrustedMain` | what the merge tool promises of main: the abstract specification | |
| `LocalMerge`, `MCLocalMerge` | the Director's merge tool | `TrustedMain` (its variables and the promise), `MergeGates` |
| `LocalMergeProofs` | theorems about `LocalMerge`, the refinement among them | `LocalMerge` |
| `MergePolicy` | `policy.py`, `target_policy.py`, `merge_check*.py` as functions | |
| `MergeRoute`, `MCMergeRoute` | a branch from the loop's decision to the Director's | composes `MergePolicy`, `MergeGates` |
| `MergeRouteProofs` | theorems about `MergeRoute` | `MergeRoute` |
| `Flags` | `flags.py` and the log lock, on two checkouts | |
| `Oracle`, `MCOracle` | runs, escapes, scope and trigger on main | composes `Flags` |
| `OracleProofs` | theorems about `Flags` and `Oracle` | `Oracle` |
| `Asks`, `MCAsks` | the gates before a loop and the phone | |
| `AsksProofs` | theorems about `Asks` | `Asks` |

### DevLoop

State: `wt`, `head`, `hub` are the working, committed and pushed tree. A tree has
the log, the version of the code, the risk and blockers of the stored verdicts
and the recorded merge decision. `pc` is the place of the loop process, `job` the
log entry a finished phase is about to append, `fin` the terminal that the tail
records. `behind` says that the hub branch has a commit the worktree lacks;
`director` is the place of a resume command. `told`, `pinged`, `exit` and the field
`seen` of a log entry are history: who was told what, how the last process
ended, and which version a reviewer really had in front of it.

Each phase is cut where the process can die with a different disk: the agent
ran (`RunDeveloper`, `RunRw1`, ...), the entry was appended (`AppendEntry`), the
tree was committed (`CommitEntry`). The tail (`FinalCommit` ... `MarkerPush`) and
the error handler (`ErrorAppend`, `ErrorCommit`, `ErrorNotify`) are one action per
effect. `Phase` is the decision of `_run_phases`: the resume grant first, then the
overrides for non-convergence and risk. `Kill` and `StepFails` may strike at any of
those points.

Decisions of abstraction:

* Every agent may edit the code, reviewers too: they run with the same
  permissions in the same worktree (`agents.py:107`). Agents are assumed not
  to commit; the orchestrator does.
* Code versions are numbers, a fresh one for each edit; what the policy says
  about a diff is a function of the version (`InvariantCodes`, `StopCodes`).
* The Docker gate is always part of a code task (`run._build_orchestrator`). The
  notification variant of an auto-merge is folded into the auto-merge decision.
* A second `INTERNAL_ERROR` marker right after one is not logged again: nothing
  that is replayed depends on their number.
* Sessions, prompts, quota entries, summaries and handbacks are left out.
* An append is whole or absent here; torn ones are the subject of `JsonlLog`.
* `Next` gives the Director the discipline of `USAGE.md` section 8: one command at
  a time for a task, and a pushed correction is followed by a resume.

### RunLock

A process moves through the statements of `_acquire_lock`: `flock` on the guard,
read the pid, ask whether it is alive, truncate, write, close the guard; later
unlink, without the guard. The kernel starts processes with any pid no live
process has, and releases the guard of a dead one. `recycled` remembers the pids
that were handed out twice: the one case in which the file may name a live
process that has nothing to do with the lock (`queue._pid_alive` says so).

### JsonlLog

The file is a sequence of tokens: the two halves of an event's JSON, its text
between them if it is of a kind that matters to the reader (a character that
`str.splitlines` takes for a line end; a character of two bytes), and the newline.
`AppendJsonl` writes all, `TornAppend` a proper prefix. The reader is the three
operators `Corrupt`, `Undecodable` (it raises) and `Entries`.

### TaskQueue

`queue` is the set of item files with their sequence numbers; `call` what each enqueue
command has still to write; `runner`, `cur`, `rc`, `deferred`, `blocked` the locals of
`_phase_queue`. Trees are sets of commits with the terminal their log records.
A run is `Begin` and `End` (success, sticky failure, retryable failure), or it
dies; what happens in between is `DevLoop`. `Drain` may follow a finished pass at
any time. The lock operations are single actions: `RunLock` shows they may be.
`Kickoff`, `Resume` and `RemoveWorktree` are the Director's commands on the same
tasks. The runner looks at an existing worktree before it takes the run lock and
fetches (`run.py:992`); the history variable `meanwhile` records that a kickoff
got the lock of the chosen task in between.

### AgentCall and ReportOnly

`AgentCall` is one call of an agent: `tries` counts the runs that were not accepted,
`attempt` the quota waits of the present run, `spent` is the budget object that all
agents of a run share, and `slept` the time really slept. A reply is ok, an
error or a quota message, with or without a valid payload, and every reply may
come at any time. Time is counted in units of the policy's numbers.

`ReportOnly` cuts the path as `DevLoop` does: agent (with whatever it edits),
files written, entry appended, tree committed, guard and decision, the steps
of the tail. A tree has the log, how the report came about (from an accepted
payload, from a failed run's, rewritten by the Director), the version of the
findings, whether source files are touched and whether a spec would run by
itself. `GuardAndDecide` looks at the committed tree: `changed_files` is
`git diff origin/main...HEAD` (`gitdiff.py:63`). What was verified, and the text of
a changed spec, the decision reads from the worktree (`Seen`). `lost` is history: a
run ended with the verify round in the log and not in a commit. The log is read
with the operators of `LogReplay`, and the Director may resume, rewrite the report
on the hub, or rebuild the VPS. Left out: the notification, modelled in `DevLoop`, and the ending in `PUSHED` without a policy
(`policy_enabled` is the default of every run).

### TrustedMain, MergeGates and LocalMerge

`TrustedMain` has three variables: `main`, the commits of local main with the record
of waivers and the main they were judged on; `origin`, how many of them are
published; `hub`, the version at the tip of each task's branch. It allows `Offer`
(the VPS pushes), `Land`, `OwnLand`, `Publish` and `Retire`.

`LocalMerge` has these three and the tool's own: the commit pinned (`cur`), the gate
results, the command line (`run`), git's unfinished merge (`mergeHead`), the scratch
worktrees, the tripwire's tracking ref (`seen`), the tasks merged in this run.
`Start` is everything up to the engine; `Discover`, `Pin`, `Gate`, `GateRaises`, `Confirm`,
`Merge`, `Commits`, `Aborts`, `Push` and `Delete` are the points at which the world may
look different to the next one. Around it the VPS pushes versions (`VpsPush`), somebody
writes the hub's main (`Tamper`), the Director publishes or commits himself, and a
run dies (`Crash`).

A commit is a task, a version and whether it is the Director's fix on top. What a
gate would say of a commit is given by the constants `Refused`, `Flagged` and
`Conflict`; agents that review a flagged commit may fail to answer, but not miss the
flaw. Main only grows, so a position names a commit of it. The Director's own
commits are assumed green with what they land on. The tripwire compares the hub's
main with positions, `Absent` and `Alien` (a commit local main lacks).

### MergePolicy and MergeRoute

A changed file is one of the kinds that the globs and its content tell apart (a
deleted test, a dropping migration, a ready spec of another task, ...), and a
`policy.toml` is the set of kinds each of its globs matches; glob syntax itself is
left out. `Reasons` are the stops of `merge_decision`, each with the condition of the
code. `check` and `check_local_fix` are the Director's recomputation.

`MergeRoute` puts them on the branch's way: the loop decides with the branch's own
policy (`Converge`), anything on the branch may be altered afterwards (`Tamper`), main's
policy may move, the Director may add a commit or start from main (`--local`), and
`Judge` recomputes with main's policy. The other gates are green there.

### Flags and Oracle

`Flags` has two logs of one task, the worktree's and main's, and commands that enter
the section under `log_lock`, decide on what they read, and append. The log is the
branch's to write, so agents may plant what `Forged` lists: an escape, with a gap
before its id (the case in which counting and taking the maximum differ), or the
resolution of a flag, an escape of the Director's included, or of the next flag to
come. A merge brings the planted lines to main. An agent that writes inside a
command's section or changes lines that are there, and a worktree replaced
during a command, are left out (section 3).

`Oracle` adds main's merges with their blast radius, the run log, and a
`record-run` session that pins its end before merges go on. Where it starts is
settled when the range is walked: at `--since`, which the Director may give on any
run and for any commit, or at the watermark (`from_sha`, `Starts`). A finding is two
appends to two files (`AppendEvent`, `AppendEscape`) with a possible kill between;
the killed command may be typed again, as long as the ledger, which the Director
reads, does not count its finding. A sha of main is a position.

### Asks

`gate` is the place of each command in clarify, design and loop, `question` and `answer`
the ids in the two files, `tmp` and `file` the temporary file and the contents of all
files that ever had a name, so that a rename hands over what another request
may still write into. `PollNone`, `PollStale`, `DropStale` and `PollAnswer` are a poll, and
`LeaveQuestion` and `Leave` the end of an ask, cut where another process may act. The
phone answers any question that was ever asked: a page that listed it may be old.
Answers are "approve" or anything else.

`spec` is the spec as the parts it is put together from, and whether it reads as
high-risk. A clarify gate updates it in the three steps of the code, without a lock:
it reads the text (`ReadSpec`, into its `draft`), opens the file empty
(`TruncateSpec`) and writes the old text with its block (`WriteSpec`), over
whatever another gate wrote since. A question or an answer may name a sensitive
path, so a write may make the spec read high-risk; `Design` and `Loop` read it anew.
History: `declared`, whether the Director's spec was a high-risk one; `recorded`, the
answers of the gates that are done; `raced`, whether a gate read or wrote the spec
while another wrote it, or was killed while it did. The text goes out in one
write. The explorer's text is left out; a failing explorer too.

## 3. Runs

Passing runs:

| run | question | bounds |
|---|---|---|
| `devloop_crash` | does every guarantee survive a kill, two failing steps and a quota timeout, at any point? | one round before the cap, two edits, low risk, code 2 touches invariant tests, hence the senior |
| `devloop_resume` | does it survive a resume, a push from another clone, a kill and a rebuilt VPS? | one round and one granted, two edits |
| `devloop_live` | does every started task end in a recorded sticky outcome? | one kill, one fault, one quota timeout, no edits, with explorer and senior |
| `runlock` | is the lock exclusive, its file truthful, its guard never stuck? | three processes, three pids |
| `jsonl` | does the reader return what was appended, or raise? | five appends of three kinds of text, three torn |
| `taskqueue` | is no task lost, duplicated, run out of order, on the wrong base, or starved? | a chain of two and a single task, two commands, one direct command, one fault |
| `localmerge` | does main only gain what was judged, whatever moves meanwhile? | two tasks, three versions, two commits of main, batches of two, one kill, one tampering |
| `reportonly` | is an auto-merge only recorded for the report that was verified? | two runs, one kill, one failing step, two doings of the Director; one retry, backoff 1 then 2, budget 5 |
| `mergeroute` | does what main's policy stops stay stopped on every route? | diffs of up to two of 16 kinds, three policies, two alterations |
| `oracle` | are ids unique, findings counted once, no merge skipped but by `--since`? | one command on the loop node, two on the Director's side, two merges (the task's of L1, others of L3 or without product files), two runs that end at a merge, one kill, one rework, one planted event; not a planted event and a second run both |
| `asks` | is only an answer to the very question taken, and does every ask end? | two commands, two requests, up to two questions, two answers, one kill; command 1 asks first, answers to clarify questions say approve |

What the properties say:

* `ApprovalsBindCode`: an approval keyed to the code of a tree was given on that
  code, in all three trees.
* `PushFullyGated`: a recorded push has, since the last developer round, the whole
  chain of passed gates behind it, in order, or a senior approval in place of
  the reviews, with the authoritative gate last.
* `NoLostNotification`: a log that stops re-kickoffs belongs to an episode whose
  outcome was notified; `ReturnsReported`: a run that returns has notified.
* `PushedIsPublished`: what a push entry says was pushed is on the hub.
* `GuaranteesHold`: the state properties above, across episodes, and `RoundsBounded`:
  developer rounds never exceed the cap plus the grants.
* `RecordKept`, of every step: what the hub's log shows stays, and the first entry
  behind one that stops re-kickoffs is a resume.
* `AutoMergeEarnedUndisturbed`: without kill and fault, an auto-merge decision that
  is announced is true of the pushed code. (With a kill it is not: below.)
* `EventuallyFinished`: retryable ends are retried to a sticky one.
* `MutualExclusion`, `FileNamesHolder`, `AttemptsDecided`: see `RunLock`.
* `ReadsWhatWasAppended`, `HoleOnlyAtEnd`: a log read without an exception lacks
  at most the last event, whatever was torn and whatever the texts; while nothing or
  only the last append was torn, and no text breaks lines, it is read without one.
* `NoDuplicateItems`, `NothingVanishes`, `RunsInOrder`, `BuildsOnBase`: the queue's
  promises about its items, their order and the trees chained tasks build on.
  `PassEnds`: a pass never waits for somebody else's loop. `IndependentLeaves`: a
  stopped chain does not hold up an independent task.
* `MainTrusted`: no commit in main is refused by a gate or clashes with what it
  stands on, except for the Director's own commits after it was judged
  (`MainSound`); waived findings are in the record of the same merge
  (`WaiversRecorded`); nothing is merged twice (`MergedOnce`). `NothingHalfMerged`: only
  a kill leaves an unfinished merge. `TripHolds`: no run starts on a hub whose main is
  gone, rewound or foreign. `KeepsPromise`: `LocalMerge` implements `TrustedMain`, so
  a branch is retired only after its task was published.
* `AutoMergeVerified`: a recorded auto-merge of a report is of the very report and
  findings a verify round went with, and over a spec that would run by itself only if
  the commit of that round was lost. `SuccessIsGuarded`: a success is in a tree with
  source edits only in that same case, in which the guard does not see what the
  tail commits (below).
  `CallsSound`: nothing of a failed agent run becomes the report, and all waits
  stay within the run's budget. `RunEnds`: every run ends.
* `StopsHold`: a deleted test or dropping migration is never passed, and of an
  unaltered branch neither is a recorded stop. `SensitiveIsConfirmed`: sensitive
  files and empty diffs wait for the Director. `ReportsCarryNoCode`: a report task
  brings only specs that do not run by themselves.
* `FlagLogSound`: raises and resolutions that reported success are in the log
  under their id, and escapes are closed by a command of the Director's or by a
  line that no command wrote, never by the loop node's commands.
  `LedgerCountsFindings`, `WatermarkCovers`, `FindingsOnce`, `BlindSpotIsDue`: each
  escape counts once, no merge falls between two runs unless a `--since` stepped
  over it (`SteppedOver`), no finding is claimed by two, and an unreviewed high-risk
  merge that was not stepped over keeps the trigger due.
* `AnswersMatch`: whatever races, a Clarifications block has the answers to one
  gate's own questions (`BlocksMatch`); unless gates met in the middle of an update,
  or one died there, the spec is whole and has the blocks of all gates that are
  done (`SpecWhole`). `LoopNeedsApproval`, `FilesSound`, `EveryAskEnds`: no loop of a task
  whose spec reads high-risk without its approval, no dead question on the phone,
  no ask without end.

The type invariants are the proved `TypeCorrect` and `MergeTypes` for `DevLoop`,
`TaskQueue` and `LocalMerge`; `RunLock`'s is part of its proved invariant; in
`ReportOnly`, `MergeRoute`, `Oracle` and `Asks` they are the first conjunct of
`CallsSound`, `StopsHold`, `FlagLogSound` and `FilesSound`, which are proved too.

Why the bounds are enough to mean something: a second round, a second episode
and a second failing step (one in the handler of the first) all happen; two
edits give worktree, commit and hub three different versions; three processes
allow two reclaimers beside a releasing holder, and three pids with three
processes make recycling unavoidable; two tasks make a chain with a first and
a dependent link; two commits of main are a task's on another task's, or on one
of the Director's that came after it was judged; two runs of a report task are one
that fails and the retry that finds its entries, and two waits of it exhaust the
budget; a stop of the policy needs at most two kinds of files (one that stops and
one that might cover it up), and two alterations are a falsified log and a
falsified decision; two runs of the oracle have a watermark between them; two
commands overlap in all orders, and two requests share the temporary file. Each
run reaches its interesting cases: for every property `PROJECT.json` names a
plausible bug of the mapped code (a mutant operator beside the definition, marked
"Mutant") under which the same run finds it violated.

`CHECK_DEADLOCK FALSE` appears where the program really stops: the Director and the
kernel may never act again, and the counts of kills, merges or answers run out.

One run shows a disagreement between code and text:

| run | what it shows |
|---|---|
| `claim_report` | a failing push after a malformed investigator leaves an entry that the retry takes for a finished investigation; it verifies nothing and decides to auto-merge an empty deliverable, against the docstring of `_recorded_terminal` (`loop.py:87`) |

Observed limits that have no run of their own, and are not claimed by the
passing ones:

* A kill between the marker and its push leaves the hub without the marker;
  no re-kickoff pushes it (`loop.py:968`).
* A resume after such a kill may replay a log that ends before the push entry.
  Its next phase is push, which the grant does not override (`loop.py:158`).
* A kill between verdict file and log entry pairs an old "nogo" entry with the
  later verdict; the narrow re-review then has no blocker (`loop.py:1339`).
* Once a commit of another clone is on the branch, every retry of
  `INTERNAL_ERROR` fails in the same push (`gitops.py:214`).
* After a torn append, the next one is lost with it, and the one after makes
  every reader raise (`artifacts.py:88`). `HoleOnlyAtEnd` says it does raise.
* A kickoff of a chained task between the runner's look at its worktree and its
  taking the run lock may leave a worktree on the default branch, without a
  branch on the hub; the queued run then works there without its base
  (`run.py:992`). `BuildsOnBase` excludes that case by `meanwhile`.
* A last line torn inside a character raises as well (`artifacts.py:110`).
* A resume passes validation while the loop is in its last steps, and resets its
  worktree (`run.py:525`), which the comment above it excludes. The models let a
  resume start only when no loop of the task runs.
* The tail run by the quota handler is outside the catch-all (`loop.py:823`): a
  failing push ends the process without notification.
* Edits of a killed agent are swept up by the tail's commit after the gates were
  compared with the old HEAD (`loop.py:1019`, `policy.py:391`): an auto-merge is then
  announced for code no gate saw. The Director's recomputation does not trust it.
* The same on the report-only path: when the verify entry is logged
  (`loop.py:1204`) and its commit is killed or fails (`loop.py:1213`), the retry
  has the round behind it, the guard sees a clean HEAD (`loop.py:1215`), the decision
  may be an auto-merge, and the tail's commit pushes what the agent edited
  (`loop.py:961`). `lost` marks that case. The Director's recomputation looks at
  the pushed diff.
* A completed append whose text has U+0085, U+2028 or U+2029 is unreadable
  (`artifacts.py:88`, `artifacts.py:110`): every later read raises. `HoleOnlyAtEnd`, whose
  run has such texts, says that nothing is dropped silently.
* The pass after a stopped chain runs the descendant on the failed branch
  (`run.py:959`).
* A run refused with return code 2 leaves the queue without a terminal
  (`run.py:1031`).
* A malformed or timed-out report task is pushed before the path guard looked at
  it (`terminals.py:45`).
* Report-only: a resume re-runs neither investigator nor verify, whose entries it
  keeps; after a malformed verify round a retry can only stop before the merge.
* Merge: a kill or a declined push after a merge leaves the branch "ready"; later
  runs report it as broken and never delete it. `Delete` may remove a version
  pushed in the meantime (`local_merge.py:1367`): `Retire` promises only that
  some version of the task was published.
* Policy: a deleted migration is stopped only where the migration globs are
  sensitive too (`policy.py:337`). The diff starts at `origin/<base>`, the policy comes
  from the local base; the model takes both from main.
* Flags that were raised and not yet committed are lost by a resume's reset
  (`gitops.py:170`). A file that git replaces while a command waits for its lock is
  a different file from the one locked, so two commands may be in the section.
* Oracle: an escape killed between its appends is not counted until it is typed
  again; nothing keeps a Director from typing one again that is counted, and it then
  counts twice (`oracle/cli.py:178`), so `LedgerCountsFindings` is about a Director
  who retypes only what the ledger lacks.
* Any run with `--since` past the watermark leaves the merges between to no
  run, and an L3 merge among them makes nothing due (`oracle/cli.py:74`).
* A resolution that a branch wrote into its log for an open escape is honoured
  once it is merged: the library's refusal (`flags.py:213`) binds commands, the ledger
  reads the log.
* Asks: a gate that removes a stale answer may remove the fresh one that replaced
  it (the deadline then ends it); two requests may publish a torn answer, or one
  fails (`phone/handlers.py:88`); the question file is written in place and may be
  read half; of two askers each removes the other's files, and the one left without
  waits for its deadline. A kill between the spec and the log, or two clarify
  gates one after the other in their updates, leave two Clarifications blocks
  (`run.py:307`). Two gates in the middle of their updates may lose a block, leave the
  rest of a longer text behind a shorter one, or read the file empty
  (`clarify.py:59`); a kill there leaves it empty. An empty spec parses as an
  ordinary task (`spec.py:91`), so the design gate is not asked (`run.py:661`,
  `run.py:709`). The models read spec and log in one step at the design gate and
  before the loop, and leave out an agent that writes a "design approved" entry
  into the log itself.

### Fairness

`DevLoop`: weak fairness of the loop's own steps (a live process goes on: agents
have timeouts, gates end), of a resume command, and of a kickoff when nothing
runs and the branch was not pushed to by others. The last is a person or the
queue reacting to the notification that `NoLostNotification` guarantees. Kills and
faults have no fairness and are finite by the budget.

`RunLock`: weak fairness of a process that has the guard, strong fairness of
`flock`: the kernel wakes waiters. Nothing is assumed about how long the lock
is held.

`TaskQueue`: weak fairness of the runner (its runs end: `EventuallyFinished`) and
of draining again. A loop started directly may hold its run lock for ever, and
`PassEnds` and `IndependentLeaves` hold all the same.

`ReportOnly`: weak fairness of the steps of a live run. Agents are killed by their
timeouts, quota waits are finite sleeps. Kickoffs are not fair: `RunEnds` is about a
run that was started.

`Asks`: weak fairness of polling and of the deadline of each gate, a loop with a
sleep. Nobody has to answer. The merge tool, the flags and the oracle are
commands of a person; no liveness is claimed of them.

## 4. Proofs

All theorems hold for every value of the constants that meets the named
assumptions (`ReplayAssumption`, `DevLoopAssumption`, `RunLockAssumption`,
`TaskQueueAssumption`, `TrustedMainAssumption`, `LocalMergeAssumption`,
`AgentCallAssumption`, `ReportOnlyAssumption`, `MergeRouteAssumption`, `FlagsAssumption`,
`OracleAssumption`, `AsksAssumption`, `JsonlAssumption`), which say what kind of value each constant is;
`LocalMergeAssumption` also that `Refused` is the union of the
three ways a gate refuses a commit, and that flagged commits are ones the panel
sees, those of blast radius above L1.

* `DevLoopProofs.TypeCorrect`. Types are not inductive alone: the notification and
  the marker take their state from `fin`, so the invariant adds that the tail
  always has one (`TailHasState`).
* `DevLoopProofs.ApprovalsBound`: `ApprovalsBindCode`. A verdict is keyed to HEAD,
  though the reviewer saw the worktree, so the property is true only because
  a version that differs from HEAD is a fresh one, which no older entry can name. The
  strengthening `BindInv` says that every sha in a log and every version in a
  tree is below the next fresh version, and that the entry still to be appended
  is bound as well. Each action then either copies a tree, appends a bound
  entry, or edits the code into a version no entry mentions.
* `DevLoopProofs.PushesAreGated`, `PushesArePublished`, `OutcomesAreAnnounced`,
  `ReturnsAreAnnounced`, `RoundsAreBounded` and their conjunction `LoopGuarantees`. None
  of these properties is inductive, because the replay decides from the log alone
  what a dead process left behind. `LoopInv` says what a log on any of the three
  trees may look like (`TreeSound`: each entry follows from the ones before it, the
  rounds are within cap and grants, a sticky state or a recorded push was announced
  in its episode), that the hub's log is the beginning of the committed one and that of
  the working one, that a push entry lies at most one past the end of the hub's
  log (`DiskInv`), and what the living process adds: the entry in flight follows the log
  (`JobFollows`), the tail records the decision taken on this log, after it was
  pushed and announced (`TailSound`), and nothing returns unannounced (`Reporting`).
  Entries are appended in one place (`TreeSound` of `Logged(tree, e)`), so that each
  action has to show only which entry it appends.
* `DevLoopProofs.UndisturbedMergesAreEarned`: `AutoMergeEarnedUndisturbed`. Its
  invariant `CalmInv` says, as long as no kill and no fault was spent, where edits may be
  uncommitted (`EditsCommitted`: the gates' HEAD is the reviewed code), that a finished
  log stops every run (`FinishedStops`: no later run decides again), and that a
  decision in the tail is one its gates passed, of the worktree before the tail's commit
  and of the committed tree after it (`DecisionEarned`). The error handler then runs
  only because the hub moved. A kill breaks the first of these already: it leaves
  edits that the next tail commits unseen (section 3).
* `DevLoopProofs.RecordIsKept`: the action property `RecordKept`. That the hub's log
  is a beginning of the committed one (`LoopInv`) gives its first half. For the
  other, `KeptInv` says that behind a hub log that stops re-kickoffs the worktree
  has nothing, or a resume first; that a run works on a log that does not stop it
  until it records its push or marker, which the log on the hub then lacks; and
  that both pushes publish the log of the worktree. A code-ready adoption resets to
  the hub after looking at the worktree's log only: it is safe because a log
  without any mark has no beginning with one (`NoMarkNoStop`).
* `ReportOnlyProofs.AgentCallsSound`: `CallsSound`, with `CallInv`: what was slept is what
  the budget was charged, and a state that is recorded is a terminal one.
  `AutoMergesAreVerified` and `SuccessesAreGuarded`: `AutoMergeVerified` and
  `SuccessIsGuarded`. `GuardInv` attaches to each success in a log what its tree must
  still show (`TreeOk`: no source edit, both phases in the log, hence no agent to come
  that could edit), and says what the process holds true between the path guard, the
  decision and the entry. The guard sees the commit and the tail commits the worktree,
  so `CommitInv` adds that the two agree about source and specs once the verify round
  is committed, after which no agent runs, and that a logged round without its
  commit is one about to be committed, or `lost`.
* `MergeRouteProofs.StopsAlwaysHold`, `SensitiveWaits`, `ReportsAreInert`: `StopsHold`,
  `SensitiveIsConfirmed`, `ReportsCarryNoCode`. The state adds little (`RouteInv`: no
  outcome before the Director's judgement); the work is in lemmas about the
  policy as functions: what leaks through `leaking_stop_reasons` and `check_local_fix`
  stops nothing, whatever the files and the policy are.
* `AsksProofs.ClarificationsMatch`, `RunsAreApproved`, `AskFilesSound`: `AnswersMatch`,
  `LoopNeedsApproval`, `FilesSound`. `AsksInv` says that a gate waits for a question it
  asked itself, the one after those it has answers to, and that a text it took is an
  answer given to it (`GateOk`), that whole files hold answers somebody gave,
  whatever names the files have and whoever still has them open (`PhoneOk`), that an
  approval on record was given to a design question, and that a question on the phone
  has a gate that asks or a kill behind it (`QuestionHeld`). The blocks of the spec and
  of every draft match whatever races. `RaceInv` is about what did not: as long as
  nothing raced, a gate that opened the spec is the only one there, and its draft is
  the text that was in it, whole, with its own block (`Fresh`).

* `FileProofs.LockExclusive`: `MutualExclusion`. The strengthening `LockInv`: live
  processes have different pids, the guard is exact, the holder's pid is in the file
  (`HolderNamed`), and whoever is between read and write while somebody holds
  the lock has read the holder's pid and not yet decided to write (`JudgeSound`). The unguarded
  unlink is harmless: it belongs to the only holder.
* `FileProofs.LockFileTruthful`: `FileNamesHolder`, from `LockInv` and the fact
  that the pids in the file and of live processes were handed out, so that a
  process started later with one of them has a recycled pid.
* `FileProofs.LogHoleOnlyAtEnd` and `LogReadsWhatWasAppended`: `HoleOnlyAtEnd` and
  `ReadsWhatWasAppended`, for any number of events, appends and torn appends. The
  reader selects the parsed lines by counting them, so it is restated as an
  operator on a file and what it returns is compared for a file and the file with
  one line more: the lines of the first stop where they did, and the rank of a
  stop is the number of good stops up to it (the place of the first that is not
  is the contradiction: a least counterexample takes the place of an induction).
  `FileInv` says that a file is corrupt for good (`Rotten`), or its ended lines are
  what was appended (`Sound`), or its last ended line is malformed and stands for
  at most the last event (`BadEnd`); `ReadInv`, that without a separator the second
  holds until something is appended to a torn line.

* `TaskQueueProofs.TypeCorrect`. The sequence number of a new item is one more
  than the greatest in use (`_next_seq`), so the invariant bounds them: a
  bounded set of numbers has a greatest one, its least bound, which
  well-foundedness of the naturals gives (`LeastOf`, `GreatestOf`). It also
  needs that the item worked on is in the queue (`CurQueued`).
* `TaskQueueProofs.QueuedOnce`, `NothingLost`, `ChainsInOrder`: `NoDuplicateItems`,
  `NothingVanishes` and `RunsInOrder`, with two more facts: whatever a pass has
  deferred blocks its descendants (`PassedOver`), and when the runner is about
  to remove an item its task is owed nothing or was refused (`AfterRun`).
* `TaskQueueProofs.ChainsBuildOnBase`: `BuildsOnBase`. A branch on the hub has work
  of its task, a running loop has a worktree, the runner's run has the task's
  run lock, and from the runner's look at the worktree to the run it has the
  base's work, unless a kickoff slips in (`BaseInv`).

* `LocalMergeProofs`: the inductive invariant `Inv` ties what the tool remembers to the
  world it was true of. While a commit is being confirmed and merged, it stands on
  the main it was judged on, later commits of main are the Director's own, and the
  waivers are those of its gates; a merge in progress is of the pinned commit; tasks
  reported as merged are in main; the tracking ref is the main of
  the hub that was last pushed or checked. `MainInit` and `MainStep` show it inductive.
  `MergeTypes`, `MergeMainTrusted`, `MergeNotHalf` and `MergeTripHolds` follow from it, and
  `MergeKeepsPromise` maps every step to a step of `TrustedMain` or to a stutter:
  `Commits` to `Land`, `VpsPush` to `Offer`, `DirectorCommits` to `OwnLand`, `Push` to `Publish`
  and `Delete` to `Retire`.

* `OracleProofs.FlagLogIsSound`: `FlagLogSound`. What the first event of an id says,
  and the first resolution after it, is settled by any log that begins with this one
  (`SettledFirst`, `SettledResolution`). `FlagsInv` keeps that true across appends, planted
  events, merges and reworks: one command per checkout is in its section and what it
  read still holds (`RaiseSound`, `ResolveSound`), ids and keys in the logs were handed
  out (`LogSound`, so the next id is new), and an acknowledgement stands in the log of
  its checkout (`AckStands`). `LoopClosesNoEscape` then rests on the keys: a resolution
  with a command's key is that command's, and the loop node's refuse escapes.
* `OracleProofs.LedgerIsExact`: `LedgerCountsFindings`, with `Counted`: each escape of
  the run log is a flag of main about a finding of its own, which no command under
  way is about. The proof failed at first for a model in which the Director might
  type a counted finding again: three commands reach it, the run allows two. The
  guard of `Escape` now says what is typed again.
* `OracleProofs.WatermarkIsCovered`, `FindingsCountOnce`, `BlindSpotsAreDue`:
  `WatermarkCovers`, `FindingsOnce`, `BlindSpotIsDue`, with `RunsInv`: runs and the
  session end within main, each run reviewed or skipped the merges of its range
  (`RunsCover`), and what it skipped is of bucket L1. A run that ends past a merge has it
  in its range, or steps over it, or comes after a run of which the same holds
  (`Taken`); so an unreviewed L3 merge that was not stepped over lies after the
  watermark. No arithmetic of the sampling is used: the theorems hold for every rate.

Each inductive invariant was checked by TLC on the constants of the component's runs
before it was proved.

Only model-checked: liveness and everything that involves ENABLED
(`EventuallyFinished`, `AttemptsDecided`, `PassEnds`, `IndependentLeaves`, `RunEnds`,
`EveryAskEnds`), which is out of the prover's reach. Every invariant of a passing
run is a theorem.

## 5. Not modelled, and what could follow

* The command lines and parsers at the edges: agents' CLIs, verdict syntax, specs,
  roles, environment, `policy.toml` and its globs, Docker and the test gate's
  commands, diff texts, prompts, summaries, handbacks. They are I/O or syntax; the
  models take every outcome their callers tell apart.
* The oracle's inputs, prompts and seeded evals: batch jobs that read.
* `monitoring/`: an observer that samples processes and rotates its files; nothing
  reads what it writes.
* The note server, the phone's static files, and the shell scripts.
* `new`, `status` and the lists that commands print: they change no state another
  part depends on, or only create a spec.

Possible next: an abstract lock that `RunLock` implements and `TaskQueue` uses; an
abstract life of a task that `DevLoop` and `ReportOnly` implement, with proofs of
both refinements.

## 6. Running

    tlc -workers 2 -config DevLoop_crash.cfg MCDevLoop.tla
    tlapm FileProofs.tla

Each run takes from a few seconds to about three minutes on two cores (`oracle` and
`asks` are the longest); the proofs take a few minutes per module.
