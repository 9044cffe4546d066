----------------------------- MODULE LocalMerge -----------------------------
(***************************************************************************)
(* The Director's merge tool (local_merge.py main, LocalMergeEngine,       *)
(* gather_gates, merge_branch, push_and_cleanup) against everything that   *)
(* moves while it runs: the VPS pushes task branches and may tamper with   *)
(* the hub's main, the Director commits to local main, the tool is killed. *)
(***************************************************************************)
EXTENDS TrustedMain, MergeGates

CONSTANTS
  BlastOf,      \* blast radius of each task's diff
  Stopped,      \* commits whose recomputed policy decision fails (merge_check, check_local_fix)
  Red,          \* commits whose own suite, coverage or scan is red
  Infra,        \* commits that touch the gate's own infrastructure
  Forged,       \* commits whose tree already carries a merge-advisory.md
  ArtifactOnly, \* commits that differ from main in .laddy/tasks only
  Textual,      \* the conflicts git itself sees; the others only a suite does
  Versions,     \* how many versions the VPS pushes of each task
  Fixes,        \* the commits the Director may name with --local
  None

CONSTANTS MaxMain, MaxTodo, MaxCrashes, MaxTampers   \* bounds of the instance

ASSUME LocalMergeAssumption ==
  /\ BlastOf \in [Task -> BlastRadius]
  /\ Refused = Stopped \cup Red \cup Infra
  /\ \A c \in Flagged : BlastOf[c.task] # "L1"
  /\ Forged \subseteq Commit /\ ArtifactOnly \subseteq Commit
  /\ Textual \subseteq Conflict
  /\ Versions \in [Task -> 0..MaxTip]
  /\ Fixes \subseteq {c \in Commit : c.fix}
  /\ None \notin Commit
  /\ MaxMain \in Nat /\ MaxTodo \in Nat /\ MaxCrashes \in Nat /\ MaxTampers \in Nat

VARIABLES
  vps,        \* versions the VPS has made of each task
  hubMain,    \* the hub's main: a position on local main, Absent or Alien
  seen,       \* the remote-tracking ref of the hub's main
  pc,         \* where the tool is; "off" when it is not running
  run,        \* how it was started: [dry, advisory, fix]
  todo,       \* tasks still to judge
  cur,        \* the commit under judgment (the pinned sha)
  base,       \* local main when its gates ran
  gates,      \* their results
  mergeHead,  \* an unfinished merge in the repository (MERGE_HEAD)
  scratch,    \* whether verify worktrees are on disk
  merged,     \* tasks reported as merged by this run
  best,       \* history: the furthest hub main the Director pushed or checked
  crashes, tampers

toolVars == <<run, todo, cur, base, gates, merged>>
worldVars == <<vps, hub, hubMain, origin>>
allVars == <<main, origin, hub, vps, hubMain, seen, pc, run, todo, cur, base,
             gates, mergeHead, scratch, merged, best, crashes, tampers>>

Modes == [dry : BOOLEAN, advisory : BOOLEAN, fix : Commit \cup {None}]
NoGates == [blast |-> "L1", attestation |-> "failed", tests |-> FALSE, coverage |-> FALSE,
            scanned |-> FALSE, infra |-> FALSE, security |-> FALSE, rw2 |-> FALSE]
Idle == [dry |-> TRUE, advisory |-> FALSE, fix |-> None]
Tip(t) == [task |-> t, n |-> hub[t], fix |-> FALSE]
Pcs == {"off", "list", "next", "gate", "confirm", "merge", "commit", "push", "delete"}

\* Command lines name up to MaxTodo tasks, a task twice if they like.
Lists == UNION {[1..k -> Task] : k \in 0..MaxTodo}

MergeInit ==
  /\ Init /\ hub = [t \in Task |-> 0]
  /\ vps = [t \in Task |-> 0]
  /\ hubMain \in {Absent, 0} /\ seen = hubMain /\ best = hubMain
  /\ pc = "off" /\ run = Idle /\ todo = <<>> /\ cur = None /\ base = 0 /\ gates = NoGates
  /\ mergeHead = None /\ scratch = FALSE /\ merged = {}
  /\ crashes = 0 /\ tampers = 0

(***************************************************************************)
(* Start of a run                                                          *)
(***************************************************************************)

\* The dirty-tree guard. It looks past the tool's own lane .laddy/tasks, so a
\* half-finished merge of artifacts alone is not seen.
CleanTree == mergeHead = None \/ mergeHead \in ArtifactOnly

\* A fix names a commit of the Director's in the repository: on a tip that was
\* fetched, or off main.
FixRefs == {c \in Fixes : c.n <= vps[c.task]}

\* main up to the engine: guard, tripwire, reconcile_stale_worktrees (which
\* clears the scratch or ends the run, as a vetoing Director does).
Start ==
  /\ pc = "off" /\ CleanTree
  /\ run' \in Modes /\ run'.fix \in FixRefs \cup {None}
  /\ \/ /\ HubOk(check_hub_main(seen, hubMain, Len(main)))
        /\ seen' = SeenAfter(seen, hubMain, Len(main))
        /\ best' = hubMain
     \/ run'.fix # None /\ UNCHANGED <<seen, best>>      \* no hub to consult
  /\ scratch' = FALSE
  /\ pc' = "list"
  /\ UNCHANGED <<main, worldVars, todo, cur, base, gates, mergeHead, merged, crashes, tampers>>

Ready == {t \in Task : hub[t] > 0}

\* Mutant: the discovery fetches and prunes the hub's main with the branches.
DiscoverFetchesMain ==
  /\ pc = "list"
  /\ todo' \in {s \in Lists : s # <<>> \/ Ready = {}}
  /\ seen' = hubMain
  /\ pc' = "next"
  /\ UNCHANGED <<main, worldVars, run, cur, base, gates, mergeHead, scratch, merged, best, crashes, tampers>>

\* The tasks named, or discover_ready: the fetch prunes the tracking refs of
\* deleted branches but never that of the hub's main.
Discover ==
  /\ pc = "list"
  /\ todo' \in IF run.fix # None THEN {<<run.fix.task>>}
               ELSE {s \in Lists : \/ s # <<>>
                                   \/ Ready = {}}
  /\ pc' = "next"
  /\ UNCHANGED <<main, worldVars, seen, run, cur, base, gates, mergeHead, scratch, merged, best, crashes, tampers>>

(***************************************************************************)
(* Judging one task: gather_gates and LocalMergeEngine._judge_one          *)
(***************************************************************************)

\* On to the next task, with nothing left of this one.
NextTask == /\ pc' = "next" /\ todo' = Tail(todo)
            /\ cur' = None /\ base' = 0 /\ gates' = NoGates
            /\ UNCHANGED run

\* The task is held, its verdict reported.
Held == NextTask /\ UNCHANGED merged

\* The worktree of the commit under judgment; a branch gone from the hub makes
\* the fetch raise, which holds the task as an engine failure.
Pin ==
  /\ pc = "next" /\ todo # <<>>
  /\ IF run.fix = None /\ hub[Head(todo)] = 0
     THEN Held /\ UNCHANGED scratch
     ELSE /\ cur' = (IF run.fix # None THEN run.fix ELSE Tip(Head(todo)))
          /\ scratch' = TRUE /\ pc' = "gate"
          /\ UNCHANGED <<run, todo, base, gates, merged>>
  /\ UNCHANGED <<main, worldVars, seen, mergeHead, best, crashes, tampers>>

\* The gates of commit c trial-merged into main, with the answers of the
\* panel and of rw2. A conflicting trial merge makes every gate of it red.
GatesOf(c, panel, rw2) ==
  LET clean == \A i \in DOMAIN main : ~Clash(c, main[i].c)
      b == BlastOf[c.task]
  IN [blast |-> b,
      attestation |-> IF c \in Stopped THEN "failed"
                      ELSE IF c.fix THEN "not_applicable" ELSE "passed",
      tests |-> clean /\ c \notin Red, coverage |-> clean, scanned |-> clean,
      infra |-> c \in Infra,
      security |-> SecurityBlockers(b, {panel}),
      rw2 |-> Rw2Blockers(b, rw2)]

\* A reviewer of a flagged commit may fail to answer but does not miss the flaw.
Answers(c) == IF c \in Flagged THEN PanelAnswer \ {"clean"} ELSE {"clean", "malformed"}

\* What the engine does with a verdict before any merge: a dry run prompts for
\* nothing and merges nothing, everything else waits for the typed task id.
Gate ==
  /\ pc = "gate"
  /\ scratch' = FALSE
  /\ \E panel \in Answers(cur), rw2 \in PanelAnswer :
       LET g == GatesOf(cur, panel, rw2)
       IN IF decide(g, run.advisory).kind = "broken" \/ run.dry
          THEN Held
          ELSE /\ pc' = "confirm" /\ gates' = g /\ base' = Len(main)
               /\ UNCHANGED <<run, todo, cur, merged>>
  /\ UNCHANGED <<main, worldVars, seen, mergeHead, best, crashes, tampers>>

\* A gate that raises: the worktrees are removed, the task is held.
GateRaises ==
  /\ pc = "gate" /\ scratch' = FALSE /\ Held
  /\ UNCHANGED <<main, worldVars, seen, mergeHead, best, crashes, tampers>>

\* confirm(): the exact task id, or anything else.
Confirm ==
  /\ pc = "confirm"
  /\ \/ pc' = "merge" /\ UNCHANGED toolVars
     \/ Held
  /\ UNCHANGED <<main, worldVars, seen, mergeHead, scratch, best, crashes, tampers>>

(***************************************************************************)
(* merge_branch                                                            *)
(***************************************************************************)

\* Mutant: the branch is merged, not the commit the gates saw.
MergeRef ==
  /\ pc = "merge" /\ hub[cur.task] > 0 /\ mergeHead = None /\ ~InMain(cur)
  /\ pc' = "commit" /\ mergeHead' = Tip(cur.task)
  /\ UNCHANGED <<main, worldVars, toolVars, seen, scratch, best, crashes, tampers>>

\* fetch, checkout, merge --no-commit of the pinned commit. The branch may be
\* gone (the fetch raises), an older unfinished merge or a conflict makes git
\* refuse (and the abort clears both), or there is nothing to merge.
Merge ==
  /\ pc = "merge"
  /\ IF run.fix = None /\ hub[cur.task] = 0 THEN Held /\ UNCHANGED mergeHead
     ELSE IF \/ mergeHead # None
             \/ InMain(cur)
             \/ \E i \in DOMAIN main : <<cur.task, main[i].c.task>> \in Textual
     THEN Held /\ mergeHead' = None
     ELSE pc' = "commit" /\ mergeHead' = cur /\ UNCHANGED toolVars
  /\ UNCHANGED <<main, worldVars, seen, scratch, best, crashes, tampers>>

Waived == decide(gates, run.advisory).advisory
HasRecord(t) == cur \in Forged \/ \E i \in DOMAIN main : main[i].rec /\ main[i].c.task = t

\* The commit of code and record together.
Commits ==
  /\ pc = "commit" /\ Len(main) < MaxMain
  /\ Waived # {} => ~HasRecord(cur.task)
  /\ main' = Append(main, [c |-> mergeHead, rec |-> Waived # {}, base |-> base])
  /\ mergeHead' = None
  /\ merged' = merged \cup {cur.task}
  /\ NextTask
  /\ UNCHANGED <<worldVars, seen, scratch, best, crashes, tampers>>

\* Mutant: the failure is reported, the merge left as it is.
AbortsNothing ==
  /\ pc = "commit" /\ Held
  /\ UNCHANGED <<main, worldVars, seen, mergeHead, scratch, best, crashes, tampers>>

\* The record exists already, or git cannot commit: abort, main stays.
Aborts ==
  /\ pc = "commit"
  /\ mergeHead' = None /\ Held
  /\ UNCHANGED <<main, worldVars, seen, scratch, best, crashes, tampers>>

(***************************************************************************)
(* push_and_cleanup and the end of the run                                 *)
(***************************************************************************)
Off == /\ pc' = "off" /\ run' = Idle /\ todo' = <<>> /\ cur' = None
       /\ base' = 0 /\ gates' = NoGates /\ merged' = {}

Finish ==
  /\ pc = "next" /\ todo = <<>>
  /\ IF merged = {} THEN Off ELSE pc' = "push" /\ UNCHANGED toolVars
  /\ UNCHANGED <<main, worldVars, seen, mergeHead, scratch, best, crashes, tampers>>

\* Mutant: the branches are deleted even when nothing was pushed.
PushOptional ==
  /\ pc = "push"
  /\ origin' \in {origin, Len(main)} /\ pc' = "delete"
  /\ UNCHANGED <<main, hub, vps, hubMain, toolVars, seen, mergeHead, scratch, best, crashes, tampers>>

\* The Director agrees and origin takes the push; or he declines, or it fails.
Push ==
  /\ pc = "push"
  /\ \/ origin' = Len(main) /\ pc' = "delete" /\ UNCHANGED toolVars
     \/ Off /\ UNCHANGED origin
  /\ UNCHANGED <<main, hub, vps, hubMain, seen, mergeHead, scratch, best, crashes, tampers>>

\* push --delete of each merged task, whatever its branch holds by now; a
\* failure is ignored.
Delete ==
  /\ pc = "delete"
  /\ IF merged = {} THEN Off /\ UNCHANGED hub
     ELSE \E t \in merged :
            /\ hub' \in {hub, [hub EXCEPT ![t] = 0]}
            /\ merged' = merged \ {t}
            /\ UNCHANGED <<pc, run, todo, cur, base, gates>>
  /\ UNCHANGED <<main, origin, vps, hubMain, seen, mergeHead, scratch, best, crashes, tampers>>

(***************************************************************************)
(* Everybody else                                                          *)
(***************************************************************************)
toolUnchanged == UNCHANGED <<pc, toolVars, mergeHead, scratch, crashes>>

\* A loop on the VPS pushes the next version of its task's branch.
VpsPush(t) ==
  /\ vps[t] < Versions[t]
  /\ vps' = [vps EXCEPT ![t] = @ + 1]
  /\ hub' = [hub EXCEPT ![t] = vps[t] + 1]
  /\ UNCHANGED <<main, origin, hubMain, seen, best, tampers>> /\ toolUnchanged

\* Something on the VPS writes, rewinds or deletes the hub's main.
Tamper ==
  /\ tampers < MaxTampers /\ tampers' = tampers + 1
  /\ hubMain' \in {Absent, Alien} \cup 0..Len(main)
  /\ UNCHANGED <<main, origin, hub, vps, seen, best>> /\ toolUnchanged

\* push-hub.sh between two runs, or a push by hand that repairs a tampered
\* hub; git advances the tracking ref with it.
PushHub ==
  /\ pc = "off"
  /\ hubMain' = Len(main) /\ seen' = Len(main) /\ best' = Len(main)
  /\ UNCHANGED <<main, origin, hub, vps, tampers>> /\ toolUnchanged

\* A commit of the Director's own on local main; his suite is green with it.
DirectorCommits ==
  /\ mergeHead = None /\ Len(main) < MaxMain
  /\ OwnLand
  /\ UNCHANGED <<vps, hubMain, seen, best, tampers>> /\ toolUnchanged

\* git merge --abort by hand after a refused start.
DirectorCleans ==
  /\ pc = "off" /\ mergeHead # None /\ mergeHead' = None
  /\ UNCHANGED <<main, worldVars, seen, pc, toolVars, scratch, best, crashes, tampers>>

\* Ctrl-C, a kill, a power cut: nothing is undone.
Crash ==
  /\ pc # "off" /\ crashes < MaxCrashes /\ crashes' = crashes + 1
  /\ Off
  /\ UNCHANGED <<main, worldVars, seen, mergeHead, scratch, best, tampers>>

Step == Discover \/ Pin \/ Gate \/ GateRaises \/ Confirm \/ Merge \/ Commits \/ Aborts
        \/ Finish \/ Push \/ Delete

MergeNext == \/ Start \/ Step \/ Tamper \/ PushHub \/ DirectorCommits \/ DirectorCleans \/ Crash
             \/ \E t \in Task : VpsPush(t)

MergeSpec == MergeInit /\ [][MergeNext]_allVars

(***************************************************************************)
(* Properties                                                              *)
(***************************************************************************)
TypeOK ==
  /\ main \in Seq(Landed) /\ origin \in 0..Len(main)
  /\ hub \in [Task -> 0..MaxTip] /\ vps \in [Task -> 0..MaxTip]
  /\ hubMain \in {Absent, Alien} \cup 0..Len(main)
  /\ seen \in {Absent} \cup 0..Len(main) /\ best \in {Absent} \cup 0..Len(main)
  /\ pc \in Pcs /\ run \in Modes /\ todo \in Seq(Task)
  /\ cur \in Commit \cup {None} /\ base \in Nat /\ gates \in GateResults
  /\ mergeHead \in Commit \cup {None} /\ scratch \in BOOLEAN /\ merged \subseteq Task
  /\ crashes \in Nat /\ tampers \in Nat

\* Whatever the VPS pushed in the meantime, every commit in main is sound, and
\* stands on everything before it but what the Director himself committed
\* after it was judged (the verify-to-merge window of merge_branch).
MainSound ==
  \A j \in DOMAIN main : main[j].c # OwnCommit =>
    /\ main[j].c \notin Refused
    /\ \A i \in 1..(j - 1) : Clash(main[j].c, main[i].c) =>
         main[i].c = OwnCommit /\ i > main[j].base

\* A blocker of the panel or of rw2 enters main only together with the record
\* of its waiver, on every route to the merge (the L3 confirmation included).
WaiversRecorded == \A i \in DOMAIN main : main[i].c \in Flagged => main[i].rec

\* No commit is merged that an earlier merge already brought in, whichever
\* tasks a batch repeats and however runs were cut off.
MergedOnce ==
  \A i, j \in DOMAIN main : i < j /\ main[i].c # OwnCommit => ~Within(main[j].c, main[i].c)

\* All that is asked of what enters main (local_merge.merge_branch).
MainTrusted == MainSound /\ WaiversRecorded /\ MergedOnce

\* Only a kill leaves a merge unfinished: whenever the tool is past a task or
\* ends, the repository is as it was.
NothingHalfMerged == mergeHead # None /\ pc # "commit" => crashes > 0

\* What TrustedMain promises of main, of origin and of the hub's branches.
Promise == INSTANCE TrustedMain
KeepsPromise == Promise!Spec

\* The hub's main is checked before anything is merged: once the Director has
\* pushed or checked it at a commit, no run that consults the hub gets past the
\* tripwire while the hub's main is gone, behind that commit or off local main.
TripHolds ==
  [][pc = "off" /\ pc' = "list" /\ run'.fix = None
     => \/ best = Absent /\ hubMain = Absent
        \/ hubMain \in best..Len(main)]_allVars
=============================================================================
