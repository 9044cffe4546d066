----------------------------- MODULE MergeRoute -----------------------------
(***************************************************************************)
(* A branch on its way from the loop's decision to the Director's: the     *)
(* loop decides with the branch's own policy.toml, the disposable VPS may  *)
(* alter anything on the branch afterwards, main's policy may change, the  *)
(* Director may put a fix on top or start afresh from main (--local).      *)
(***************************************************************************)
EXTENDS Naturals, MergePolicy, MergeGates

CONSTANTS
  Policies,     \* the policy.toml versions there are
  Declared,     \* the risk levels reviewers write
  Diffs,        \* the diffs of branches, as sets of kinds of files
  MaxTampers    \* bound on alterations of a branch after its decision

ASSUME MergeRouteAssumption ==
  /\ Policies \subseteq TargetPolicy /\ Declared \subseteq Levels \cup {"junk"}
  /\ Diffs \subseteq SUBSET Kinds /\ MaxTampers \in Nat

VARIABLES
  policy,    \* policy.toml of main
  branch,
  committed, \* the artifacts of the decision
  stage,     \* "open", "decided", "judged"
  cut,       \* history: main's policy when the branch was cut
  tampers,   \* history: alterations after the decision
  local,     \* whether the Director judges a commit of his own (--local)
  outcome    \* what decide made of it

vars == <<policy, branch, committed, stage, cut, tampers, local, outcome>>

\* One kind of file more or less.
Near(files) == Diffs \cap ({files \ {k} : k \in files} \cup {files \cup {k} : k \in Kinds})

NoBranch == [files |-> {}, declared |-> "low", green |-> FALSE, deadlock |-> FALSE,
             spec |-> "code", verified |-> FALSE, policy |-> policy]
NoOutcome == [decision |-> "hold", kind |-> "none", advisory |-> {}]

Init ==
  /\ policy \in Policies /\ cut = policy
  /\ branch = NoBranch
  /\ committed = [decision |-> "none", state |-> "none"]
  /\ stage = "open" /\ tampers = 0 /\ local = FALSE /\ outcome = NoOutcome

\* The branch's own policy.toml is main's unless the diff changes it; a spec of
\* the other type, or none, needs a change too.
Consistent(b) ==
  /\ b.policy # cut => "config" \in b.files
  /\ b.spec = "unreadable" => "promoted" \in b.files

\* What a loop that ends with a decision may have made: a policy.toml that does
\* not parse and a report task's source edit end it otherwise.
Honest(b) ==
  /\ Consistent(b) /\ Valid(b.policy) /\ b.spec # "unreadable"
  /\ IF b.spec = "report"
     THEN path_guard_offending(b.files) = {} /\ ~b.green /\ b.declared = "low"
          /\ ~b.deadlock
     ELSE ~b.verified

\* _decide_merge and the decision of _run_report_only.
Decide(d) ==
  IF d.spec = "report" THEN report_only_decision(d) ELSE merge_decision(d.policy, d)

Converge ==
  /\ stage = "open"
  /\ \E f \in Diffs, dead, ver \in BOOLEAN, risk \in Declared,
        g \in BOOLEAN, sp \in {"code", "report"}, p \in Policies :
       LET b == [files |-> f, declared |-> risk, green |-> g, deadlock |-> dead,
                 spec |-> sp, verified |-> ver, policy |-> p]
       IN /\ Honest(b)
          /\ branch' = b
          /\ committed' = [decision |-> Decide(b),
                           state |-> IF sp = "report" THEN "none" ELSE "match"]
  /\ stage' = "decided"
  /\ UNCHANGED <<policy, cut, tampers, local, outcome>>

\* Anything on the branch may be altered after the decision; the diff cannot
\* hide it: a changed spec or policy.toml shows as a file.
Tamper ==
  /\ stage = "decided" /\ ~local /\ tampers < MaxTampers /\ tampers' = tampers + 1
  /\ \/ /\ \/ \E f \in Near(branch.files) : branch' = [branch EXCEPT !.files = f]
           \/ \E risk \in Declared : branch' = [branch EXCEPT !.declared = risk]
           \/ branch' = [branch EXCEPT !.green = TRUE]
           \/ branch' = [branch EXCEPT !.deadlock = FALSE]
           \/ branch' = [branch EXCEPT !.verified = TRUE]
           \/ branch' = [branch EXCEPT !.spec = "report", !.files = @ \cup {"own"}]
           \/ branch' = [branch EXCEPT !.spec = "code", !.files = @ \cup {"promoted"}]
           \/ branch' = [branch EXCEPT !.spec = "unreadable", !.files = @ \cup {"promoted"}]
           \/ \E p \in Policies : branch' = [branch EXCEPT !.policy = p, !.files = @ \cup {"config"}]
        /\ Consistent(branch') /\ UNCHANGED committed
     \/ /\ committed' \in {[committed EXCEPT !.decision = d] : d \in Decisions \cup {"none", "garbled"}}
                       \cup {[committed EXCEPT !.state = s] : s \in {"match", "other", "none", "garbled"}}
        /\ UNCHANGED branch
  /\ UNCHANGED <<policy, stage, cut, local, outcome>>

\* The Director edits policy.toml on main.
PolicyMoves ==
  /\ stage = "decided" /\ policy = cut
  /\ policy' \in Policies \ {policy}
  /\ UNCHANGED <<branch, committed, stage, cut, tampers, local, outcome>>

\* A commit of the Director's on top of the branch.
DirectorFixes ==
  /\ stage = "decided" /\ ~local /\ local' = TRUE
  /\ \E f \in Near(branch.files) : branch' = [branch EXCEPT !.files = f]
  /\ committed' = [committed EXCEPT !.state = "other"]
  /\ UNCHANGED <<policy, stage, cut, tampers, outcome>>

\* A commit of the Director's off main, whose tree has neither a log nor a
\* verdict nor a spec of the task.
DirectorStartsOver ==
  /\ stage = "open" /\ stage' = "decided" /\ local' = TRUE
  /\ \E f \in Diffs : branch' = [NoBranch EXCEPT !.files = f, !.spec = "unreadable"]
  /\ UNCHANGED <<policy, committed, cut, tampers, outcome>>

\* Mutant: the branch's own policy decides.
JudgeByBranch ==
  /\ stage = "decided" /\ Valid(branch.policy) /\ stage' = "judged"
  /\ \E advisory, blocks \in BOOLEAN :
       outcome' = decide([blast |-> classify_blast_radius(branch.policy, branch.files),
         attestation |-> IF local THEN IF check_local_fix(branch.policy, branch) THEN "not_applicable" ELSE "failed"
                         ELSE IF check(branch.policy, branch, committed) THEN "passed" ELSE "failed",
         tests |-> TRUE, coverage |-> TRUE, scanned |-> TRUE, infra |-> FALSE,
         security |-> blocks, rw2 |-> blocks], advisory)
  /\ UNCHANGED <<policy, branch, committed, cut, tampers, local>>

\* gather_gates and decide with every other gate green: the policy is main's,
\* and one that does not parse holds every task.
Judge ==
  /\ stage = "decided" /\ stage' = "judged"
  /\ IF Valid(policy)
     THEN \E advisory, blocks \in BOOLEAN :
            LET blast == classify_blast_radius(policy, branch.files)
                ok == IF local THEN check_local_fix(policy, branch) ELSE check(policy, branch, committed)
            IN outcome' = decide([blast |-> blast,
                 attestation |-> IF ~ok THEN "failed" ELSE IF local THEN "not_applicable" ELSE "passed",
                 tests |-> TRUE, coverage |-> TRUE, scanned |-> TRUE, infra |-> FALSE,
                 security |-> SecurityBlockers(blast, IF blocks THEN {"blockers"} ELSE {}),
                 rw2 |-> Rw2Blockers(blast, IF blocks THEN "blockers" ELSE "clean")], advisory)
     ELSE outcome' = [decision |-> "hold", kind |-> "broken", advisory |-> {}]
  /\ UNCHANGED <<policy, branch, committed, cut, tampers, local>>

Next == Converge \/ Tamper \/ PolicyMoves \/ DirectorFixes \/ DirectorStartsOver \/ Judge
Spec == Init /\ [][Next]_vars

(***************************************************************************)
(* Properties                                                              *)
(***************************************************************************)
TypeOK ==
  /\ policy \in Policies /\ cut \in Policies
  /\ branch \in Branch /\ committed \in Committed
  /\ stage \in {"open", "decided", "judged"} /\ tampers \in Nat /\ local \in BOOLEAN
  /\ outcome.decision \in {"merge", "hold"} /\ outcome.advisory \subseteq {"security", "rw2"}
  /\ outcome.kind \in {"none", "broken", "risk_decision", "auto_merge"}

Passed == stage = "judged" /\ outcome.kind \in {"auto_merge", "risk_decision"}
Sensitive == branch.files \cap (EngineSensitive \cup policy.sensitive \cup policy.security \cup policy.invariant) # {}

\* No route to a merge, --local, --advisory and the L3 confirmation included,
\* passes over what main's policy stops and the diff shows, whatever the branch
\* says of itself: a deleted test or a dropping migration.
DiffStopsHold ==
  Passed /\ branch.spec # "report" =>
    /\ branch.files \cap (EngineTests \cup policy.tests) \cap {"testgone", "suitegone"} = {}
    /\ ~("drop" \in branch.files /\ "drop" \in policy.migrations)

\* As long as nobody altered it, a branch with a high risk that only a reviewer
\* saw, with a senior deadlock or, on the remote route, with stale or flaky
\* gates is not passed.
RecordedStopsHold ==
  Passed /\ tampers = 0 /\ branch.spec = "code" =>
    /\ ~branch.deadlock
    /\ (branch.declared \in {"high", "junk"} => Sensitive /\ ~local)
    /\ (~local => branch.green)

\* The policy's stops, those in the diff and those the loop recorded.
StopsHold == TypeOK /\ DiffStopsHold /\ RecordedStopsHold

\* A sensitive file of main's policy, and an empty diff, always wait for the
\* Director's risk decision, on every route.
SensitiveIsConfirmed ==
  stage = "judged" /\ outcome.decision = "merge" => ~Sensitive /\ branch.files # {}

\* What passes as a report-only task carries nothing but specs that run nothing.
ReportsCarryNoCode ==
  Passed /\ branch.spec = "report" => branch.files \subseteq {"draft", "own"}
=============================================================================
