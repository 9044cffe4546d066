--------------------------- MODULE MergeRouteProofs ---------------------------
(***************************************************************************)
(* No route to a merge passes over the policy's stops, for every set of    *)
(* policies, declared risks and diffs, and any number of alterations: what *)
(* the Director's check recomputes with main's policy is what decides.     *)
(***************************************************************************)
EXTENDS MergeRoute, TLAPS

-----------------------------------------------------------------------------
(* What the checks let through *)

\* A reason that the check cannot turn into the Director's confirmation is
\* absent from a branch that passes it.
LEMMA NothingLeaks ==
    ASSUME NEW p \in TargetPolicy, NEW b \in Branch, NEW c \in Committed,
           b.spec # "report", check(p, b, c)
    PROVE  /\ b.spec = "code"
           /\ b.green /\ ~b.deadlock
           /\ deleted_test_files(p, b.files) = {}
           /\ destructive_migrations(p, b.files) = {}
           /\ normalize_risk(b.declared) = "high" =>
                sensitive_paths(p, b.files) \cup security_paths(p, b.files) # {}
<1>1. b.spec = "code" /\ leaking_stop_reasons(Reasons(p, b)) = {}
  BY DEF check, Branch
<1>2. \A r \in Reasons(p, b) : r \in Surfacing(Reasons(p, b))
  BY <1>1 DEF leaking_stop_reasons
<1>3. \A r \in {"gates", "deleted", "destructive", "deadlock"} : r \notin Reasons(p, b)
  BY <1>2 DEF Surfacing
<1>4. b.green /\ ~b.deadlock /\ deleted_test_files(p, b.files) = {}
      /\ destructive_migrations(p, b.files) = {}
  BY <1>3 DEF Reasons
<1>5. ASSUME normalize_risk(b.declared) = "high"
      PROVE  sensitive_paths(p, b.files) \cup security_paths(p, b.files) # {}
  <2>1. effective_risk(p, b) = "high"
    BY <1>5 DEF effective_risk
  <2>2. "high_risk" \in Reasons(p, b)
    BY <2>1 DEF Reasons
  <2>3. Reasons(p, b) \cap {"sensitive", "security"} # {}
    BY <1>2, <2>2 DEF Surfacing
  <2> QED BY <2>3 DEF Reasons
<1> QED BY <1>1, <1>4, <1>5

\* A report-only task passes as an auto-merge of specs that run nothing.
LEMMA ReportsAreSpecs ==
    ASSUME NEW b \in Branch, report_only_decision(b) = "auto_merge"
    PROVE  b.files \subseteq {"draft", "own"}
BY DEF report_only_decision, path_guard_offending, nondraft_report_specs, Specs

\* What is not low enough for a merge is held for the Director.
LEMMA DecideHolds ==
    ASSUME NEW g \in GateResults, NEW advisory \in BOOLEAN
    PROVE  LET o == decide(g, advisory) IN
           /\ o.decision \in {"merge", "hold"} /\ o.advisory \subseteq {"security", "rw2"}
           /\ o.kind \in {"broken", "risk_decision", "auto_merge"}
           /\ o.kind # "broken" => g.attestation # "failed"
           /\ o.decision = "merge" => g.blast # "L3"
<1>1. Judgment(g) \subseteq {"security", "rw2"}
  BY DEF Judgment
<1>2. g.attestation = "failed" => Deterministic(g) # {}
  BY DEF Deterministic
<1> QED BY <1>1, <1>2 DEF decide

LEMMA SensitiveIsL3 ==
    ASSUME NEW p \in TargetPolicy, NEW files \in SUBSET Kinds,
           classify_blast_radius(p, files) # "L3"
    PROVE  /\ files # {}
           /\ files \cap (EngineSensitive \cup p.sensitive \cup p.security \cup p.invariant) = {}
BY DEF classify_blast_radius, sensitive_paths, security_paths, all_sensitive

-----------------------------------------------------------------------------
(* The inductive invariant *)

\* The parts of the state; before the Director's judgement there is no outcome.
RouteInv ==
    /\ TypeOK
    /\ stage # "judged" => outcome = NoOutcome
    /\ StopsHold /\ SensitiveIsConfirmed /\ ReportsCarryNoCode

LEMMA RouteInit == Init => RouteInv
<1> SUFFICES ASSUME Init PROVE RouteInv
  OBVIOUS
<1>1. policy \in TargetPolicy
  BY MergeRouteAssumption DEF Init
<1>2. branch \in Branch /\ branch.spec = "code"
  BY <1>1 DEF Init, NoBranch, Branch, Levels
<1>3. committed \in Committed
  BY DEF Init, Committed
<1>4. TypeOK
  BY <1>2, <1>3 DEF Init, TypeOK, NoOutcome
<1> QED
  BY <1>4 DEF Init, RouteInv, StopsHold, DiffStopsHold, RecordedStopsHold,
              SensitiveIsConfirmed, ReportsCarryNoCode, Passed, NoOutcome

\* A step that leaves the branch unjudged owes only the types.
LEMMA UnjudgedStep ==
    ASSUME RouteInv, outcome' = outcome, stage' # "judged", stage # "judged", TypeOK'
    PROVE  RouteInv'
BY DEF RouteInv, StopsHold, DiffStopsHold, RecordedStopsHold, SensitiveIsConfirmed,
       ReportsCarryNoCode, Passed, NoOutcome

\* One kind of file more or less is a diff, and a report decision is a decision.
LEMMA RouteTypes ==
    /\ \A files : Near(files) \subseteq SUBSET Kinds
    /\ \A d : Decide(d) \in Decisions
    /\ Diffs \subseteq SUBSET Kinds /\ Policies \subseteq TargetPolicy
    /\ Declared \subseteq Levels \cup {"junk"}
<1>1. Diffs \subseteq SUBSET Kinds /\ Policies \subseteq TargetPolicy
      /\ Declared \subseteq Levels \cup {"junk"}
  BY MergeRouteAssumption
<1>2. \A d : Decide(d) \in Decisions
  BY DEF Decide, report_only_decision, merge_decision, Decisions
<1> QED BY <1>1, <1>2 DEF Near

LEMMA TamperKeepsTypes ==
    ASSUME TypeOK, Tamper
    PROVE  branch' \in Branch /\ committed' \in Committed
<1>1. branch \in Branch /\ committed \in Committed
  BY DEF TypeOK
<1>2. ASSUME UNCHANGED committed,
             \/ \E f \in Near(branch.files) : branch' = [branch EXCEPT !.files = f]
             \/ \E risk \in Declared : branch' = [branch EXCEPT !.declared = risk]
             \/ branch' = [branch EXCEPT !.green = TRUE]
             \/ branch' = [branch EXCEPT !.deadlock = FALSE]
             \/ branch' = [branch EXCEPT !.verified = TRUE]
             \/ branch' = [branch EXCEPT !.spec = "report", !.files = @ \cup {"own"}]
             \/ branch' = [branch EXCEPT !.spec = "code", !.files = @ \cup {"promoted"}]
             \/ branch' = [branch EXCEPT !.spec = "unreadable", !.files = @ \cup {"promoted"}]
             \/ \E p \in Policies : branch' = [branch EXCEPT !.policy = p, !.files = @ \cup {"config"}]
      PROVE  branch' \in Branch /\ committed' \in Committed
  <2>1. branch.files \cup {"own"} \in SUBSET Kinds /\ branch.files \cup {"promoted"} \in SUBSET Kinds
        /\ branch.files \cup {"config"} \in SUBSET Kinds
    BY <1>1 DEF Branch, Kinds
  <2>2. CASE \E f \in Near(branch.files) : branch' = [branch EXCEPT !.files = f]
    <3>1. PICK f \in SUBSET Kinds : branch' = [branch EXCEPT !.files = f]
      BY <2>2, RouteTypes
    <3> QED BY <1>1, <1>2, <3>1 DEF Branch
  <2>3. CASE \E risk \in Declared : branch' = [branch EXCEPT !.declared = risk]
    <3>1. PICK risk \in Levels \cup {"junk"} : branch' = [branch EXCEPT !.declared = risk]
      BY <2>3, RouteTypes
    <3> QED BY <1>1, <1>2, <3>1 DEF Branch
  <2>4. CASE \E p \in Policies : branch' = [branch EXCEPT !.policy = p, !.files = @ \cup {"config"}]
    <3>1. PICK p \in TargetPolicy :
             branch' = [branch EXCEPT !.policy = p, !.files = branch.files \cup {"config"}]
      BY <2>4, RouteTypes
    <3> QED BY <1>1, <1>2, <2>1, <3>1 DEF Branch
  <2> QED BY <1>1, <1>2, <2>1, <2>2, <2>3, <2>4 DEF Branch
<1>3. ASSUME UNCHANGED branch,
             committed' \in {[committed EXCEPT !.decision = d] : d \in Decisions \cup {"none", "garbled"}}
                       \cup {[committed EXCEPT !.state = s] : s \in {"match", "other", "none", "garbled"}}
      PROVE  branch' \in Branch /\ committed' \in Committed
  BY <1>1, <1>3 DEF Committed
<1> QED BY <1>2, <1>3 DEF Tamper

\* The judgement: every route passes its own check, of main's policy.
LEMMA JudgeIsSound ==
    ASSUME RouteInv, Judge
    PROVE  RouteInv'
<1>1. /\ policy \in TargetPolicy /\ branch \in Branch /\ committed \in Committed
      /\ branch.files \in SUBSET Kinds /\ local \in BOOLEAN
      /\ policy' = policy /\ branch' = branch /\ committed' = committed /\ cut' = cut
      /\ tampers' = tampers /\ local' = local /\ stage' = "judged"
  BY MergeRouteAssumption DEF Judge, RouteInv, TypeOK, Branch
<1> DEFINE blast == classify_blast_radius(policy, branch.files)
           ok == IF local THEN check_local_fix(policy, branch)
                 ELSE check(policy, branch, committed)
<1>2. /\ outcome'.decision \in {"merge", "hold"} /\ outcome'.advisory \subseteq {"security", "rw2"}
      /\ outcome'.kind \in {"broken", "risk_decision", "auto_merge"}
      /\ outcome'.kind # "broken" => ok
      /\ outcome'.decision = "merge" => blast # "L3"
  <2>1. CASE Valid(policy)
    <3>1. PICK advisory \in BOOLEAN, blocks \in BOOLEAN :
            outcome' = decide([blast |-> blast,
                 attestation |-> IF ~ok THEN "failed" ELSE IF local THEN "not_applicable" ELSE "passed",
                 tests |-> TRUE, coverage |-> TRUE, scanned |-> TRUE, infra |-> FALSE,
                 security |-> SecurityBlockers(blast, IF blocks THEN {"blockers"} ELSE {}),
                 rw2 |-> Rw2Blockers(blast, IF blocks THEN "blockers" ELSE "clean")], advisory)
      BY <2>1 DEF Judge
    <3> DEFINE attested == IF ~ok THEN "failed" ELSE IF local THEN "not_applicable" ELSE "passed"
               sec == SecurityBlockers(blast, IF blocks THEN {"blockers"} ELSE {})
               rw2 == Rw2Blockers(blast, IF blocks THEN "blockers" ELSE "clean")
               g == [blast |-> blast, attestation |-> attested,
                     tests |-> TRUE, coverage |-> TRUE, scanned |-> TRUE, infra |-> FALSE,
                     security |-> sec, rw2 |-> rw2]
    <3>2. blast \in BlastRadius
      BY DEF classify_blast_radius, BlastRadius
    <3>3. attested \in {"passed", "failed", "not_applicable"}
      OBVIOUS
    <3>4. sec \in BOOLEAN /\ rw2 \in BOOLEAN
      BY DEF SecurityBlockers, Rw2Blockers
    <3>5. g \in GateResults
      <4> HIDE DEF blast, attested, sec, rw2
      <4> QED BY <3>2, <3>3, <3>4 DEF GateResults
    <3>6. outcome' = decide(g, advisory) /\ g.blast = blast
          /\ (g.attestation # "failed" => ok)
      BY <3>1
    <3> HIDE DEF g, ok, blast
    <3> QED BY <3>5, <3>6, DecideHolds
  <2>2. CASE ~Valid(policy)
    <3>1. outcome' = [decision |-> "hold", kind |-> "broken", advisory |-> {}]
      BY <2>2 DEF Judge
    <3> QED BY <3>1
  <2> QED BY <2>1, <2>2
<1>3. TypeOK'
  BY <1>1, <1>2 DEF RouteInv, TypeOK
<1>4. ASSUME Passed'
      PROVE  ok
  BY <1>2, <1>4 DEF Passed
<1>5. DiffStopsHold'
  <2> SUFFICES ASSUME Passed', branch.spec # "report"
               PROVE  /\ deleted_test_files(policy, branch.files) = {}
                      /\ destructive_migrations(policy, branch.files) = {}
    BY <1>1 DEF DiffStopsHold, deleted_test_files, destructive_migrations, all_tests
  <2> QED BY <1>1, <1>4, NothingLeaks DEF check_local_fix
<1>6. RecordedStopsHold'
  <2> SUFFICES ASSUME Passed', branch.spec = "code"
               PROVE  /\ ~branch.deadlock
                      /\ (branch.declared \in {"high", "junk"} => Sensitive /\ ~local)
                      /\ (~local => branch.green)
    BY <1>1 DEF RecordedStopsHold, Sensitive
  <2>1. CASE local
    BY <1>4, <2>1 DEF check_local_fix, normalize_risk, Levels
  <2>2. CASE ~local
    <3>1. /\ branch.green /\ ~branch.deadlock
          /\ normalize_risk(branch.declared) = "high" =>
               sensitive_paths(policy, branch.files) \cup security_paths(policy, branch.files) # {}
      BY <1>1, <1>4, <2>2, NothingLeaks
    <3>2. branch.declared \in {"high", "junk"} => normalize_risk(branch.declared) = "high"
      BY DEF normalize_risk, Levels
    <3> QED BY <2>2, <3>1, <3>2 DEF Sensitive, sensitive_paths, security_paths, all_sensitive
  <2> QED BY <2>1, <2>2
<1>7. SensitiveIsConfirmed'
  BY <1>1, <1>2, SensitiveIsL3 DEF SensitiveIsConfirmed, Sensitive
<1>8. ReportsCarryNoCode'
  <2> SUFFICES ASSUME Passed', branch.spec = "report"
               PROVE  branch.files \subseteq {"draft", "own"}
    BY <1>1 DEF ReportsCarryNoCode
  <2>1. report_only_decision(branch) = "auto_merge"
    BY <1>4 DEF check, check_local_fix
  <2> QED BY <1>1, <2>1, ReportsAreSpecs
<1> QED BY <1>1, <1>3, <1>5, <1>6, <1>7, <1>8 DEF RouteInv, StopsHold

LEMMA RouteStep ==
    ASSUME RouteInv, [Next]_vars
    PROVE  RouteInv'
<1>1. /\ policy \in Policies /\ cut \in Policies /\ branch \in Branch /\ committed \in Committed
      /\ stage \in {"open", "decided", "judged"} /\ tampers \in Nat /\ local \in BOOLEAN
      /\ outcome.decision \in {"merge", "hold"} /\ outcome.advisory \subseteq {"security", "rw2"}
      /\ outcome.kind \in {"none", "broken", "risk_decision", "auto_merge"}
  BY DEF RouteInv, TypeOK
<1>2. ASSUME policy' \in Policies, cut' \in Policies, branch' \in Branch,
             committed' \in Committed, stage' = "decided", stage # "judged",
             tampers' \in Nat, local' \in BOOLEAN, outcome' = outcome
      PROVE  RouteInv'
  <2>1. TypeOK'
    BY <1>1, <1>2 DEF TypeOK
  <2> QED BY <1>2, <2>1, UnjudgedStep
<1>3. CASE Converge
  <2>1. PICK f \in Diffs, dead, ver \in BOOLEAN, risk \in Declared,
             g \in BOOLEAN, sp \in {"code", "report"}, p \in Policies :
          LET b == [files |-> f, declared |-> risk, green |-> g, deadlock |-> dead,
                    spec |-> sp, verified |-> ver, policy |-> p]
          IN  /\ Honest(b)
              /\ branch' = b
              /\ committed' = [decision |-> Decide(b),
                               state |-> IF sp = "report" THEN "none" ELSE "match"]
    BY <1>3, Zenon DEF Converge
  <2> DEFINE made == [files |-> f, declared |-> risk, green |-> g, deadlock |-> dead,
                      spec |-> sp, verified |-> ver, policy |-> p]
             state == IF sp = "report" THEN "none" ELSE "match"
  <2>2. branch' = made /\ committed' = [decision |-> Decide(made), state |-> state]
    BY <2>1, Zenon
  <2>3. f \in SUBSET Kinds /\ p \in TargetPolicy /\ risk \in Levels \cup {"junk"}
    BY RouteTypes
  <2>4. branch' \in Branch
    BY <2>2, <2>3 DEF Branch
  <2>5. Decide(made) \in Decisions /\ state \in {"none", "match"}
    BY RouteTypes
  <2>6. committed' \in Committed
    <3> HIDE DEF made, state
    <3> QED BY <2>2, <2>5 DEF Committed
  <2> QED BY <1>1, <1>2, <1>3, <2>4, <2>6 DEF Converge
<1>4. CASE Tamper
  <2>1. branch' \in Branch /\ committed' \in Committed
    BY <1>4, TamperKeepsTypes DEF RouteInv
  <2>2. /\ stage = "decided" /\ tampers' = tampers + 1
        /\ UNCHANGED <<policy, stage, cut, local, outcome>>
    BY <1>4, Zenon DEF Tamper
  <2> QED BY <1>1, <1>2, <2>1, <2>2
<1>5. CASE PolicyMoves
  BY <1>1, <1>2, <1>5 DEF PolicyMoves
<1>6. CASE DirectorFixes
  <2>1. PICK f \in SUBSET Kinds : branch' = [branch EXCEPT !.files = f]
    BY <1>6, RouteTypes DEF DirectorFixes
  <2>2. branch' \in Branch
    BY <1>1, <2>1 DEF Branch
  <2>3. committed' \in Committed
    BY <1>1, <1>6 DEF DirectorFixes, Committed
  <2> QED BY <1>1, <1>2, <1>6, <2>2, <2>3 DEF DirectorFixes
<1>7. CASE DirectorStartsOver
  <2>1. PICK f \in SUBSET Kinds : branch' = [NoBranch EXCEPT !.files = f, !.spec = "unreadable"]
    BY <1>7, RouteTypes DEF DirectorStartsOver
  <2>2. NoBranch \in Branch
    BY <1>1, RouteTypes DEF NoBranch, Branch, Levels
  <2>3. branch' \in Branch
    BY <2>1, <2>2 DEF Branch
  <2> QED BY <1>1, <1>2, <1>7, <2>3 DEF DirectorStartsOver
<1>8. CASE Judge
  BY <1>8, JudgeIsSound
<1>9. CASE UNCHANGED vars
  BY <1>9 DEF vars, RouteInv, TypeOK, StopsHold, DiffStopsHold, RecordedStopsHold,
              SensitiveIsConfirmed, ReportsCarryNoCode, Passed, Sensitive
<1> QED BY <1>3, <1>4, <1>5, <1>6, <1>7, <1>8, <1>9 DEF Next

LEMMA RouteInvariant == Spec => []RouteInv
BY RouteInit, RouteStep, PTL DEF Spec

\* No route to a merge - remote, --local, --advisory, the L3 confirmation -
\* passes over a stop of main's policy that the diff shows or the loop
\* recorded, for any alterations of the branch (merge_check.check and
\* _leaking_stop_reasons, merge_check_local.check_local_fix, local_merge.decide).
THEOREM StopsAlwaysHold == Spec => []StopsHold
BY RouteInvariant, PTL DEF RouteInv

\* A merge without the Director's risk decision touches no file that main's
\* policy calls sensitive, and is not empty (policy.classify_blast_radius,
\* local_merge.decide).
THEOREM SensitiveWaits == Spec => []SensitiveIsConfirmed
BY RouteInvariant, PTL DEF RouteInv

\* What passes as a report-only task carries nothing but specs that run
\* nothing (policy.report_only_decision, path_guard, nondraft_report_specs).
THEOREM ReportsAreInert == Spec => []ReportsCarryNoCode
BY RouteInvariant, PTL DEF RouteInv
================================================================================
