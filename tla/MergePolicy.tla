----------------------------- MODULE MergePolicy -----------------------------
(***************************************************************************)
(* The merge policy as functions of a diff and a target's policy.toml      *)
(* (policy.py, target_policy.py), the decision the loop commits            *)
(* (loop.py), and its recomputation by the Director (merge_check.py,       *)
(* merge_check_local.py). A changed file is one of the kinds the globs and *)
(* its content tell apart; a policy is the kinds that its globs match.     *)
(***************************************************************************)
EXTENDS Integers, FiniteSets

\* Files of a diff, the task's own artifacts excluded.
Kinds == {"doc", "data", "code", "bulk", "ui", "testgone", "suitegone", "schema", "drop", "config",
          "auth", "contract", "draft", "ready", "own", "promoted"}
\* bulk: code in more than fifteen files or three hundred lines;
\* config: secrets, engine and gate files, policy.toml; testgone: a test deleted
\* from tests/; suitegone: one from a directory the target declares; drop: a
\* migration that drops; draft, ready: another task's spec; own: the task's
\* spec, still of its type and not runnable; promoted: its spec made runnable.

Specs == {"draft", "ready", "own", "promoted"}
Markdown == {"doc"} \cup Specs

\* ENGINE_SENSITIVE_GLOBS, ENGINE_SAFE_GLOBS, ENGINE_TEST_DIRS,
\* INERT_SAFE_EXTENSIONS: a target adds to them and removes nothing.
EngineSensitive == {"config"}
EngineTests == {"testgone"}
Inert == Markdown \cup {"data"}

TargetPolicy == [sensitive : SUBSET Kinds, security : SUBSET Kinds, invariant : SUBSET Kinds,
                 tests : SUBSET Kinds, migrations : SUBSET Kinds, visible : SUBSET Kinds,
                 safe : SUBSET Kinds]

\* parse_target_policy raises on a safe glob that could match code.
Valid(p) == p.safe \subseteq Inert

all_sensitive(p) == EngineSensitive \cup p.sensitive \cup p.invariant
all_safe(p) == (Markdown \cup p.safe) \ Specs
\* Mutant of all_tests: a target's own directories replace the engine's.
DeclaredTestsOnly(p) == p.tests

all_tests(p) == EngineTests \cup p.tests

sensitive_paths(p, files) == files \cap all_sensitive(p)
security_paths(p, files) == files \cap p.security
deleted_test_files(p, files) == files \cap all_tests(p) \cap {"testgone", "suitegone"}
destructive_migrations(p, files) == files \cap p.migrations \cap {"drop"}

\* Mutant of nondraft_report_specs: the task's own spec is exempt.
OthersOnly(files) == files \cap {"ready"}

\* path_guard and nondraft_report_specs offend by these.
path_guard_offending(files) == files \ Specs
nondraft_report_specs(files) == files \cap {"ready", "promoted"}

Levels == {"low", "medium", "high"}
normalize_risk(declared) == IF declared \in Levels THEN declared ELSE "high"

\* A branch as the checks read it: its diff, the declared risk of its verdict
\* files, what its log says of the gates on its code sha, of a senior deadlock
\* and of a verify round, its spec's type, its own copy of policy.toml.
Branch == [files : SUBSET Kinds, declared : Levels \cup {"junk"},
           green : BOOLEAN, deadlock : BOOLEAN,
           spec : {"code", "report", "unreadable"}, verified : BOOLEAN, policy : TargetPolicy]

computed_risk(p, b) ==
  IF sensitive_paths(p, b.files) \cup security_paths(p, b.files) # {} THEN "high"
  ELSE IF "bulk" \in b.files THEN "medium" ELSE "low"

effective_risk(p, b) ==
  IF "high" \in {normalize_risk(b.declared), computed_risk(p, b)} THEN "high"
  ELSE IF "medium" \in {b.declared, computed_risk(p, b)} THEN "medium" ELSE "low"

\* Why merge_decision stops.
Reasons(p, b) ==
  {r \in {"gates", "sensitive", "security", "deleted", "destructive", "deadlock", "high_risk"} :
     \/ r = "gates" /\ ~b.green
     \/ r = "sensitive" /\ sensitive_paths(p, b.files) # {}
     \/ r = "security" /\ security_paths(p, b.files) # {}
     \/ r = "deleted" /\ deleted_test_files(p, b.files) # {}
     \/ r = "destructive" /\ destructive_migrations(p, b.files) # {}
     \/ r = "deadlock" /\ b.deadlock
     \/ r = "high_risk" /\ effective_risk(p, b) = "high"}

merge_decision(p, b) ==
  IF Reasons(p, b) # {} THEN "stop_before_merge"
  ELSE IF effective_risk(p, b) = "medium" /\ b.files \cap p.visible # {}
  THEN "auto_merge_notify" ELSE "auto_merge"

report_only_decision(b) ==
  IF path_guard_offending(b.files) = {} /\ nondraft_report_specs(b.files) = {} /\ b.verified
  THEN "auto_merge" ELSE "stop_before_merge"

\* The blast radius; an empty diff is an anomaly and held.
classify_blast_radius(p, files) ==
  IF files = {} \/ sensitive_paths(p, files) \cup security_paths(p, files) # {} THEN "L3"
  ELSE IF files \subseteq all_safe(p) THEN "L1" ELSE "L2"

\* What the branch carries in merge-decision.json and state.json.
Decisions == {"auto_merge", "auto_merge_notify", "stop_before_merge"}
Committed == [decision : Decisions \cup {"none", "garbled"},
              state : {"match", "other", "none", "garbled"}]

\* The stops that come back as an L3 confirmation; the others would leak.
Surfacing(reasons) ==
  {r \in reasons : \/ r \in {"sensitive", "security"}
                   \/ r = "high_risk" /\ reasons \cap {"sensitive", "security"} # {}}

leaking_stop_reasons(reasons) == reasons \ Surfacing(reasons)

\* merge_check.check with the trusted policy p.
check(p, b, c) ==
  /\ c.decision \notin {"none", "garbled"} /\ c.state # "garbled" /\ b.spec # "unreadable"
  /\ IF b.spec = "report"
     THEN c.decision = "auto_merge" /\ report_only_decision(b) = "auto_merge"
     ELSE /\ c.state = "match"
          /\ c.decision = merge_decision(p, b)
          /\ leaking_stop_reasons(Reasons(p, b)) = {}

\* check_local_fix; a fix off main carries no spec of the task.
check_local_fix(p, b) ==
  IF b.spec = "report" THEN report_only_decision(b) = "auto_merge"
  ELSE /\ deleted_test_files(p, b.files) = {} /\ destructive_migrations(p, b.files) = {}
       /\ normalize_risk(b.declared) # "high" /\ ~b.deadlock
=============================================================================
