------------------------------ MODULE LogReplay ------------------------------
(***************************************************************************)
(* The pure functions of orchestrator/loop.py that replay a task's         *)
(* append-only iteration log: what phase comes next, whether the run has   *)
(* already finished, whether the rounds have stopped converging, and what  *)
(* the gates say about a version of the code.                              *)
(*                                                                         *)
(* A log entry keeps the fields replay reads: its action and outcome, the  *)
(* code version (sha) a gate verdict is keyed to, the fingerprint of a     *)
(* failure or a blocker set, and the flaky mark of an authoritative run.   *)
(* seen is not in the log file: it records which version of the code the   *)
(* agent or gate really had in front of it, so that the properties can     *)
(* compare it with the sha the entry claims.                               *)
(*                                                                         *)
(* The Docker gate is always part of a code task (run._build_orchestrator) *)
(* so with_authoritative is TRUE; rw2 and the senior come and go together. *)
(***************************************************************************)
EXTENDS Integers, Sequences, FiniteSets, Terminals

CONSTANTS
    MaxLoops,      \* max_loops: developer rounds before CAP_REACHED
    ResumeGrant,   \* _RESUME_ROUND_GRANT: rounds one director_resume buys
    WithRw2,       \* "rw2" in the task's roles (then the senior is wired too)
    Fps            \* failure / blocker-set fingerprints

ASSUME ReplayAssumption ==
    /\ MaxLoops \in Nat \ {0}
    /\ ResumeGrant \in Nat \ {0}
    /\ WithRw2 \in BOOLEAN
    /\ Fps \subseteq STRING
    /\ "none" \notin Fps

PhaseActions ==
    {"developer", "fast_tests", "rw1", "rw2", "authoritative", "senior", "push"}

Actions == PhaseActions \cup {"explorer", "terminal", "director_resume"}

Outcomes == {"ok", "error", "pass", "fail", "approved", "changes_requested",
             "malformed", "go", "nogo", "deadlock"} \cup TerminalStates

NoSha == -1
NoFp == "none"
Shas == Nat \cup {NoSha}

Entry == [action : Actions, outcome : Outcomes, sha : Shas, seen : Shas,
          fp : Fps \cup {NoFp}, flaky : BOOLEAN]

\* An entry that carries nothing but its action and outcome.
Plain(action, outcome) ==
    [action |-> action, outcome |-> outcome, sha |-> NoSha, seen |-> NoSha,
     fp |-> NoFp, flaky |-> FALSE]

-----------------------------------------------------------------------------
(* Scanning the log *)

Where(log, acts) == {i \in DOMAIN log : log[i].action \in acts}

\* The last of a set of positions, 0 when there is none.
Latest(S) == IF S = {} THEN 0 ELSE CHOOSE i \in S : \A j \in S : j <= i

LastPhase(log) == Latest(Where(log, PhaseActions))

Rounds(log) == Cardinality(Where(log, {"developer"}))

LastResume(log) == Latest(Where(log, {"director_resume"}))

\* How many times the Director has resumed the task this log belongs to.
Episode(log) == Cardinality(Where(log, {"director_resume"}))

-----------------------------------------------------------------------------
(* Has the run finished? *)

IsMark(e) == e.action = "terminal" \/ (e.action = "push" /\ e.outcome = "ok")

MarkState(e) == IF e.action = "terminal" THEN e.outcome ELSE "PUSHED"

LastMark(log) == Latest({i \in DOMAIN log : IsMark(log[i])})

last_terminal_state(log) ==
    IF LastMark(log) = 0 THEN NoState ELSE MarkState(log[LastMark(log)])

recorded_terminal(log) ==
    LET i == LastMark(log)
        state == last_terminal_state(log)
        cleared == \E j \in i + 1 .. Len(log) : clears_terminal(log[j].action, state)
    IN  IF i = 0 \/ ~Sticky(state) \/ cleared THEN NoState ELSE state

-----------------------------------------------------------------------------
(* Which phase comes next? *)

AfterRw1 == IF WithRw2 THEN "rw2" ELSE "authoritative"

\* Mutant: passing fast tests lead to the gate, past the reviews.
SkipReviews(e) ==
    CASE e.action = "developer" /\ e.outcome = "ok" -> "fast_tests"
      [] e.action = "fast_tests" /\ e.outcome = "pass" -> "authoritative"
      [] e.action = "authoritative" /\ e.outcome = "pass" -> "push"
      [] e.action = "push" /\ e.outcome = "ok" -> "done"
      [] OTHER -> "developer"

\* The transition table of derive_resume_point; every failing outcome, and
\* an outcome the table does not know, goes back to the developer.
NextAfter(e) ==
    CASE e.action = "developer" /\ e.outcome = "ok" -> "fast_tests"
      [] e.action = "fast_tests" /\ e.outcome = "pass" -> "rw1"
      [] e.action = "rw1" /\ e.outcome = "approved" -> AfterRw1
      [] e.action = "rw2" /\ e.outcome = "go" -> "authoritative"
      [] e.action = "senior" /\ e.outcome = "approved" -> "authoritative"
      [] e.action = "senior" /\ e.outcome = "deadlock" -> "deadlock"
      [] e.action = "authoritative" /\ e.outcome = "pass" -> "push"
      [] e.action = "push" /\ e.outcome = "ok" -> "done"
      [] OTHER -> "developer"

derive_resume_point(log) ==
    LET last == LastPhase(log)
        next == IF last = 0 THEN "developer" ELSE NextAfter(log[last])
    IN  IF next = "developer" /\ Rounds(log) >= MaxLoops THEN "cap_reached" ELSE next

dev_rounds_since_resume(log) ==
    Cardinality({i \in Where(log, {"developer"}) : i > LastResume(log)})

FlowthroughPhases == {"fast_tests", "rw1", "rw2", "authoritative", "push"}

\* Mutant: the grant is used up one round late.
GrantOffByOne(log, phase) ==
    /\ LastResume(log) # 0
    /\ dev_rounds_since_resume(log) <= ResumeGrant
    /\ phase \notin FlowthroughPhases

\* _resume_developer_point is not None: a director_resume still grants
\* rounds, so the derived phase is replaced by a developer round.
ResumeForcesDeveloper(log, phase) ==
    /\ LastResume(log) # 0
    /\ dev_rounds_since_resume(log) < ResumeGrant
    /\ phase \notin FlowthroughPhases
    /\ ~(phase = "done" /\ dev_rounds_since_resume(log) > 0)

-----------------------------------------------------------------------------
(* The backstop *)

senior_ran(log) == Where(log, {"senior"}) # {}

\* repeats(_fingerprints(since, action)): the two latest recorded
\* fingerprints of the action after position from are the same.
Repeats(log, from, action) ==
    LET S == {i \in Where(log, {action}) : i > from /\ log[i].fp # NoFp}
    IN  \E i, j \in S : /\ i < j
                        /\ \A k \in S : k <= i \/ k = j
                        /\ log[i].fp = log[j].fp

nonconvergence_detected(log) ==
    LET from == Latest(Where(log, {"senior"}))
    IN  \/ \E a \in {"rw2", "authoritative", "fast_tests"} : Repeats(log, from, a)
        \/ Cardinality({i \in Where(log, {"rw2"}) : i > from /\ log[i].outcome = "nogo"}) >= 2

-----------------------------------------------------------------------------
(* What the gates say *)

\* gate_states_from_log for rw1 / rw2: the position of the verdict in force.
\* A senior approval stands in for a review that is not approving when it is
\* given (the first one after the last review); a later review replaces it.
ReviewInForce(log, action, good) ==
    LET r == Latest(Where(log, {action}))
        standIns == {i \in Where(log, {"senior"}) : i > r /\ log[i].outcome = "approved"}
    IN  IF (r # 0 /\ log[r].outcome = good) \/ standIns = {}
        THEN r
        ELSE CHOOSE i \in standIns : \A j \in standIns : i <= j

ReviewOk(log, action, good, sha) ==
    LET i == ReviewInForce(log, action, good)
    IN  /\ i # 0
        /\ log[i].outcome \in {good, "approved"}
        /\ log[i].sha = sha

AuthoritativeOk(log, sha) ==
    LET i == Latest(Where(log, {"authoritative"}))
    IN  /\ i # 0
        /\ log[i].outcome = "pass"
        /\ log[i].sha = sha
        /\ ~log[i].flaky

\* The merge precondition: the three gates, all on the given code version.
GatesGreen(log, sha) ==
    /\ ReviewOk(log, "rw1", "approved", sha)
    /\ ReviewOk(log, "rw2", "go", sha)
    /\ AuthoritativeOk(log, sha)
==============================================================================
