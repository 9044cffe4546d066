------------------------------ MODULE Terminals ------------------------------
(***************************************************************************)
(* The terminal-state taxonomy of orchestrator/terminals.py: what a        *)
(* recorded terminal means to the loop (is it sticky), to its finalizing   *)
(* tail (is the branch pushed) and to the Director's resume channel (may   *)
(* it be cleared).                                                         *)
(*                                                                         *)
(* The decided pushes are the states MERGE_DECIDED:<decision>.  The        *)
(* decisions auto_merge and auto_merge_notify differ only in the wording   *)
(* of the notification and are one value here.                             *)
(***************************************************************************)

MergeDecisions == {"auto_merge", "stop_before_merge"}

\* The prefix rule of terminals.py: one state per decision.
MergeDecided(d) == IF d = "auto_merge" THEN "MERGE_DECIDED:auto_merge"
                                       ELSE "MERGE_DECIDED:stop_before_merge"

MergeDecidedStates == {MergeDecided(d) : d \in MergeDecisions}

SuccessStates == {"PUSHED"} \cup MergeDecidedStates

FailureStates == {"CAP_REACHED", "ESCALATED_DEADLOCK", "INVESTIGATOR_MALFORMED",
                  "VERIFY_MALFORMED", "PATH_GUARD_VIOLATION"}

RetryableStates == {"QUOTA_TIMEOUT", "INTERNAL_ERROR"}

TerminalStates == SuccessStates \cup FailureStates \cup RetryableStates

\* "No terminal recorded".
NoState == "none"

\* terminal_spec(state).sticky: a re-kickoff returns the recorded state.
Sticky(state) == state \notin RetryableStates

\* terminal_spec(state).kind = "success".
Succeeded(state) == state \in SuccessStates

\* terminal_spec(state).push: the finalizing tail publishes the branch.
Pushes(state) == state \in TerminalStates \ {"PATH_GUARD_VIOLATION", "INTERNAL_ERROR"}

\* RESUMES: the states each log action un-sticks.
ClearedBy(action) == IF action = "director_resume"
                     THEN {"CAP_REACHED", "ESCALATED_DEADLOCK"} \cup SuccessStates
                     ELSE {}

clears_terminal(action, state) == state \in ClearedBy(action)
==============================================================================
