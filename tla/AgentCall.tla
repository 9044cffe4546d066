------------------------------ MODULE AgentCall ------------------------------
(***************************************************************************)
(* One call of an agent as every consumer of agent output makes it:        *)
(* request_payload's bounded retries (agent_retry.py) around the runner    *)
(* that sleeps through quota windows (quota.py), on the classification of  *)
(* the agent's exit (agents.py). Time is counted in units of the policy.   *)
(***************************************************************************)
EXTENDS Integers, Sequences

CONSTANTS
  MaxRetries,   \* retries after a run that failed or answered malformed
  Backoff,      \* waits when the message names no reset in the future
  Buffer,       \* added to a reset time that it names
  MaxWait,      \* the budget of all waits of a run
  Resets        \* time to the resets messages name; none or past: not positive

ASSUME AgentCallAssumption ==
  /\ MaxRetries \in Nat
  /\ Backoff \in Seq(Nat \ {0}) /\ Backoff # <<>>
  /\ Buffer \in Nat \ {0} /\ MaxWait \in Nat
  /\ Resets \subseteq Int

VARIABLES
  tries,     \* runs of the present call that were not accepted
  attempt,   \* quota waits of the present run
  spent,     \* QuotaBudget.spent, shared by the agents of a run of the loop
  slept      \* history: how long that run has really slept

callVars == <<tries, attempt, spent, slept>>

wait_plan(reset) ==
  IF reset > 0 THEN reset + Buffer
  ELSE Backoff[IF attempt < Len(Backoff) THEN attempt + 1 ELSE Len(Backoff)]

\* What a run of the program amounts to: a hang, a missing binary and a
\* non-zero exit are errors, or quota when the text or stderr says so. The text
\* of a failed run may well hold a complete payload.
Replies == [exit : {"ok", "error"}, valid : BOOLEAN] \cup [exit : {"quota"}, reset : Resets]

StartRun == tries' = 0 /\ attempt' = 0 /\ spent' = 0 /\ slept' = 0
\* Mutant: every call has a budget of its own.
StartCallAfresh == tries' = 0 /\ attempt' = 0 /\ spent' = 0 /\ UNCHANGED slept

StartCall == tries' = 0 /\ attempt' = 0 /\ UNCHANGED <<spent, slept>>

Accepted(r) == r.exit = "ok" /\ r.valid

charge(wait) == spent' = spent + wait
Affordable(wait) == spent + wait <= MaxWait

\* QuotaAwareRunner.run: charge, sleep, run again.
Waits(r) ==
  /\ r.exit = "quota" /\ Affordable(wait_plan(r.reset))
  /\ charge(wait_plan(r.reset)) /\ slept' = slept + wait_plan(r.reset)
  /\ attempt' = (IF attempt < Len(Backoff) THEN attempt + 1 ELSE attempt)
  /\ UNCHANGED tries

TimesOut(r) == r.exit = "quota" /\ ~Affordable(wait_plan(r.reset))

\* request_payload: another run with the error fed back, or VerdictError.
Rejected(r) == r.exit # "quota" /\ ~Accepted(r)

\* Mutant: the count starts over.
RetriesOver(r) == /\ Rejected(r) /\ tries' = (IF tries < MaxRetries THEN tries + 1 ELSE 0)
                  /\ attempt' = 0 /\ UNCHANGED <<spent, slept>>

Retries(r) == /\ Rejected(r) /\ tries < MaxRetries
              /\ tries' = tries + 1 /\ attempt' = 0 /\ UNCHANGED <<spent, slept>>
GivesUp(r) == Rejected(r) /\ tries = MaxRetries
=============================================================================
