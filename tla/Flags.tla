-------------------------------- MODULE Flags --------------------------------
(***************************************************************************)
(* Flags of one task: events in its iteration log, raised and resolved     *)
(* under the log lock by commands that run at the same time (flags.py,     *)
(* artifacts.py: log_lock), on two checkouts: the task's worktree on the   *)
(* loop node, and the Director's main, which receives the branch's log     *)
(* when the branch is merged.                                              *)
(***************************************************************************)
EXTENDS Integers, Sequences, FiniteSets

CONSTANTS
  Workers,      \* commands on the loop node's worktree
  Directors,    \* commands on the Director's checkout
  WorkerJobs, DirectorJobs,   \* bounds on commands run, per checkout
  MaxKills,     \* bound on commands killed
  MaxResets,    \* bound on worktrees cut anew
  MaxPlants     \* bound on flag events a branch carries that no command wrote

ASSUME FlagsAssumption ==
  /\ Workers \cap Directors = {}
  /\ WorkerJobs \in Nat /\ DirectorJobs \in Nat
  /\ MaxKills \in Nat /\ MaxResets \in Nat /\ MaxPlants \in Nat

VARIABLES
  log,      \* the iteration log on each checkout
  pushed,   \* the log as committed and pushed to the task's branch
  cmd,      \* the command each writer is in
  acked,    \* history: what commands reported as done
  jobs, kills, resets, plants

flagVars == <<log, pushed, cmd, acked, jobs, kills, resets, plants>>

Writers == Workers \cup Directors
Checkouts == {"wt", "main"}
At(w) == IF w \in Workers THEN "wt" ELSE "main"
MaxJobs == [c \in Checkouts |-> IF c = "wt" THEN WorkerJobs ELSE DirectorJobs]
ORACLE_ESCAPE == "oracle-escape"
FLAG_KINDS == {"note", ORACLE_ESCAPE}
FLAG_RESOLUTIONS == {"resolved", "dismissed"}

(***************************************************************************)
(* An event of the log: `id` is the number N of <task>#N; `key` stands for *)
(* the summary and detail, and names the finding an escape is about.       *)
(***************************************************************************)
Ids == 1 .. WorkerJobs + DirectorJobs + 2 * MaxPlants + 1
Keys == 0 .. 2 * (WorkerJobs + DirectorJobs)
Flag(i, kind, k) == [action |-> "flag", id |-> i, kind |-> kind, key |-> k]
FlagResolved(i, r, k) == [action |-> "flag-resolved", id |-> i, kind |-> r, key |-> k]

FlagEvent == [action : {"flag", "flag-resolved"}, id : Ids,
              kind : FLAG_KINDS \cup FLAG_RESOLUTIONS, key : Keys]

Least(S) == CHOOSE i \in S : \A j \in S : i <= j

Raised(entries, i) == {n \in DOMAIN entries : entries[n].action = "flag" /\ entries[n].id = i}
flag_ids(entries) == {entries[n].id : n \in {m \in DOMAIN entries : entries[m].action = "flag"}}

\* derive_flags: the first event of an id raises it, the first resolution after
\* it decides; every other event is ignored.
derive_flags(entries) ==
  [i \in flag_ids(entries) |->
     LET n == Least(Raised(entries, i))
         res == {m \in DOMAIN entries : m > n /\ entries[m].action = "flag-resolved" /\ entries[m].id = i}
     IN [kind |-> entries[n].kind, key |-> entries[n].key,
         status |-> IF res = {} THEN "open" ELSE entries[Least(res)].kind,
         by |-> IF res = {} THEN 0 ELSE entries[Least(res)].key]]

open_flags(entries) == {i \in flag_ids(entries) : derive_flags(entries)[i].status = "open"}

\* Mutant of next_id: one more than the flags there are.
CountedId(entries) == Cardinality(flag_ids(entries)) + 1

\* The id raise_flag assigns: one more than the largest in the log.
next_id(entries) ==
  IF flag_ids(entries) = {} THEN 1
  ELSE 1 + CHOOSE i \in flag_ids(entries) : \A j \in flag_ids(entries) : j <= i

Idle == [pc |-> "idle", job |-> "none", id |-> 0, kind |-> "none", key |-> 0]

FlagsInit ==
  /\ log = [c \in Checkouts |-> <<>>] /\ pushed = <<>>
  /\ cmd = [w \in Writers |-> Idle]
  /\ acked = {}
  /\ jobs = [c \in Checkouts |-> 0]
  /\ kills = 0 /\ resets = 0 /\ plants = 0

(***************************************************************************)
(* One command. The loop's command line offers no oracle-escape and the    *)
(* library refuses one to it; the escape command is the Director's.        *)
(***************************************************************************)
\* The key of a new command: its number. A killed escape command may be typed again.
FreshKey(w) == 2 * jobs[At(w)] + (IF w \in Workers THEN 1 ELSE 2)

InSection(w) == cmd[w].pc = "append"

\* log_lock waits for an exclusive lock on the log file of its checkout.
LockFree(w) == \A v \in Writers : At(v) = At(w) => ~InSection(v)

\* A command's number is its step into the section: until then it read nothing.
Enter(w) ==
  /\ cmd[w].pc = "idle" /\ LockFree(w)
  /\ jobs[At(w)] < MaxJobs[At(w)] /\ jobs' = [jobs EXCEPT ![At(w)] = @ + 1]
  /\ UNCHANGED <<log, pushed, acked, kills, resets, plants>>

\* raise_flag takes the next id.
RaiseFlag(w, k) ==
  /\ Enter(w)
  /\ cmd' = [cmd EXCEPT ![w] = [pc |-> "append", job |-> "raise", id |-> next_id(log[At(w)]), key |-> k,
                                 kind |-> IF w \in Workers THEN "note" ELSE ORACLE_ESCAPE]]

\* resolve_flag needs the flag open, and an escape needs the Director; it
\* returns or raises without a write otherwise.
resolvable(w, i) ==
  /\ i \in open_flags(log[At(w)])
  /\ derive_flags(log[At(w)])[i].kind = ORACLE_ESCAPE => w \in Directors

ResolveFlag(w, i, r) ==
  /\ Enter(w) /\ resolvable(w, i)
  /\ cmd' = [cmd EXCEPT ![w] = [pc |-> "append", job |-> r, id |-> i, key |-> FreshKey(w), kind |-> "none"]]

\* The event goes to the end of the file of that name; raise_oracle_escape
\* continues with the run log.
AppendEvent(w) ==
  /\ cmd[w].pc = "append"
  /\ log' = [log EXCEPT ![At(w)] = Append(@,
       IF cmd[w].job = "raise" THEN Flag(cmd[w].id, cmd[w].kind, cmd[w].key)
       ELSE FlagResolved(cmd[w].id, cmd[w].job, cmd[w].key))]
  /\ acked' = acked \cup {[at |-> At(w), job |-> cmd[w].job, id |-> cmd[w].id, key |-> cmd[w].key]}
  /\ cmd' = [cmd EXCEPT ![w] = IF cmd[w].kind = ORACLE_ESCAPE THEN [@ EXCEPT !.pc = "anchor"] ELSE Idle]
  /\ UNCHANGED <<pushed, jobs, kills, resets, plants>>

\* A kill releases the lock; what was appended stays. Before the append it
\* leaves nothing, so only the kill of an escape between its two appends counts.
KillCommand(w) ==
  /\ cmd[w].pc = "anchor" /\ kills < MaxKills /\ kills' = kills + 1
  /\ cmd' = [cmd EXCEPT ![w] = Idle]
  /\ UNCHANGED <<log, pushed, acked, jobs, resets, plants>>

Command(w) == AppendEvent(w) \/ KillCommand(w)

(***************************************************************************)
(* The worktree.                                                           *)
(***************************************************************************)
\* A loop that ends commits everything and pushes.
LoopEnds ==
  /\ pushed # log["wt"] /\ pushed' = log["wt"]
  /\ UNCHANGED <<log, cmd, acked, jobs, kills, resets, plants>>

\* What an agent may write into the log: an escape, with a gap before its id, or
\* the resolution of a flag, or of one that is not raised yet. Key 0: no command
\* wrote it.
Forged(entries) ==
  {Flag(1 + next_id(entries), ORACLE_ESCAPE, 0)}
    \cup {FlagResolved(i, r, 0) : i \in flag_ids(entries) \cup {next_id(entries)}, r \in FLAG_RESOLUTIONS}

\* The log is the branch's to write: an agent appends an event of its own making.
\* Agents take no lock; that one writes inside a command's section, or changes
\* the lines that are there, is left out.
Plant ==
  /\ plants < MaxPlants /\ plants' = plants + 1
  /\ \A w \in Workers : ~InSection(w)
  /\ \E event \in Forged(log["wt"]) : log' = [log EXCEPT !["wt"] = Append(@, event)]
  /\ UNCHANGED <<pushed, cmd, acked, jobs, kills, resets>>

FlagsNext ==
  \/ \E w \in Writers : Command(w)
  \/ \E w \in Workers : RaiseFlag(w, FreshKey(w))
  \/ \E w \in Writers : \E i \in flag_ids(log[At(w)]), r \in FLAG_RESOLUTIONS :
       /\ w \in Workers => r = "resolved"   \* bound: what the loop node closes is "resolved"
       /\ ResolveFlag(w, i, r)
  \/ LoopEnds \/ Plant

(***************************************************************************)
(* Properties of the logs                                                  *)
(***************************************************************************)
\* A raise that reported an id is the flag of that id, on the Director's checkout
\* and in the worktree it was raised in: raises at the same time do not collide
\* and a planted id hides none.
RaisedVisible ==
  \A a \in acked :
    a.job = "raise" =>
      a.id \in flag_ids(log[a.at]) /\ derive_flags(log[a.at])[a.id].key = a.key

\* A resolution that reported success is the one the flag shows.
ResolutionStands ==
  \A a \in acked :
    a.job \in FLAG_RESOLUTIONS =>
      LET d == derive_flags(log[a.at]) IN d[a.id].status = a.job /\ d[a.id].by = a.key
=============================================================================
