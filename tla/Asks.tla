-------------------------------- MODULE Asks --------------------------------
(***************************************************************************)
(* The gates before a loop - clarify, then design approval for a high-risk *)
(* task - asking the Director through files: a gate writes the question    *)
(* and polls for the answer (remote_ask.py), the phone's server, one       *)
(* thread per request, lists questions and writes answers                  *)
(* (phone/handlers.py). Commands of one task may overlap: the gates take   *)
(* no lock.                                                                *)
(***************************************************************************)
EXTENDS Integers, Sequences, FiniteSets

CONSTANTS
  Commands,     \* kickoffs, or single phases, of the task
  Requests,     \* threads of the phone's server
  Questions,    \* how many questions a clarify agent may come up with
  MaxPosts,     \* bound on answers posted
  MaxKills      \* bound on gates killed

ASSUME AsksAssumption ==
  /\ Questions \subseteq Nat /\ 0 \in Questions
  /\ MaxPosts \in Nat /\ MaxKills \in Nat

VARIABLES
  gate,       \* the command each runs
  question,   \* <task>.json: the id in it, 0 when there is none
  tmp,        \* .<task>.answer.tmp: the file of that name, 0 when there is none
  answer,     \* <task>.answer.json: likewise
  file,       \* what is in each file
  request,    \* the POST each thread serves
  asked,      \* history: what each id was asked for
  given,      \* history: what the Director answered
  tlog,       \* the gates' entries of the iteration log
  spec,       \* the task's spec
  draft,      \* what each gate is about to write there
  declared,   \* history: the Director's spec was a high-risk one
  recorded,   \* history: the answers of the gates that are done, a block each
  raced,      \* history: a gate read or wrote the spec while another wrote it,
              \* or was killed while it did
  kills

specVars == <<spec, draft, recorded, raced>>
gateVars == <<gate, tlog, specVars, declared, kills>>
phoneVars == <<tmp, file, request, given>>
vars == <<gateVars, phoneVars, question, answer, asked>>

Texts == {"approve", "other"}
Torn == [id |-> 0, text |-> "torn"]
NoAsk == [id |-> 0, late |-> FALSE, text |-> "none"]
Started == [pc |-> "clarify", left |-> 0, pairs |-> <<>>, ask |-> NoAsk, risky |-> FALSE]
Ended == [Started EXCEPT !.pc = "ended"]
NoRequest == [pc |-> "idle", body |-> Torn, fd |-> 0]

\* The spec: the parts it is put together from - the Director's text, whole
\* Clarifications blocks, what is left of a longer text that was written over -
\* and whether spec_is_high_risk says so of them.
Original == [kind |-> "text", pairs |-> <<>>]
Block(pairs) == [kind |-> "block", pairs |-> pairs]
Leftover == [kind |-> "tail", pairs |-> <<>>]
NoText == [parts |-> <<>>, risky |-> FALSE]

Init ==
  /\ gate = [c \in Commands |-> [Started EXCEPT !.pc = "new"]]
  /\ question = 0 /\ tmp = 0 /\ answer = 0 /\ file = <<>>
  /\ request = [r \in Requests |-> NoRequest]
  /\ asked = <<>> /\ given = {}
  /\ tlog = <<>> /\ declared \in BOOLEAN
  /\ spec = [parts |-> <<Original>>, risky |-> declared] /\ draft = [c \in Commands |-> NoText]
  /\ recorded = {} /\ raced = FALSE /\ kills = 0

has_clarify == \E n \in DOMAIN tlog : tlog[n] = "clarify"

\* Mutant of design_approved: any entry of the design gate counts.
DesignDone == \E n \in DOMAIN tlog : tlog[n] \in {"design_approved", "design_rejected"}

design_approved == \E n \in DOMAIN tlog : tlog[n] = "design_approved"

Asking(c) == gate[c].pc \in {"poll", "drop", "leave", "left"}
Writing == \E c \in Commands : gate[c].pc = "write"

(***************************************************************************)
(* RemoteAsk.ask.                                                          *)
(***************************************************************************)
\* An old answer is removed, the question gets an id of its own.
Ask(c, what, g) ==
  /\ asked' = Append(asked, [by |-> c, what |-> what, n |-> Len(g.pairs) + 1])
  /\ question' = Len(asked) + 1 /\ answer' = 0
  /\ gate' = [gate EXCEPT ![c] = [g EXCEPT !.pc = "poll", !.ask = [NoAsk EXCEPT !.id = Len(asked) + 1]]]

Deadline(c) ==
  /\ gate[c].pc \in {"poll", "drop"} /\ ~gate[c].ask.late
  /\ gate' = [gate EXCEPT ![c].ask.late = TRUE]
  /\ UNCHANGED <<phoneVars, question, answer, asked, tlog, specVars, declared, kills>>

\* A torn file does not parse and reads like none.
Readable == answer # 0 /\ file[answer] # Torn

\* Mutant of Matches: the id in the answer is not compared.
AnyAnswer(c) == Readable

Matches(c) == Readable /\ file[answer].id = gate[c].ask.id

\* An ask is over: with a text, or with a RemoteAskTimeout.
Over(c, text) ==
  gate' = [gate EXCEPT ![c].pc = "leave", ![c].ask = [NoAsk EXCEPT !.id = gate[c].ask.id, !.text = text]]

\* Mutant of PollNone: the deadline is looked at only when there is no file.
PollAbsent(c) ==
  /\ gate[c].pc = "poll" /\ answer = 0 /\ gate[c].ask.late /\ Over(c, "timeout")
  /\ UNCHANGED <<phoneVars, question, answer, asked, tlog, specVars, declared, kills>>

\* A poll that finds nothing sleeps again until the deadline has passed,
PollNone(c) ==
  /\ gate[c].pc = "poll" /\ ~Readable /\ gate[c].ask.late /\ Over(c, "timeout")
  /\ UNCHANGED <<phoneVars, question, answer, asked, tlog, specVars, declared, kills>>

\* one that reads an answer to something else removes the file of that name,
\* whatever it is by then,
PollStale(c) ==
  /\ gate[c].pc = "poll" /\ Readable /\ ~Matches(c)
  /\ gate' = [gate EXCEPT ![c].pc = "drop"]
  /\ UNCHANGED <<phoneVars, question, answer, asked, tlog, specVars, declared, kills>>

DropStale(c) ==
  /\ gate[c].pc = "drop" /\ answer' = 0
  /\ IF gate[c].ask.late THEN Over(c, "timeout") ELSE gate' = [gate EXCEPT ![c].pc = "poll"]
  /\ UNCHANGED <<phoneVars, question, asked, tlog, specVars, declared, kills>>

\* and one that reads the answer has it.
PollAnswer(c) ==
  /\ gate[c].pc = "poll" /\ Matches(c) /\ Over(c, file[answer].text)
  /\ UNCHANGED <<phoneVars, question, answer, asked, tlog, specVars, declared, kills>>

\* Mutant of LeaveQuestion: the question is left to whoever asks next.
LeaveQuestionFile(c) ==
  /\ gate[c].pc = "leave" /\ gate' = [gate EXCEPT ![c].pc = "left"]
  /\ UNCHANGED <<phoneVars, question, answer, asked, tlog, specVars, declared, kills>>

\* However an ask ends, both names are removed, whoever wrote the files: first
\* the question's,
LeaveQuestion(c) ==
  /\ gate[c].pc = "leave" /\ gate' = [gate EXCEPT ![c].pc = "left"] /\ question' = 0
  /\ UNCHANGED <<phoneVars, answer, asked, tlog, specVars, declared, kills>>

\* then the answer's; and the gate goes on with the text it read.
Leave(c, Then(_)) ==
  /\ gate[c].pc = "left" /\ answer' = 0 /\ Then(gate[c].ask.text)
  /\ UNCHANGED <<phoneVars, question, asked, specVars, declared, kills>>

(***************************************************************************)
(* The gates, in the order of a kickoff; a single phase starts at its own. *)
(***************************************************************************)
Start(c) ==
  /\ gate[c].pc = "new"
  /\ \E phase \in {"clarify", "design", "loop"} : gate' = [gate EXCEPT ![c].pc = phase]
  /\ UNCHANGED <<phoneVars, question, answer, asked, tlog, specVars, declared, kills>>

\* Once in the log the clarify gate is never run again. An agent whose runs
\* fail or cannot be parsed, twice, has no questions.
Clarify(c) ==
  /\ gate[c].pc = "clarify"
  /\ \/ /\ has_clarify /\ gate' = [gate EXCEPT ![c].pc = "design"]
        /\ UNCHANGED <<question, answer, asked, tlog>>
     \/ /\ ~has_clarify /\ gate' = [gate EXCEPT ![c].pc = "design"]
        /\ tlog' = Append(tlog, "clarify")
        /\ UNCHANGED <<question, answer, asked>>
     \/ /\ ~has_clarify
        /\ \E n \in Questions \ {0} : Ask(c, "clarify", [gate[c] EXCEPT !.left = n])
        /\ UNCHANGED tlog
  /\ UNCHANGED <<phoneVars, specVars, declared, kills>>

IsClarify(c) == asked[gate[c].ask.id].what = "clarify"

\* A timeout ends the command; nothing was recorded. The spec is updated when the
\* last question is answered.
Clarified(c) ==
  /\ gate[c].pc = "left" /\ IsClarify(c)
  /\ Leave(c, LAMBDA text :
       LET g == [gate[c] EXCEPT !.pairs = Append(@, [id |-> gate[c].ask.id, text |-> text]),
                                !.left = @ - 1, !.ask = NoAsk]
       IN /\ gate' = [gate EXCEPT ![c] = IF text = "timeout" THEN Ended
                                         ELSE [g EXCEPT !.pc = IF g.left > 0 THEN "next" ELSE "read"]]
          /\ UNCHANGED tlog)

NextQuestion(c) ==
  /\ gate[c].pc = "next" /\ Ask(c, "clarify", gate[c])
  /\ UNCHANGED <<phoneVars, tlog, specVars, declared, kills>>

\* _append_clarifications takes no lock: it reads the text there is,
ReadSpec(c) ==
  /\ gate[c].pc = "read" /\ gate' = [gate EXCEPT ![c].pc = "truncate"]
  /\ draft' = [draft EXCEPT ![c] = [spec EXCEPT !.parts = Append(@, Block(gate[c].pairs))]]
  /\ raced' = (raced \/ Writing)
  /\ UNCHANGED <<phoneVars, question, answer, asked, tlog, spec, recorded, declared, kills>>

\* opens the file empty,
TruncateSpec(c) ==
  /\ gate[c].pc = "truncate" /\ gate' = [gate EXCEPT ![c].pc = "write"]
  /\ spec' = NoText
  /\ raced' = (raced \/ \E d \in Commands \ {c} : gate[d].pc \in {"truncate", "write"})
  /\ UNCHANGED <<phoneVars, question, answer, asked, tlog, draft, recorded, declared, kills>>

\* and writes the text and its block from the start: over a longer text it leaves
\* that one's tail. Questions, answers and tails may name a sensitive path.
WriteSpec(c) ==
  /\ gate[c].pc = "write" /\ gate' = [gate EXCEPT ![c].pc = "record"]
  /\ \E tail \in {<<>>} \cup (IF spec = NoText THEN {} ELSE {<<Leftover>>}), risky \in {draft[c].risky, TRUE} :
       spec' = [parts |-> draft[c].parts \o tail, risky |-> risky]
  /\ draft' = [draft EXCEPT ![c] = NoText]
  /\ UNCHANGED <<phoneVars, question, answer, asked, tlog, recorded, raced, declared, kills>>

RecordClarify(c) ==
  /\ gate[c].pc = "record" /\ gate' = [gate EXCEPT ![c].pc = "design", ![c].pairs = <<>>]
  /\ tlog' = Append(tlog, "clarify") /\ recorded' = recorded \cup {gate[c].pairs}
  /\ UNCHANGED <<phoneVars, question, answer, asked, spec, draft, raced, declared, kills>>

\* A high-risk task, as its spec reads now, whose approach is not approved yet
\* shows it and asks.
Design(c) ==
  /\ gate[c].pc = "design" /\ raced' = (raced \/ Writing)
  /\ IF spec.risky /\ ~design_approved THEN Ask(c, "design", gate[c])
     ELSE /\ gate' = [gate EXCEPT ![c].pc = "loop"] /\ UNCHANGED <<question, answer, asked>>
  /\ UNCHANGED <<phoneVars, tlog, spec, draft, recorded, declared, kills>>

Decided(c) ==
  /\ gate[c].pc = "left" /\ ~IsClarify(c)
  /\ Leave(c, LAMBDA text :
       /\ tlog' = CASE text = "timeout" -> tlog
                    [] text = "approve" -> Append(tlog, "design_approved")
                    [] OTHER -> Append(tlog, "design_rejected")
       /\ gate' = [gate EXCEPT ![c] = IF text = "approve" THEN [Started EXCEPT !.pc = "loop"] ELSE Ended])

\* _phase_loop_locked checks both gates again; --skip-clarify waives the first.
Loop(c, skip_clarify) ==
  /\ gate[c].pc = "loop" /\ raced' = (raced \/ Writing)
  /\ gate' = [gate EXCEPT ![c] =
       IF (skip_clarify \/ has_clarify) /\ (spec.risky => design_approved)
       THEN [Ended EXCEPT !.pc = "running", !.risky = spec.risky] ELSE Ended]
  /\ UNCHANGED <<phoneVars, question, answer, asked, tlog, spec, draft, recorded, declared, kills>>

\* A killed gate leaves its files, and the spec empty when it had opened it.
KillGate(c) ==
  /\ gate[c].pc \notin {"new", "running", "ended"} /\ kills < MaxKills /\ kills' = kills + 1
  /\ gate' = [gate EXCEPT ![c] = Ended] /\ draft' = [draft EXCEPT ![c] = NoText]
  /\ raced' = (raced \/ gate[c].pc = "write")
  /\ UNCHANGED <<phoneVars, question, answer, asked, tlog, spec, recorded, declared>>

Poll(c) ==
  \/ PollNone(c) \/ PollStale(c) \/ DropStale(c) \/ PollAnswer(c)
  \/ LeaveQuestion(c) \/ Clarified(c) \/ Decided(c)

Gate(c) ==
  \/ Start(c) \/ Clarify(c) \/ NextQuestion(c)
  \/ ReadSpec(c) \/ TruncateSpec(c) \/ WriteSpec(c) \/ RecordClarify(c)
  \/ Design(c) \/ \E skip \in BOOLEAN : Loop(c, skip)

(***************************************************************************)
(* The phone's server: list_questions and write_answer.                    *)
(***************************************************************************)
\* The Director answers a question that is there, or that a page listed when it was,
Post(r) ==
  /\ request[r].pc = "idle" /\ Cardinality(given) < MaxPosts
  /\ \E id \in DOMAIN asked, text \in Texts :
       /\ given' = given \cup {[id |-> id, text |-> text]} /\ given' # given
       /\ request' = [request EXCEPT ![r] = [pc |-> "open", body |-> [id |-> id, text |-> text], fd |-> 0]]
  /\ UNCHANGED <<gateVars, question, answer, asked, tmp, file>>

\* the temporary file, of one name for all requests, is opened empty,
OpenTmp(r) ==
  /\ request[r].pc = "open"
  /\ LET f == IF tmp = 0 THEN Len(file) + 1 ELSE tmp
     IN /\ tmp' = f
        /\ file' = IF tmp = 0 THEN Append(file, Torn) ELSE [file EXCEPT ![f] = Torn]
        /\ request' = [request EXCEPT ![r].pc = "write", ![r].fd = f]
  /\ UNCHANGED <<gateVars, question, answer, asked, given>>

\* written from its start - over a longer text it leaves that one's tail -
WriteTmp(r) ==
  /\ request[r].pc = "write"
  /\ LET f == request[r].fd
     IN \E content \in {request[r].body} \cup (IF file[f] = Torn THEN {} ELSE {Torn}) :
          file' = [file EXCEPT ![f] = content]
  /\ request' = [request EXCEPT ![r].pc = "replace"]
  /\ UNCHANGED <<gateVars, question, answer, asked, tmp, given>>

\* and renamed; when another request renamed it first this one fails.
ReplaceTmp(r) ==
  /\ request[r].pc = "replace"
  /\ IF tmp = 0 THEN UNCHANGED <<answer, tmp>> ELSE answer' = tmp /\ tmp' = 0
  /\ request' = [request EXCEPT ![r] = NoRequest]
  /\ UNCHANGED <<gateVars, question, asked, file, given>>

Phone == \E r \in Requests : Post(r) \/ OpenTmp(r) \/ WriteTmp(r) \/ ReplaceTmp(r)

Next ==
  \/ \E c \in Commands : Gate(c) \/ Poll(c) \/ Deadline(c) \/ KillGate(c)
  \/ Phone

(***************************************************************************)
(* A polling gate runs and time passes; nobody has to answer.              *)
(***************************************************************************)
Spec ==
  /\ Init /\ [][Next]_vars
  /\ \A c \in Commands : WF_vars(Poll(c)) /\ WF_vars(Deadline(c))

(***************************************************************************)
(* Properties                                                              *)
(***************************************************************************)
TypeOK ==
  /\ \A c \in Commands :
       /\ gate[c].pc \in {"new", "clarify", "poll", "drop", "leave", "left", "next", "read", "truncate",
                           "write", "record", "design", "loop", "running", "ended"}
       /\ gate[c].left \in Nat /\ (gate[c].pc = "next" \/ Asking(c) \/ gate[c].left = 0)
       /\ Asking(c) => gate[c].ask.id \in DOMAIN asked
  /\ question \in 0 .. Len(asked)
  /\ tmp \in 0 .. Len(file) /\ answer \in 0 .. Len(file)
  /\ \A f \in DOMAIN file : file[f] \in given \cup {Torn}
  /\ \A n \in DOMAIN tlog : tlog[n] \in {"clarify", "design_approved", "design_rejected"}

Blocks == {b \in DOMAIN spec.parts : spec.parts[b].kind = "block"}

\* A Clarifications block holds, in order, the questions one gate asked, each
\* with an answer the Director gave to that very question: an answer to an
\* earlier question or to another gate's, a torn file or a timeout in between
\* never gets into a block.
BlocksMatch ==
  \A b \in Blocks : \A i \in DOMAIN spec.parts[b].pairs :
    LET p == spec.parts[b].pairs[i]
    IN /\ p \in given
       /\ asked[p.id].what = "clarify" /\ asked[p.id].n = i
       /\ asked[p.id].by = asked[spec.parts[b].pairs[1].id].by

\* As long as no gate met another, or its end, in the middle of an update, the
\* spec is the Director's text and whole blocks, with those of all gates that
\* are done: also of gates that asked at the same time.
SpecWhole ==
  ~raced /\ ~Writing =>
    /\ spec.parts # <<>> /\ \A b \in DOMAIN spec.parts : IF b = 1 THEN spec.parts[b] = Original ELSE b \in Blocks
    /\ \A pairs \in recorded : \E b \in Blocks : spec.parts[b].pairs = pairs

\* What the answers are worth in the spec.
AnswersMatch == BlocksMatch /\ SpecWhole

\* The loop of a task whose spec reads as high-risk runs only if the Director
\* answered a design question with approve: no rejection, no "approve" typed for
\* another question, and no second command lets it through. A spec that was a
\* high-risk one reads so, unless a gate met it in the middle of an update.
LoopNeedsApproval ==
  \A c \in Commands :
    gate[c].pc = "running" /\ (gate[c].risky \/ (declared /\ ~raced)) =>
      \E g \in given : asked[g.id].what = "design" /\ g.text = "approve"

\* "the directory holds only live questions" (remote_ask.py): when no gate asks
\* and none was killed, the phone shows no question, also after gates that
\* overlapped and removed each other's files.
NoDeadQuestion ==
  (\A c \in Commands : ~Asking(c)) /\ kills = 0 => question = 0

\* The files of the protocol hold what somebody wrote or half wrote, and no
\* question is left on the phone when nobody asks.
FilesSound == TypeOK /\ NoDeadQuestion

\* An ask ends, with the answer or at its deadline, whatever the phone writes
\* and whoever else removes the files.
EveryAskEnds == \A c \in Commands : Asking(c) ~> ~Asking(c)
=============================================================================
