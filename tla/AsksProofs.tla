------------------------------ MODULE AsksProofs ------------------------------
(***************************************************************************)
(* What the gates before a loop can trust of the files they ask through,   *)
(* for any number of commands of one task, of threads of the phone's       *)
(* server, of questions, answers and kills.                                *)
(***************************************************************************)
EXTENDS Asks, TLAPS

-----------------------------------------------------------------------------
(* Types *)

GatePcs == {"new", "clarify", "poll", "drop", "leave", "left", "next", "read", "truncate",
            "write", "record", "design", "loop", "running", "ended"}
GateEntries == {"clarify", "design_approved", "design_rejected"}
Question == [by : Commands, what : {"clarify", "design"}, n : Nat \ {0}]
Answer == [id : Nat, text : Texts]
AskState == [id : Nat, late : BOOLEAN, text : Texts \cup {"none", "timeout"}]
GateState == [pc : GatePcs, left : Nat, pairs : Seq(Answer), ask : AskState, risky : BOOLEAN]
RequestState == [pc : {"idle", "open", "write", "replace"},
                 body : Answer \cup {Torn}, fd : Nat]
Part == [kind : {"text", "block", "tail"}, pairs : Seq(Answer)]
SpecState == [parts : Seq(Part), risky : BOOLEAN]

SpecTypes ==
    /\ spec \in SpecState /\ draft \in [Commands -> SpecState]
    /\ recorded \subseteq Seq(Answer) /\ raced \in BOOLEAN /\ declared \in BOOLEAN

AsksTypes ==
    /\ gate \in [Commands -> GateState]
    /\ request \in [Requests -> RequestState]
    /\ asked \in Seq(Question) /\ tlog \in Seq(GateEntries)
    /\ SpecTypes /\ file \in Seq(Answer \cup {Torn})
    /\ given \subseteq Answer
    /\ question \in Nat /\ tmp \in Nat /\ answer \in Nat
    /\ kills \in Nat

-----------------------------------------------------------------------------
(* The inductive invariant *)

\* The pairs are the answers to c's clarify questions, from the first on.
Owned(c, pairs) ==
    \A i \in DOMAIN pairs :
      /\ pairs[i] \in given
      /\ asked[pairs[i].id] = [by |-> c, what |-> "clarify", n |-> i]

\* A gate knows which question it is at, and that it asked it itself; a text it
\* read is an answer to that one.
GateOk(c, g) ==
    /\ g.pc \in {"next", "poll", "drop", "leave", "left"} \/ g.left = 0
    /\ g.pc = "next" => g.left > 0
    /\ g.pc \in {"poll", "drop", "leave", "left"} =>
         /\ g.ask.id \in 1 .. Len(asked)
         /\ asked[g.ask.id].by = c /\ asked[g.ask.id].n = Len(g.pairs) + 1
         /\ asked[g.ask.id].what = "clarify" => g.left > 0
    /\ g.pc \in {"leave", "left"} /\ g.ask.text # "timeout" =>
         [id |-> g.ask.id, text |-> g.ask.text] \in given
    /\ Owned(c, g.pairs)
    /\ g.pc = "running" /\ g.risky => design_approved
    /\ g.pc = "running" /\ declared /\ ~raced => g.risky

\* Whole files hold answers somebody gave to a question that was asked.
PhoneOk ==
    /\ question \in 0 .. Len(asked)
    /\ tmp \in 0 .. Len(file) /\ answer \in 0 .. Len(file)
    /\ \A a \in given : a.id \in 1 .. Len(asked)
    /\ \A f \in 1 .. Len(file) : file[f] \in given \cup {Torn}
    /\ \A r \in Requests :
         /\ request[r].pc # "idle" => request[r].body \in given
         /\ request[r].pc \in {"write", "replace"} => request[r].fd \in 1 .. Len(file)

Approved == \E a \in given : asked[a.id].what = "design" /\ a.text = "approve"

\* Every block, in the spec or about to be written, is one command's.
AllOwned(parts) ==
    \A b \in DOMAIN parts :
      parts[b].kind = "block" => \E c \in Commands : Owned(c, parts[b].pairs)

SpecOk == AllOwned(spec.parts) /\ \A c \in Commands : AllOwned(draft[c].parts)

Has(parts, pairs) == \E b \in DOMAIN parts : parts[b].kind = "block" /\ parts[b].pairs = pairs

Whole(parts) ==
    /\ parts # <<>>
    /\ \A b \in DOMAIN parts : IF b = 1 THEN parts[b] = Original ELSE parts[b].kind = "block"

\* A spec with nothing lost: the Director's text, what is recorded and what is
\* about to be.
Fresh(s) ==
    /\ Whole(s.parts) /\ (declared => s.risky)
    /\ \A pairs \in recorded : Has(s.parts, pairs)
    /\ \A d \in Commands : gate[d].pc = "record" => Has(s.parts, gate[d].pairs)

\* As long as no gate met another in an update, one that has opened the spec is
\* alone with it, and what is about to be written is all there was and its block.
RaceInv ==
    ~raced =>
      /\ \A c \in Commands :
           /\ gate[c].pc \in {"truncate", "write"} =>
                Fresh(draft[c]) /\ Has(draft[c].parts, gate[c].pairs)
           /\ gate[c].pc = "write" =>
                \A d \in Commands \ {c} : gate[d].pc \notin {"truncate", "write"}
      /\ IF Writing THEN spec = NoText ELSE Fresh(spec)

\* A question that is there is one of a gate that has yet to remove it.
QuestionHeld ==
    question # 0 /\ kills = 0 =>
      \E c \in Commands : gate[c].pc \in {"poll", "drop", "leave"}

AsksInv ==
    /\ AsksTypes
    /\ \A c \in Commands : GateOk(c, gate[c])
    /\ PhoneOk
    /\ design_approved => Approved
    /\ SpecOk
    /\ RaceInv
    /\ QuestionHeld

\* The states a gate starts and ends in.
LEMMA StartedOk ==
    ASSUME NEW pc \in GatePcs, NEW risky \in BOOLEAN
    PROVE  /\ [Started EXCEPT !.pc = pc] \in GateState
           /\ [Ended EXCEPT !.pc = pc, !.risky = risky] \in GateState
           /\ Ended \in GateState /\ NoAsk \in AskState
<1>1. <<>> \in Seq(Answer) /\ NoAsk \in AskState
  BY DEF NoAsk, AskState
<1> QED BY <1>1 DEF Started, Ended, GateState, GatePcs

LEMMA AsksInit == Init => AsksInv
<1> SUFFICES ASSUME Init PROVE AsksInv
  OBVIOUS
<1>1. [Started EXCEPT !.pc = "new"] \in GateState
  <2>1. "new" \in GatePcs /\ FALSE \in BOOLEAN
    BY DEF GatePcs
  <2> QED BY <2>1, StartedOk
<1>2. NoRequest \in RequestState
  BY DEF NoRequest, RequestState
<1>3. SpecTypes
  <2>1. Original \in Part /\ declared \in BOOLEAN
    <3>1. <<>> \in Seq(Answer)
      OBVIOUS
    <3> QED BY <3>1 DEF Init, Original, Part
  <2>2. [parts |-> <<Original>>, risky |-> declared] \in SpecState /\ NoText \in SpecState
    BY <2>1 DEF SpecState, NoText
  <2> QED BY <2>1, <2>2 DEF Init, SpecTypes
<1>4. AsksTypes
  BY <1>1, <1>2, <1>3 DEF Init, AsksTypes
<1>5. \A c \in Commands : GateOk(c, gate[c])
  BY DEF Init, GateOk, Started, Owned
<1>6. PhoneOk
  BY DEF Init, PhoneOk, NoRequest
<1>7. SpecOk /\ RaceInv
  <2>1. \A c \in Commands : gate[c].pc = "new" /\ draft[c] = NoText
    BY DEF Init, Started
  <2>2. spec.parts = <<Original>> /\ (declared => spec.risky) /\ recorded = {}
    BY DEF Init
  <2>3. SpecOk
    BY <2>1, <2>2 DEF SpecOk, AllOwned, NoText, Original
  <2>4. Fresh(spec) /\ ~Writing
    BY <2>1, <2>2 DEF Fresh, Whole, Writing
  <2> QED BY <2>1, <2>3, <2>4 DEF RaceInv
<1> QED BY <1>4, <1>5, <1>6, <1>7
        DEF Init, AsksInv, design_approved, QuestionHeld

-----------------------------------------------------------------------------
(* What a step leaves of the history *)

\* Questions keep their numbers, answers stay given.
HistoryGrows ==
    /\ Len(asked) <= Len(asked') /\ \A i \in 1 .. Len(asked) : asked'[i] = asked[i]
    /\ given \subseteq given'

LEMMA OwnedKept ==
    ASSUME AsksInv, HistoryGrows, NEW c, NEW pairs, Owned(c, pairs)
    PROVE  Owned(c, pairs)'
<1>1. \A a \in given : asked'[a.id] = asked[a.id]
  BY DEF AsksInv, PhoneOk, HistoryGrows
<1> QED BY <1>1 DEF Owned, HistoryGrows

\* A gate that does not move.
LEMMA GateKept ==
    ASSUME AsksInv, HistoryGrows, declared' = declared, raced => raced',
           design_approved => design_approved',
           NEW c \in Commands, NEW g, g \in GateState, GateOk(c, g)
    PROVE  GateOk(c, g)'
<1>1. Owned(c, g.pairs)'
  BY OwnedKept DEF GateOk
<1>2. asked \in Seq(Question) /\ asked' = asked' /\ Len(asked) \in Nat
  BY DEF AsksInv, AsksTypes
<1>3. ASSUME g.pc \in {"poll", "drop", "leave", "left"}
      PROVE  /\ g.ask.id \in 1 .. Len(asked')
             /\ asked'[g.ask.id] = asked[g.ask.id]
  <2>1. g.ask.id \in 1 .. Len(asked)
    BY <1>3 DEF GateOk
  <2>2. Len(asked) <= Len(asked') /\ asked'[g.ask.id] = asked[g.ask.id]
    BY <2>1 DEF HistoryGrows
  <2>3. g.ask.id \in Nat
    BY DEF GateState, AskState
  <2> QED BY <1>2, <2>1, <2>2, <2>3
<1>4. given \subseteq given'
  BY DEF HistoryGrows
<1> QED BY <1>1, <1>3, <1>4 DEF GateOk

LEMMA AllOwnedKept ==
    ASSUME AsksInv, HistoryGrows, NEW parts, AllOwned(parts)
    PROVE  AllOwned(parts)'
<1> SUFFICES ASSUME NEW b \in DOMAIN parts, parts[b].kind = "block"
             PROVE  \E c \in Commands : Owned(c, parts[b].pairs)'
  BY DEF AllOwned
<1>1. PICK c \in Commands : Owned(c, parts[b].pairs)
  BY DEF AllOwned
<1>2. PICK pairs : pairs = parts[b].pairs
  OBVIOUS
<1>3. Owned(c, pairs)'
  BY <1>1, <1>2, OwnedKept
<1> QED BY <1>2, <1>3

-----------------------------------------------------------------------------
(* The phone *)

\* The server's threads leave the gates and their questions alone.
LEMMA PhoneFrame ==
    ASSUME AsksInv, UNCHANGED <<gateVars, question, asked>>, given \subseteq given',
           AsksTypes', PhoneOk'
    PROVE  AsksInv'
<1> USE DEF gateVars
<1>1. HistoryGrows
  BY DEF AsksInv, AsksTypes, HistoryGrows
<1>2. \A c \in Commands : GateOk(c, gate[c])'
  <2> SUFFICES ASSUME NEW c \in Commands PROVE GateOk(c, gate[c])'
    OBVIOUS
  <2>1. PICK g : g = gate[c]
    OBVIOUS
  <2>2. g \in GateState /\ GateOk(c, g) /\ gate'[c] = g
    BY <2>1 DEF AsksInv, AsksTypes
  <2>3. GateOk(c, g)'
    BY <1>1, <2>2, GateKept DEF design_approved, specVars
  <2> QED BY <2>2, <2>3 DEF GateOk, Owned
<1>3. SpecOk' /\ RaceInv'
  <2>1. PICK parts : parts = spec.parts
    OBVIOUS
  <2>2. AllOwned(spec.parts)'
    <3>1. AllOwned(parts)'
      BY <1>1, <2>1, AllOwnedKept DEF AsksInv, SpecOk
    <3> QED BY <2>1, <3>1 DEF AllOwned, specVars
  <2>3. ASSUME NEW c \in Commands
        PROVE  AllOwned(draft[c].parts)'
    <3>1. PICK others : others = draft[c].parts
      OBVIOUS
    <3>2. AllOwned(others)'
      BY <1>1, <3>1, AllOwnedKept DEF AsksInv, SpecOk
    <3> QED BY <3>1, <3>2 DEF AllOwned, specVars
  <2>4. RaceInv'
    BY DEF AsksInv, RaceInv, Fresh, Writing, specVars
  <2> QED BY <2>2, <2>3, <2>4 DEF SpecOk
<1>4. design_approved' => Approved'
  <2>1. design_approved => Approved
    BY DEF AsksInv
  <2> QED BY <2>1 DEF design_approved, Approved
<1>5. QuestionHeld'
  BY DEF AsksInv, QuestionHeld
<1> QED BY <1>2, <1>3, <1>4, <1>5 DEF AsksInv

LEMMA PhoneStep ==
    ASSUME AsksInv, Phone
    PROVE  AsksInv'
<1>0. /\ request \in [Requests -> RequestState] /\ file \in Seq(Answer \cup {Torn})
      /\ Len(file) \in Nat /\ asked \in Seq(Question) /\ Len(asked) \in Nat
      /\ given \subseteq Answer
      /\ question \in 0 .. Len(asked) /\ tmp \in 0 .. Len(file) /\ answer \in 0 .. Len(file)
      /\ \A a \in given : a.id \in 1 .. Len(asked)
      /\ \A f \in 1 .. Len(file) : file[f] \in given \cup {Torn}
      /\ \A r \in Requests :
           /\ request[r].pc # "idle" => request[r].body \in given
           /\ request[r].pc \in {"write", "replace"} => request[r].fd \in 1 .. Len(file)
  BY DEF AsksInv, AsksTypes, PhoneOk
<1> DEFINE Files == /\ file' \in Seq(Answer \cup {Torn}) /\ Len(file) <= Len(file')
                    /\ tmp' \in 0 .. Len(file') /\ answer' \in 0 .. Len(file')
                    /\ \A f \in 1 .. Len(file') : file'[f] \in given' \cup {Torn}
           Threads == /\ request' \in [Requests -> RequestState]
                      /\ \A r \in Requests :
                           /\ request'[r].pc # "idle" => request'[r].body \in given'
                           /\ request'[r].pc \in {"write", "replace"} =>
                                request'[r].fd \in 1 .. Len(file')
           Answers == /\ given \subseteq given' /\ given' \subseteq Answer
                      /\ \A a \in given' : a.id \in 1 .. Len(asked)
<1>1. ASSUME UNCHANGED <<gateVars, question, asked>>, Files, Threads, Answers
      PROVE  AsksInv'
  <2>1. AsksTypes'
    <3>1. tmp' \in Nat /\ answer' \in Nat
      BY <1>0, <1>1
    <3> QED BY <1>1, <3>1 DEF AsksInv, AsksTypes, SpecTypes, gateVars, specVars
  <2>2. PhoneOk'
    BY <1>0, <1>1 DEF PhoneOk
  <2> QED BY <1>1, <2>1, <2>2, PhoneFrame
\* A thread that moves, over files that may have grown by one.
<1>2. ASSUME NEW r \in Requests, NEW q \in RequestState, request' = [request EXCEPT ![r] = q],
             q.pc # "idle" => q.body \in given',
             q.pc \in {"write", "replace"} => q.fd \in 1 .. Len(file'),
             given \subseteq given', Len(file) <= Len(file'), Len(file') \in Nat
      PROVE  Threads
  <2>1. request' \in [Requests -> RequestState]
    BY <1>0, <1>2
  <2>2. ASSUME NEW s \in Requests
        PROVE  /\ request'[s].pc # "idle" => request'[s].body \in given'
               /\ request'[s].pc \in {"write", "replace"} => request'[s].fd \in 1 .. Len(file')
    <3>1. CASE s = r
      BY <1>0, <1>2, <3>1
    <3>2. CASE s # r
      <4>1. request'[s] = request[s]
        BY <1>0, <1>2, <3>2
      <4>2. request[s].fd \in Nat
        BY <1>0 DEF RequestState
      <4> QED BY <1>0, <1>2, <4>1, <4>2
    <3> QED BY <3>1, <3>2
  <2> QED BY <2>1, <2>2
<1>4. ASSUME NEW r \in Requests, Post(r)
      PROVE  AsksInv'
  <2>1. PICK id \in DOMAIN asked, text \in Texts :
          /\ given' = given \cup {[id |-> id, text |-> text]}
          /\ request' = [request EXCEPT ![r] =
                           [pc |-> "open", body |-> [id |-> id, text |-> text], fd |-> 0]]
    BY <1>4 DEF Post
  <2> DEFINE a == [id |-> id, text |-> text]
             q == [pc |-> "open", body |-> a, fd |-> 0]
  <2>2. a \in Answer /\ a.id \in 1 .. Len(asked)
    BY <1>0 DEF Answer
  <2>3. q \in RequestState /\ q.pc = "open" /\ q.body = a
    BY <2>2 DEF RequestState
  <2>4. given' = given \cup {a} /\ request' = [request EXCEPT ![r] = q]
    BY <2>1
  <2> HIDE DEF a, q
  <2>5. UNCHANGED <<gateVars, question, answer, asked, tmp, file>>
    BY <1>4 DEF Post
  <2>6. Answers /\ Files
    BY <1>0, <2>2, <2>4, <2>5
  <2>7. Threads
    BY <1>0, <1>2, <2>3, <2>4, <2>5
  <2> QED BY <1>1, <2>5, <2>6, <2>7
<1>5. ASSUME NEW r \in Requests, OpenTmp(r)
      PROVE  AsksInv'
  <2>1. UNCHANGED <<gateVars, question, answer, asked, given>> /\ request[r].pc = "open"
    BY <1>5 DEF OpenTmp
  <2>2. Torn \in Answer \cup {Torn}
    OBVIOUS
  <2>3. PICK f : /\ f \in 1 .. Len(file') /\ Files
                 /\ request' = [request EXCEPT ![r].pc = "write", ![r].fd = f]
    <3>1. CASE tmp = 0
      <4>1. /\ tmp' = Len(file) + 1 /\ file' = Append(file, Torn)
            /\ request' = [request EXCEPT ![r].pc = "write", ![r].fd = Len(file) + 1]
        BY <1>5, <3>1 DEF OpenTmp
      <4>2. /\ file' \in Seq(Answer \cup {Torn}) /\ Len(file') = Len(file) + 1
            /\ \A f \in 1 .. Len(file) : file'[f] = file[f]
            /\ file'[Len(file) + 1] = Torn
        BY <1>0, <2>2, <4>1
      <4>3. Files
        BY <1>0, <2>1, <4>1, <4>2
      <4>4. Len(file) + 1 \in 1 .. Len(file')
        BY <1>0, <4>2
      <4> QED BY <4>1, <4>3, <4>4
    <3>2. CASE tmp # 0
      <4>1. /\ tmp' = tmp /\ file' = [file EXCEPT ![tmp] = Torn] /\ tmp \in 1 .. Len(file)
            /\ request' = [request EXCEPT ![r].pc = "write", ![r].fd = tmp]
        BY <1>0, <1>5, <3>2 DEF OpenTmp
      <4>2. /\ file' \in Seq(Answer \cup {Torn}) /\ Len(file') = Len(file)
            /\ \A f \in 1 .. Len(file) : file'[f] = file[f] \/ file'[f] = Torn
        BY <1>0, <2>2, <4>1
      <4>3. Files
        BY <1>0, <2>1, <4>1, <4>2
      <4> QED BY <4>1, <4>2, <4>3
    <3> QED BY <3>1, <3>2
  <2> DEFINE q == [request[r] EXCEPT !.pc = "write", !.fd = f]
  <2>4. Len(file') \in Nat
    BY <2>3
  <2>5. f \in Nat
    BY <2>3, <2>4
  <2>6. request[r] \in RequestState
    BY <1>0
  <2>7. q \in RequestState /\ q.pc = "write" /\ q.fd = f /\ q.body = request[r].body
    BY <2>5, <2>6 DEF RequestState
  <2>8. request' = [request EXCEPT ![r] = q]
    BY <1>0, <2>3, <2>6 DEF RequestState
  <2>9. q.body \in given'
    BY <1>0, <2>1, <2>7
  <2> HIDE DEF q
  <2>10. Answers
    BY <1>0, <2>1
  <2>11. Threads
    BY <1>0, <1>2, <2>1, <2>3, <2>4, <2>7, <2>8, <2>9
  <2> QED BY <1>1, <2>1, <2>3, <2>10, <2>11
<1>6. ASSUME NEW r \in Requests, WriteTmp(r)
      PROVE  AsksInv'
  <2>1. UNCHANGED <<gateVars, question, answer, asked, tmp, given>>
        /\ request[r].pc = "write" /\ request' = [request EXCEPT ![r].pc = "replace"]
    BY <1>6 DEF WriteTmp
  <2>2. /\ request[r] \in RequestState /\ request[r].body \in given
        /\ request[r].fd \in 1 .. Len(file)
    BY <1>0, <2>1
  <2>3. PICK content \in {request[r].body, Torn} :
           file' = [file EXCEPT ![request[r].fd] = content]
    BY <1>6 DEF WriteTmp
  <2>4. content \in given \cup {Torn} /\ content \in Answer \cup {Torn}
    BY <1>0, <2>2, <2>3
  <2>5. /\ file' \in Seq(Answer \cup {Torn}) /\ Len(file') = Len(file)
        /\ \A f \in 1 .. Len(file) : file'[f] = file[f] \/ file'[f] = content
    BY <1>0, <2>2, <2>3, <2>4
  <2>6. Files /\ Answers
    <3>1. \A f \in 1 .. Len(file') : file'[f] \in given' \cup {Torn}
      BY <1>0, <2>1, <2>4, <2>5
    <3>2. Len(file) <= Len(file') /\ tmp' \in 0 .. Len(file') /\ answer' \in 0 .. Len(file')
      BY <1>0, <2>1, <2>5
    <3> QED BY <1>0, <2>1, <2>5, <3>1, <3>2
  <2> DEFINE q == [request[r] EXCEPT !.pc = "replace"]
  <2>7. q \in RequestState /\ q.fd = request[r].fd /\ q.body = request[r].body
    BY <2>2 DEF RequestState
  <2>8. request' = [request EXCEPT ![r] = q]
    BY <1>0, <2>1, <2>2 DEF RequestState
  <2> HIDE DEF q
  <2>9. q.body \in given' /\ q.fd \in 1 .. Len(file') /\ given \subseteq given'
        /\ Len(file) <= Len(file') /\ Len(file') \in Nat
    BY <1>0, <2>1, <2>2, <2>5, <2>7
  <2>10. Threads
    BY <1>2, <2>7, <2>8, <2>9
  <2> QED BY <1>1, <2>1, <2>6, <2>10
<1>7. ASSUME NEW r \in Requests, ReplaceTmp(r)
      PROVE  AsksInv'
  <2>1. UNCHANGED <<gateVars, question, asked, file, given>>
        /\ request' = [request EXCEPT ![r] = NoRequest]
        /\ answer' \in {answer, tmp} /\ tmp' \in {tmp, 0}
    BY <1>7 DEF ReplaceTmp
  <2>2. Files /\ Answers
    BY <1>0, <2>1
  <2>3. NoRequest \in RequestState /\ NoRequest.pc = "idle"
    BY DEF NoRequest, RequestState
  <2>4. Threads
    BY <1>0, <1>2, <2>1, <2>3
  <2> QED BY <1>1, <2>1, <2>2, <2>4
<1> QED BY <1>4, <1>5, <1>6, <1>7 DEF Phone

-----------------------------------------------------------------------------
(* The gates *)

LEMMA Appended ==
    ASSUME NEW S, NEW log \in Seq(S), NEW e \in S
    PROVE  /\ Append(log, e) \in Seq(S) /\ Len(log) \in Nat
           /\ Len(Append(log, e)) = Len(log) + 1
           /\ DOMAIN log = 1 .. Len(log) /\ DOMAIN Append(log, e) = 1 .. Len(log) + 1
           /\ \A n \in 1 .. Len(log) : Append(log, e)[n] = log[n]
           /\ Append(log, e)[Len(log) + 1] = e
OBVIOUS

LEMMA OneMore ==
    ASSUME NEW n \in Nat, NEW m \in Nat, n <= m
    PROVE  /\ 1 .. n \subseteq 1 .. m /\ 0 .. n \subseteq 0 .. m
           /\ \A i \in 1 .. n + 1 : i \in 1 .. n \/ i = n + 1
OBVIOUS

\* At most one more question, and the numbers of the others stand.
LEMMA QuestionsGrow ==
    ASSUME asked \in Seq(Question),
           asked' = asked \/ \E q \in Question : asked' = Append(asked, q)
    PROVE  /\ asked' \in Seq(Question) /\ Len(asked') \in Nat /\ Len(asked) <= Len(asked')
           /\ \A i \in 1 .. Len(asked) : asked'[i] = asked[i]
<1>1. CASE asked' = asked
  BY <1>1
<1>2. ASSUME NEW q \in Question, asked' = Append(asked, q)
      PROVE  /\ asked' \in Seq(Question) /\ Len(asked') = Len(asked) + 1
             /\ \A i \in 1 .. Len(asked) : asked'[i] = asked[i]
  BY <1>2
<1> QED BY <1>1, <1>2

\* At most one more entry, which is no approval unless the Director gave one.
LEMMA LogGrows ==
    ASSUME tlog \in Seq(GateEntries),
           \/ tlog' = tlog
           \/ \E e \in GateEntries \ {"design_approved"} : tlog' = Append(tlog, e)
           \/ Approved /\ tlog' = Append(tlog, "design_approved")
    PROVE  /\ tlog' \in Seq(GateEntries)
           /\ design_approved => design_approved'
           /\ design_approved' => design_approved \/ Approved
<1>1. CASE tlog' = tlog
  BY <1>1 DEF design_approved
<1>2. ASSUME NEW e \in GateEntries, tlog' = Append(tlog, e), e # "design_approved" \/ Approved
      PROVE  /\ tlog' \in Seq(GateEntries)
             /\ design_approved => design_approved'
             /\ design_approved' => design_approved \/ Approved
  <2>1. /\ tlog' \in Seq(GateEntries) /\ Len(tlog) \in Nat
        /\ DOMAIN tlog' = 1 .. Len(tlog) + 1 /\ DOMAIN tlog = 1 .. Len(tlog)
        /\ \A n \in 1 .. Len(tlog) : tlog'[n] = tlog[n]
        /\ tlog'[Len(tlog) + 1] = e
    BY <1>2, Appended
  <2>2. 1 .. Len(tlog) \subseteq 1 .. Len(tlog) + 1
    <3>1. Len(tlog) + 1 \in Nat /\ Len(tlog) <= Len(tlog) + 1
      BY <2>1
    <3> QED BY <2>1, <3>1, OneMore
  <2>3. design_approved => design_approved'
    BY <2>1, <2>2 DEF design_approved
  <2>4. \A n \in 1 .. Len(tlog) + 1 : n \in 1 .. Len(tlog) \/ n = Len(tlog) + 1
    BY <2>1, OneMore
  <2>5. design_approved' => design_approved \/ Approved
    BY <1>2, <2>1, <2>4 DEF design_approved
  <2> QED BY <2>1, <2>3, <2>5
<1> QED BY <1>1, <1>2 DEF GateEntries

\* A step that leaves the spec alone, and its updates.
LEMMA SpecStill ==
    ASSUME AsksInv, HistoryGrows, NEW c \in Commands, NEW g \in GateState,
           gate' = [gate EXCEPT ![c] = g], UNCHANGED <<spec, draft, recorded, declared>>,
           raced' \in BOOLEAN, raced => raced',
           gate[c].pc \notin {"truncate", "write", "record"},
           g.pc \notin {"truncate", "write", "record"}
    PROVE  SpecTypes' /\ SpecOk' /\ RaceInv'
<1>1. /\ gate'[c] = g
      /\ \A d \in Commands \ {c} : gate'[d] = gate[d]
  BY DEF AsksInv, AsksTypes
<1>2. SpecTypes'
  BY DEF AsksInv, AsksTypes, SpecTypes
<1>3. SpecOk'
  <2>1. PICK parts : parts = spec.parts
    OBVIOUS
  <2>2. AllOwned(spec.parts)'
    <3>1. AllOwned(parts)'
      BY <2>1, AllOwnedKept DEF AsksInv, SpecOk
    <3> QED BY <2>1, <3>1 DEF AllOwned
  <2>3. ASSUME NEW d \in Commands
        PROVE  AllOwned(draft[d].parts)'
    <3>1. PICK others : others = draft[d].parts
      OBVIOUS
    <3>2. AllOwned(others)'
      BY <3>1, AllOwnedKept DEF AsksInv, SpecOk
    <3> QED BY <3>1, <3>2 DEF AllOwned
  <2> QED BY <2>2, <2>3 DEF SpecOk
<1>4. RaceInv'
  <2> SUFFICES ASSUME ~raced, ~raced' PROVE RaceInv'
    BY DEF RaceInv
  <2>1. \A d \in Commands :
          gate'[d].pc \in {"truncate", "write", "record"}
            \/ gate[d].pc \in {"truncate", "write", "record"} =>
              gate'[d] = gate[d]
    BY <1>1
  <2>2. Writing' <=> Writing
    BY <2>1 DEF Writing
  <2>3. ASSUME NEW s, Fresh(s)
        PROVE  Fresh(s)'
    BY <2>1, <2>3 DEF Fresh
  <2>4. IF Writing' THEN spec' = NoText ELSE Fresh(spec)'
    <3>1. PICK s : s = spec
      OBVIOUS
    <3>2. CASE Writing
      BY <2>2, <3>2 DEF AsksInv, RaceInv
    <3>3. CASE ~Writing
      <4>1. Fresh(s)'
        BY <2>3, <3>1, <3>3 DEF AsksInv, RaceInv
      <4> QED BY <2>2, <3>1, <3>3, <4>1 DEF Fresh
    <3> QED BY <3>2, <3>3
  <2>5. ASSUME NEW d \in Commands, gate'[d].pc \in {"truncate", "write"}
        PROVE  /\ Fresh(draft[d])' /\ Has(draft'[d].parts, gate'[d].pairs)
               /\ gate'[d].pc = "write" =>
                    \A e \in Commands \ {d} : gate'[e].pc \notin {"truncate", "write"}
    <3>1. PICK s : s = draft[d]
      OBVIOUS
    <3>2. gate'[d] = gate[d]
      BY <2>1, <2>5
    <3>3. Fresh(s) /\ Has(s.parts, gate[d].pairs)
      BY <2>5, <3>1, <3>2 DEF AsksInv, RaceInv
    <3>4. Fresh(s)'
      BY <2>3, <3>3
    <3>5. Fresh(draft[d])'
      BY <3>1, <3>4 DEF Fresh
    <3>6. gate[d].pc = "write" =>
            \A e \in Commands \ {d} : gate[e].pc \notin {"truncate", "write"}
      BY DEF AsksInv, RaceInv
    <3>7. \A e \in Commands : gate'[e].pc \in {"truncate", "write"} => gate'[e] = gate[e]
      BY <2>1
    <3> QED BY <3>1, <3>2, <3>3, <3>5, <3>6, <3>7
  <2>6. \A d \in Commands :
          gate'[d].pc = "write" => gate'[d].pc \in {"truncate", "write"}
    OBVIOUS
  <2> QED BY <2>4, <2>5, <2>6 DEF RaceInv
<1> QED BY <1>2, <1>3, <1>4

\* A step of command c, over what the phone holds: what it owes is its own new
\* state, the entry it appends to the log, and what becomes of the spec.
LEMMA GateFrame ==
    ASSUME AsksInv, NEW c \in Commands, NEW g \in GateState,
           gate' = [gate EXCEPT ![c] = g],
           UNCHANGED <<phoneVars, declared>>, raced => raced', kills' \in Nat,
           asked' = asked \/ (\E q \in Question : asked' = Append(asked, q)),
           question' \in 0 .. Len(asked'), answer' \in {answer, 0},
           \/ tlog' = tlog
           \/ \E e \in GateEntries \ {"design_approved"} : tlog' = Append(tlog, e)
           \/ Approved /\ tlog' = Append(tlog, "design_approved"),
           SpecTypes', SpecOk', RaceInv',
           GateOk(c, g)',
           \/ question' = 0 \/ kills' # 0 \/ g.pc \in {"poll", "drop", "leave"}
           \/ question' = question /\ kills' = kills /\ gate[c].pc \notin {"poll", "drop", "leave"}
    PROVE  AsksInv'
<1>0. /\ gate \in [Commands -> GateState] /\ asked \in Seq(Question) /\ tlog \in Seq(GateEntries)
      /\ Len(asked) \in Nat /\ Len(file) \in Nat /\ answer \in 0 .. Len(file)
      /\ request' = request /\ file' = file /\ tmp' = tmp /\ given' = given
      /\ declared' = declared
  BY DEF AsksInv, AsksTypes, PhoneOk, phoneVars
<1>1. /\ asked' \in Seq(Question) /\ Len(asked') \in Nat /\ Len(asked) <= Len(asked')
      /\ \A i \in 1 .. Len(asked) : asked'[i] = asked[i]
  BY <1>0, QuestionsGrow
<1>2. HistoryGrows
  BY <1>0, <1>1 DEF HistoryGrows
<1>3. /\ tlog' \in Seq(GateEntries)
      /\ design_approved => design_approved'
      /\ design_approved' => design_approved \/ Approved
  BY <1>0, LogGrows
<1>5. gate' \in [Commands -> GateState] /\ gate'[c] = g
      /\ \A d \in Commands \ {c} : gate'[d] = gate[d]
  BY <1>0
<1>6. AsksTypes'
  <2>1. question' \in Nat /\ answer' \in Nat
    BY <1>0, <1>1
  <2> QED BY <1>0, <1>1, <1>3, <1>5, <2>1 DEF AsksInv, AsksTypes
<1>7. PhoneOk'
  <2>1. answer' \in 0 .. Len(file) /\ 1 .. Len(asked) \subseteq 1 .. Len(asked')
    BY <1>0, <1>1
  <2> QED BY <1>0, <2>1 DEF AsksInv, PhoneOk
<1>8. \A d \in Commands : GateOk(d, gate[d])'
  <2> SUFFICES ASSUME NEW d \in Commands PROVE GateOk(d, gate[d])'
    OBVIOUS
  <2>1. CASE d = c
    BY <1>5, <2>1 DEF GateOk, Owned
  <2>2. CASE d # c
    <3>1. PICK h : h = gate[d]
      OBVIOUS
    <3>2. h \in GateState /\ GateOk(d, h) /\ gate'[d] = h
      BY <1>0, <1>5, <2>2, <3>1 DEF AsksInv
    <3>3. GateOk(d, h)'
      BY <1>0, <1>2, <1>3, <3>2, GateKept
    <3> QED BY <3>2, <3>3 DEF GateOk, Owned
  <2> QED BY <2>1, <2>2
<1>9. design_approved' => Approved'
  <2>1. \A a \in given : asked'[a.id] = asked[a.id]
    BY <1>1 DEF AsksInv, PhoneOk
  <2>2. Approved => Approved'
    BY <1>0, <2>1 DEF Approved
  <2> QED BY <1>3, <2>2 DEF AsksInv
<1>10. QuestionHeld'
  <2> SUFFICES ASSUME question' # 0, kills' = 0
               PROVE  \E d \in Commands : gate'[d].pc \in {"poll", "drop", "leave"}
    BY DEF QuestionHeld
  <2>1. CASE g.pc \in {"poll", "drop", "leave"}
    BY <1>5, <2>1
  <2>2. CASE question' = question /\ kills' = kills /\ gate[c].pc \notin {"poll", "drop", "leave"}
    <3>1. PICK d \in Commands : gate[d].pc \in {"poll", "drop", "leave"}
      BY <2>2 DEF AsksInv, QuestionHeld
    <3>2. gate'[d] = gate[d]
      BY <1>5, <2>2, <3>1
    <3> QED BY <3>1, <3>2
  <2> QED BY <2>1, <2>2
<1> QED BY <1>6, <1>7, <1>8, <1>9, <1>10 DEF AsksInv

\* A step that asks nothing and leaves the spec alone.
LEMMA MoveKeeps ==
    ASSUME AsksInv, NEW c \in Commands, NEW g \in GateState, GateOk(c, g) \/ GateOk(c, g)',
           gate' = [gate EXCEPT ![c] = g],
           UNCHANGED <<phoneVars, asked, spec, draft, recorded, declared>>,
           raced' \in BOOLEAN, raced => raced', kills' \in Nat,
           gate[c].pc \notin {"truncate", "write", "record"},
           g.pc \notin {"truncate", "write", "record"},
           question' \in {question, 0}, answer' \in {answer, 0},
           \/ tlog' = tlog
           \/ \E e \in GateEntries \ {"design_approved"} : tlog' = Append(tlog, e)
           \/ Approved /\ tlog' = Append(tlog, "design_approved"),
           \/ question' = 0 \/ kills' # 0 \/ g.pc \in {"poll", "drop", "leave"}
           \/ question' = question /\ kills' = kills /\ gate[c].pc \notin {"poll", "drop", "leave"}
    PROVE  AsksInv'
<1>1. HistoryGrows
  BY DEF HistoryGrows, AsksInv, AsksTypes, phoneVars
<1>2. tlog \in Seq(GateEntries)
  BY DEF AsksInv, AsksTypes
<1>3. design_approved => design_approved'
  BY <1>2, LogGrows
<1>4. GateOk(c, g)'
  BY <1>1, <1>3, GateKept
<1>5. question' \in 0 .. Len(asked')
  <2>1. asked' = asked /\ question \in 0 .. Len(asked) /\ Len(asked) \in Nat
    BY DEF AsksInv, PhoneOk, AsksTypes
  <2> QED BY <2>1
<1>6. SpecTypes' /\ SpecOk' /\ RaceInv'
  BY <1>1, SpecStill
<1> QED BY <1>4, <1>5, <1>6, GateFrame

\* A question of c's own takes the next number.
LEMMA AskKeeps ==
    ASSUME AsksInv, NEW c \in Commands, NEW what \in {"clarify", "design"},
           NEW g \in GateState, ~(g.pc = "running"), Owned(c, g.pairs),
           what = "clarify" => g.left > 0,
           gate[c].pc \notin {"truncate", "write", "record"},
           Ask(c, what, g), UNCHANGED <<phoneVars, tlog, spec, draft, recorded, declared, kills>>,
           raced' \in BOOLEAN, raced => raced'
    PROVE  AsksInv'
<1>1. asked \in Seq(Question) /\ Len(asked) \in Nat /\ Len(g.pairs) \in Nat /\ kills \in Nat
  BY DEF AsksInv, AsksTypes, GateState
<1>2. PICK id : id = Len(asked) + 1
  OBVIOUS
<1>3. PICK q : /\ q \in Question /\ q.by = c /\ q.what = what /\ q.n = Len(g.pairs) + 1
               /\ asked' = Append(asked, q)
  <2>1. [by |-> c, what |-> what, n |-> Len(g.pairs) + 1] \in Question
    BY <1>1 DEF Question
  <2> QED BY <2>1 DEF Ask
<1>4. PICK h : /\ h \in GateState /\ h.pc = "poll" /\ h.ask.id = id
               /\ h.pairs = g.pairs /\ h.left = g.left
               /\ gate' = [gate EXCEPT ![c] = h]
  <2>1. PICK a : a = [NoAsk EXCEPT !.id = id]
    OBVIOUS
  <2>2. a \in AskState /\ a.id = id
    <3>1. id \in Nat
      BY <1>1, <1>2
    <3>2. NoAsk \in AskState
      BY DEF NoAsk, AskState
    <3> QED BY <2>1, <3>1, <3>2 DEF AskState
  <2> DEFINE h == [g EXCEPT !.pc = "poll", !.ask = a]
  <2>3. h \in GateState /\ h.pc = "poll" /\ h.ask.id = id /\ h.pairs = g.pairs /\ h.left = g.left
    BY <2>2 DEF GateState, GatePcs
  <2>4. gate' = [gate EXCEPT ![c] = h]
    BY <1>2, <2>1 DEF Ask
  <2> HIDE DEF h
  <2> QED BY <2>3, <2>4
<1>5. /\ Len(asked') = id /\ asked'[id] = q
      /\ \A i \in 1 .. Len(asked) : asked'[i] = asked[i]
  BY <1>1, <1>2, <1>3, Appended
<1>6. HistoryGrows
  BY <1>1, <1>2, <1>5 DEF HistoryGrows, phoneVars
<1>7. Owned(c, g.pairs)'
  BY <1>6, OwnedKept
<1>8. GateOk(c, h)'
  <2>1. id \in 1 .. Len(asked')
    BY <1>1, <1>2, <1>5
  <2>2. Owned(c, h.pairs)'
    BY <1>4, <1>7 DEF Owned
  <2> QED BY <1>3, <1>4, <1>5, <2>1, <2>2 DEF GateOk
<1>9. question' \in 0 .. Len(asked') /\ answer' = 0
  BY <1>1, <1>2, <1>5 DEF Ask
<1>10. SpecTypes' /\ SpecOk' /\ RaceInv'
  BY <1>4, <1>6, SpecStill
<1> QED BY <1>1, <1>3, <1>4, <1>8, <1>9, <1>10, GateFrame

\* What a gate that reads its answer has in hand.
LEMMA AnswerRead ==
    ASSUME AsksInv, NEW c \in Commands, gate[c].pc = "poll", Matches(c)
    PROVE  /\ file[answer] \in given /\ file[answer] \in Answer
           /\ file[answer].id = gate[c].ask.id
<1>1. answer \in 1 .. Len(file) /\ file[answer] # Torn /\ file[answer].id = gate[c].ask.id
  BY DEF Matches, Readable, AsksInv, PhoneOk, AsksTypes
<1>2. file[answer] \in given /\ given \subseteq Answer
  BY <1>1 DEF AsksInv, PhoneOk, AsksTypes
<1> QED BY <1>1, <1>2

LEMMA EndedOk == ASSUME NEW c PROVE Ended \in GateState /\ GateOk(c, Ended) /\ Ended.pc = "ended"
<1>1. Ended \in GateState
  <2>1. "ended" \in GatePcs /\ FALSE \in BOOLEAN
    BY DEF GatePcs
  <2> QED BY <2>1, StartedOk
<1>2. Ended.pairs = <<>> /\ Ended.left = 0 /\ Ended.pc = "ended"
  BY DEF Ended, Started
<1>3. Owned(c, Ended.pairs)
  BY <1>2 DEF Owned
<1> QED BY <1>1, <1>2, <1>3 DEF GateOk

\* The answer to a clarify question goes to the pairs, in its place.
LEMMA PairAdded ==
    ASSUME AsksInv, NEW c \in Commands, gate[c].pc = "left", IsClarify(c),
           NEW p, p = [id |-> gate[c].ask.id, text |-> gate[c].ask.text],
           gate[c].ask.text # "timeout",
           NEW pairs, pairs = Append(gate[c].pairs, p)
    PROVE  pairs \in Seq(Answer) /\ Owned(c, pairs)
<1>1. /\ gate[c] \in GateState /\ GateOk(c, gate[c]) /\ asked \in Seq(Question)
      /\ given \subseteq Answer
  BY DEF AsksInv, AsksTypes
<1>2. p \in given
  BY <1>1 DEF GateOk
<1>3. p \in Answer /\ p.id = gate[c].ask.id
  BY <1>1, <1>2
<1>4. PICK before : before = gate[c].pairs
  OBVIOUS
<1>5. before \in Seq(Answer) /\ Owned(c, before)
  BY <1>1, <1>4 DEF GateState, GateOk
<1>6. /\ pairs = Append(before, p) /\ pairs \in Seq(Answer) /\ Len(before) \in Nat
      /\ DOMAIN before = 1 .. Len(before) /\ DOMAIN pairs = 1 .. Len(before) + 1
      /\ \A n \in 1 .. Len(before) : pairs[n] = before[n]
      /\ pairs[Len(before) + 1] = p
  BY <1>3, <1>4, <1>5, Appended
<1>7. asked[p.id] = [by |-> c, what |-> "clarify", n |-> Len(before) + 1]
  <2>1. p.id \in 1 .. Len(asked)
    BY <1>1, <1>3 DEF GateOk
  <2>2. asked[p.id] \in Question
    BY <1>1, <2>1
  <2>3. asked[p.id].by = c /\ asked[p.id].n = Len(before) + 1 /\ asked[p.id].what = "clarify"
    BY <1>1, <1>3, <1>4 DEF GateOk, IsClarify
  <2> QED BY <2>2, <2>3 DEF Question
<1>8. ASSUME NEW i \in DOMAIN pairs
      PROVE  /\ pairs[i] \in given
             /\ asked[pairs[i].id] = [by |-> c, what |-> "clarify", n |-> i]
  <2>1. CASE i \in DOMAIN before
    BY <1>5, <1>6, <2>1 DEF Owned
  <2>2. CASE i = Len(before) + 1
    BY <1>2, <1>6, <1>7, <2>2
  <2> QED BY <1>6, <1>8, <2>1, <2>2, OneMore
<1> QED BY <1>6, <1>8 DEF Owned

\* An ask that is over: with the answer read, or at the deadline.
LEMMA OverKeeps ==
    ASSUME AsksInv, NEW c \in Commands, gate[c].pc \in {"poll", "drop"},
           NEW text \in Texts \cup {"timeout"}, Over(c, text),
           text # "timeout" => [id |-> gate[c].ask.id, text |-> text] \in given,
           answer' \in {answer, 0},
           UNCHANGED <<phoneVars, question, asked, tlog, specVars, declared, kills>>
    PROVE  AsksInv'
<1>1. /\ gate \in [Commands -> GateState] /\ gate[c] \in GateState /\ GateOk(c, gate[c])
      /\ kills \in Nat /\ raced \in BOOLEAN
  BY DEF AsksInv, AsksTypes, SpecTypes
<1>2. PICK a : a = [NoAsk EXCEPT !.id = gate[c].ask.id, !.text = text]
  OBVIOUS
<1>3. a \in AskState /\ a.id = gate[c].ask.id /\ a.text = text
  <2>1. gate[c].ask.id \in Nat
    BY <1>1 DEF GateState, AskState
  <2> QED BY <1>2, <2>1 DEF NoAsk, AskState
<1>4. PICK g : g = [gate[c] EXCEPT !.pc = "leave", !.ask = a]
  OBVIOUS
<1>5. /\ g \in GateState /\ g.pc = "leave" /\ g.ask = a /\ g.left = gate[c].left
      /\ g.pairs = gate[c].pairs /\ gate' = [gate EXCEPT ![c] = g]
  BY <1>1, <1>2, <1>3, <1>4 DEF Over, GateState, GatePcs
<1>6. GateOk(c, g)
  BY <1>1, <1>3, <1>5 DEF GateOk
<1> QED BY <1>1, <1>5, <1>6, MoveKeeps DEF specVars, phoneVars

\* Each step of a poll.
LEMMA PollStep ==
    ASSUME AsksInv, NEW c \in Commands, Poll(c)
    PROVE  AsksInv'
<1>1. /\ gate \in [Commands -> GateState] /\ gate[c] \in GateState /\ GateOk(c, gate[c])
      /\ kills \in Nat /\ raced \in BOOLEAN
  BY DEF AsksInv, AsksTypes, SpecTypes
\* A gate that only moves on within its ask.
<1>2. ASSUME NEW pc \in {"poll", "drop", "leave", "left"}, gate' = [gate EXCEPT ![c].pc = pc],
             gate[c].pc \in {"poll", "drop", "leave"},
             pc \in {"leave", "left"} => gate[c].pc = "leave",
             question' = question \/ question' = 0,
             pc = "left" => question' = 0, answer' \in {answer, 0},
             UNCHANGED <<phoneVars, asked, tlog, specVars, declared, kills>>
      PROVE  AsksInv'
  <2>1. PICK g : g = [gate[c] EXCEPT !.pc = pc]
    OBVIOUS
  <2>2. g \in GateState /\ g.pc = pc /\ gate' = [gate EXCEPT ![c] = g]
        /\ g.left = gate[c].left /\ g.ask = gate[c].ask /\ g.pairs = gate[c].pairs
    BY <1>1, <1>2, <2>1 DEF GateState, GatePcs
  <2>3. GateOk(c, g)
    BY <1>1, <1>2, <2>2 DEF GateOk
  <2> QED BY <1>1, <1>2, <2>2, <2>3, MoveKeeps DEF specVars
<1>3. CASE PollNone(c)
  BY <1>3, OverKeeps DEF PollNone, phoneVars
<1>4. CASE PollStale(c)
  BY <1>2, <1>4 DEF PollStale, phoneVars
<1>5. CASE DropStale(c)
  <2>1. CASE gate[c].ask.late
    BY <1>5, <2>1, OverKeeps DEF DropStale, phoneVars
  <2>2. CASE ~gate[c].ask.late
    BY <1>2, <1>5, <2>2 DEF DropStale, phoneVars
  <2> QED BY <2>1, <2>2
<1>6. CASE PollAnswer(c)
  <2>1. file[answer] \in given /\ file[answer] \in Answer /\ file[answer].id = gate[c].ask.id
    BY <1>6, AnswerRead DEF PollAnswer
  <2>2. PICK text : text = file[answer].text
    OBVIOUS
  <2>3. text \in Texts /\ [id |-> gate[c].ask.id, text |-> text] = file[answer]
    BY <2>1, <2>2 DEF Answer
  <2> QED BY <1>6, <2>1, <2>2, <2>3, OverKeeps DEF PollAnswer, phoneVars
<1>7. CASE LeaveQuestion(c)
  BY <1>2, <1>7 DEF LeaveQuestion, phoneVars
<1>8. CASE Clarified(c)
  <2>1. PICK text : text = gate[c].ask.text
    OBVIOUS
  <2>2. PICK p : p = [id |-> gate[c].ask.id, text |-> text]
    OBVIOUS
  <2>3. PICK pairs : pairs = Append(gate[c].pairs, p)
    OBVIOUS
  <2>4. PICK g : g = [gate[c] EXCEPT !.pairs = pairs, !.left = gate[c].left - 1, !.ask = NoAsk]
    OBVIOUS
  <2>5. /\ gate[c].pc = "left" /\ IsClarify(c) /\ answer' = 0
        /\ gate' = [gate EXCEPT ![c] = IF text = "timeout" THEN Ended
                                       ELSE [g EXCEPT !.pc = IF g.left > 0 THEN "next" ELSE "read"]]
        /\ UNCHANGED tlog /\ UNCHANGED <<phoneVars, question, asked, specVars, declared, kills>>
    BY <1>8, <2>1, <2>2, <2>3, <2>4 DEF Clarified, Leave
  <2>6. CASE text = "timeout"
    <3>1. PICK h : h = Ended
      OBVIOUS
    <3>2. h \in GateState /\ GateOk(c, h) /\ h.pc = "ended" /\ gate' = [gate EXCEPT ![c] = h]
      BY <2>5, <2>6, <3>1, EndedOk
    <3> QED BY <1>1, <2>5, <3>2, MoveKeeps DEF specVars
  <2>7. CASE text # "timeout"
    <3>1. pairs \in Seq(Answer) /\ Owned(c, pairs)
      BY <2>1, <2>2, <2>3, <2>5, <2>7, PairAdded
    <3>2. gate[c].left > 0 /\ gate[c].left \in Nat
      BY <1>1, <2>5 DEF GateOk, IsClarify, GateState
    <3>3. g \in GateState /\ g.pairs = pairs /\ g.left = gate[c].left - 1
      <4>1. gate[c].left - 1 \in Nat /\ NoAsk \in AskState
        <5>1. NoAsk \in AskState
          BY DEF NoAsk, AskState
        <5> QED BY <3>2, <5>1
      <4> QED BY <1>1, <2>4, <3>1, <4>1 DEF GateState
    <3>4. PICK pc \in {"next", "read"} : /\ pc = (IF g.left > 0 THEN "next" ELSE "read")
                                         /\ (pc = "next" => g.left > 0)
                                         /\ (pc = "read" => g.left = 0)
      <4>1. g.left \in Nat
        BY <3>3 DEF GateState
      <4> QED BY <4>1
    <3>5. PICK h : h = [g EXCEPT !.pc = pc]
      OBVIOUS
    <3>6. h \in GateState /\ h.pc = pc /\ h.pairs = pairs /\ h.left = g.left
      BY <3>3, <3>4, <3>5 DEF GateState, GatePcs
    <3>7. GateOk(c, h)
      BY <3>1, <3>4, <3>6 DEF GateOk
    <3>8. gate' = [gate EXCEPT ![c] = h]
      BY <2>5, <2>7, <3>4, <3>5
    <3> QED BY <1>1, <2>5, <3>4, <3>6, <3>7, <3>8, MoveKeeps DEF specVars
  <2> QED BY <2>6, <2>7
<1>9. CASE Decided(c)
  <2>1. PICK text : text = gate[c].ask.text
    OBVIOUS
  <2>2. /\ gate[c].pc = "left" /\ ~IsClarify(c) /\ answer' = 0
        /\ tlog' = CASE text = "timeout" -> tlog
                     [] text = "approve" -> Append(tlog, "design_approved")
                     [] OTHER -> Append(tlog, "design_rejected")
        /\ gate' = [gate EXCEPT ![c] = IF text = "approve" THEN [Started EXCEPT !.pc = "loop"] ELSE Ended]
        /\ UNCHANGED <<phoneVars, question, asked, specVars, declared, kills>>
    BY <1>9, <2>1 DEF Decided, Leave
  <2>3. CASE text = "approve"
    <3>1. PICK g : g = [Started EXCEPT !.pc = "loop"]
      OBVIOUS
    <3>2. g \in GateState /\ g.pc = "loop" /\ g.left = 0 /\ g.pairs = <<>>
      <4>1. "loop" \in GatePcs /\ FALSE \in BOOLEAN
        BY DEF GatePcs
      <4>2. g \in GateState
        BY <3>1, <4>1, StartedOk
      <4> QED BY <3>1, <4>2 DEF Started
    <3>3. GateOk(c, g)
      BY <3>2 DEF GateOk, Owned
    <3>4. Approved
      <4>1. [id |-> gate[c].ask.id, text |-> "approve"] \in given
        BY <1>1, <2>1, <2>2, <2>3 DEF GateOk
      <4>2. gate[c].ask.id \in 1 .. Len(asked) /\ asked \in Seq(Question)
        BY <1>1, <2>2 DEF GateOk, AsksInv, AsksTypes
      <4>3. asked[gate[c].ask.id].what = "design"
        <5>1. asked[gate[c].ask.id] \in Question
          BY <4>2
        <5>2. asked[gate[c].ask.id].what # "clarify"
          BY <2>2 DEF IsClarify
        <5> QED BY <5>1, <5>2 DEF Question
      <4> QED BY <4>1, <4>3 DEF Approved
    <3>5. gate' = [gate EXCEPT ![c] = g] /\ tlog' = Append(tlog, "design_approved")
      BY <2>2, <2>3, <3>1
    <3> QED BY <1>1, <2>2, <3>2, <3>3, <3>4, <3>5, MoveKeeps DEF specVars
  <2>4. CASE text # "approve"
    <3>1. PICK g : g = Ended
      OBVIOUS
    <3>2. g \in GateState /\ GateOk(c, g) /\ g.pc = "ended"
      BY <3>1, EndedOk
    <3>3. gate' = [gate EXCEPT ![c] = g]
      BY <2>2, <2>4, <3>1
    <3>4. tlog' = tlog \/ tlog' = Append(tlog, "design_rejected")
      BY <2>2, <2>4
    <3>5. "design_rejected" \in GateEntries \ {"design_approved"}
      BY DEF GateEntries
    <3> QED BY <1>1, <2>2, <3>2, <3>3, <3>4, <3>5, MoveKeeps DEF specVars
  <2> QED BY <2>3, <2>4
<1> QED BY <1>3, <1>4, <1>5, <1>6, <1>7, <1>8, <1>9 DEF Poll

-----------------------------------------------------------------------------
(* The updates of the spec *)

\* A text with one more block.
LEMMA BlockAdded ==
    ASSUME NEW parts \in Seq(Part), NEW pairs \in Seq(Answer),
           NEW more, more = Append(parts, Block(pairs))
    PROVE  /\ more \in Seq(Part) /\ Has(more, pairs)
           /\ \A other : Has(parts, other) => Has(more, other)
           /\ Whole(parts) => Whole(more)
           /\ \A c \in Commands : AllOwned(parts) /\ Owned(c, pairs) => AllOwned(more)
<1>1. PICK block : block = Block(pairs)
  OBVIOUS
<1>2. block \in Part /\ block.kind = "block" /\ block.pairs = pairs
  BY <1>1 DEF Block, Part
<1>3. /\ more \in Seq(Part) /\ Len(parts) \in Nat
      /\ DOMAIN parts = 1 .. Len(parts) /\ DOMAIN more = 1 .. Len(parts) + 1
      /\ \A n \in 1 .. Len(parts) : more[n] = parts[n]
      /\ more[Len(parts) + 1] = block
  BY <1>1, <1>2, Appended
<1>4. \A n \in 1 .. Len(parts) + 1 : n \in 1 .. Len(parts) \/ n = Len(parts) + 1
  BY <1>3, OneMore
<1>5. 1 .. Len(parts) \subseteq 1 .. Len(parts) + 1 /\ Len(parts) + 1 \in 1 .. Len(parts) + 1
  BY <1>3
<1>6. Has(more, pairs)
  BY <1>2, <1>3, <1>5 DEF Has
<1>7. ASSUME NEW other, Has(parts, other)
      PROVE  Has(more, other)
  BY <1>3, <1>5, <1>7 DEF Has
<1>8. ASSUME Whole(parts)
      PROVE  Whole(more)
  <2>1. Len(parts) + 1 # 1 /\ more # <<>>
    <3>1. parts # <<>>
      BY <1>8 DEF Whole
    <3>2. Len(parts) # 0
      BY <3>1
    <3> QED BY <1>3, <3>2
  <2>2. ASSUME NEW n \in DOMAIN more
        PROVE  IF n = 1 THEN more[n] = Original ELSE more[n].kind = "block"
    <3>1. CASE n \in 1 .. Len(parts)
      BY <1>3, <1>8, <3>1 DEF Whole
    <3>2. CASE n = Len(parts) + 1
      BY <1>2, <1>3, <2>1, <3>2
    <3> QED BY <1>3, <1>4, <2>2, <3>1, <3>2
  <2> QED BY <2>1, <2>2 DEF Whole
<1>9. ASSUME NEW c \in Commands, AllOwned(parts), Owned(c, pairs)
      PROVE  AllOwned(more)
  <2> SUFFICES ASSUME NEW n \in DOMAIN more, more[n].kind = "block"
               PROVE  \E d \in Commands : Owned(d, more[n].pairs)
    BY DEF AllOwned
  <2>1. CASE n \in 1 .. Len(parts)
    BY <1>3, <1>9, <2>1 DEF AllOwned
  <2>2. CASE n = Len(parts) + 1
    BY <1>2, <1>3, <1>9, <2>2
  <2> QED BY <1>3, <1>4, <2>1, <2>2
<1> QED BY <1>3, <1>6, <1>7, <1>8, <1>9

\* A text nothing is missing from stays one, when what gets recorded was there.
LEMMA FreshKept ==
    ASSUME gate \in [Commands -> GateState], NEW c \in Commands, NEW g,
           gate' = [gate EXCEPT ![c] = g], declared' = declared,
           recorded' = recorded
             \/ (gate[c].pc = "record" /\ recorded' = recorded \cup {gate[c].pairs}),
           NEW s, Fresh(s), g.pc = "record" => Has(s.parts, g.pairs)
    PROVE  Fresh(s)'
<1>1. gate'[c] = g /\ \A d \in Commands \ {c} : gate'[d] = gate[d]
  OBVIOUS
<1>2. \A pairs \in recorded' : Has(s.parts, pairs)
  BY DEF Fresh
<1>3. ASSUME NEW d \in Commands, gate'[d].pc = "record"
      PROVE  Has(s.parts, gate'[d].pairs)
  BY <1>1, <1>3 DEF Fresh
<1>4. Whole(s.parts) /\ (declared' => s.risky)
  BY DEF Fresh
<1> QED BY <1>2, <1>3, <1>4 DEF Fresh

\* An update owes what it makes of the spec and of its own draft.
LEMMA UpdateKeeps ==
    ASSUME AsksInv, NEW c \in Commands, NEW g \in GateState, GateOk(c, g),
           gate' = [gate EXCEPT ![c] = g],
           UNCHANGED <<phoneVars, question, answer, asked, declared>>,
           tlog' = tlog \/ tlog' = Append(tlog, "clarify"),
           kills' \in Nat,
           kills' # 0 \/ (kills' = kills /\ gate[c].pc \notin {"poll", "drop", "leave"}),
           NEW s \in SpecState, spec' = s, AllOwned(s.parts),
           NEW e \in SpecState, draft' = [draft EXCEPT ![c] = e], AllOwned(e.parts),
           recorded' \subseteq Seq(Answer), raced' \in BOOLEAN, raced => raced',
           RaceInv'
    PROVE  AsksInv'
<1>1. HistoryGrows
  BY DEF HistoryGrows, AsksInv, AsksTypes, phoneVars
<1>2. /\ tlog \in Seq(GateEntries) /\ draft \in [Commands -> SpecState] /\ declared \in BOOLEAN
      /\ asked' = asked /\ question \in 0 .. Len(asked)
  BY DEF AsksInv, AsksTypes, SpecTypes, PhoneOk
<1>3. "clarify" \in GateEntries \ {"design_approved"}
  BY DEF GateEntries
<1>4. design_approved => design_approved'
  BY <1>2, <1>3, LogGrows
<1>5. GateOk(c, g)'
  BY <1>1, <1>4, GateKept
<1>6. SpecTypes'
  BY <1>2 DEF SpecTypes
<1>7. SpecOk'
  <2>1. AllOwned(s.parts)' /\ AllOwned(e.parts)'
    <3>1. PICK parts, others : parts = s.parts /\ others = e.parts
      OBVIOUS
    <3>2. AllOwned(parts)' /\ AllOwned(others)'
      BY <1>1, <3>1, AllOwnedKept
    <3> QED BY <3>1, <3>2
  <2>2. ASSUME NEW d \in Commands
        PROVE  AllOwned(draft[d].parts)'
    <3>1. CASE d = c
      BY <1>2, <2>1, <3>1 DEF AllOwned
    <3>2. CASE d # c
      <4>1. PICK parts : parts = draft[d].parts
        OBVIOUS
      <4>2. AllOwned(parts)'
        BY <1>1, <4>1, AllOwnedKept DEF AsksInv, SpecOk
      <4>3. draft'[d] = draft[d]
        BY <1>2, <3>2
      <4> QED BY <4>1, <4>2, <4>3 DEF AllOwned
    <3> QED BY <3>1, <3>2
  <2>3. AllOwned(spec.parts)'
    BY <2>1 DEF AllOwned
  <2> QED BY <2>2, <2>3 DEF SpecOk
<1>8. question' \in 0 .. Len(asked')
  BY <1>2
<1> QED BY <1>2, <1>3, <1>5, <1>6, <1>7, <1>8, GateFrame

LEMMA ReadStep ==
    ASSUME AsksInv, NEW c \in Commands, ReadSpec(c)
    PROVE  AsksInv'
<1>1. /\ gate \in [Commands -> GateState] /\ gate[c] \in GateState /\ GateOk(c, gate[c])
      /\ kills \in Nat /\ spec \in SpecState /\ draft \in [Commands -> SpecState]
      /\ recorded \subseteq Seq(Answer) /\ raced \in BOOLEAN /\ SpecOk
  BY DEF AsksInv, AsksTypes, SpecTypes
<1>2. PICK pairs : pairs = gate[c].pairs
  OBVIOUS
<1>3. pairs \in Seq(Answer) /\ Owned(c, pairs)
  BY <1>1, <1>2 DEF GateState, GateOk
<1>4. PICK more : more = Append(spec.parts, Block(pairs))
  OBVIOUS
<1>5. /\ more \in Seq(Part) /\ Has(more, pairs) /\ AllOwned(more)
      /\ \A other : Has(spec.parts, other) => Has(more, other)
      /\ Whole(spec.parts) => Whole(more)
  <2>1. PICK parts : parts = spec.parts
    OBVIOUS
  <2>2. parts \in Seq(Part) /\ AllOwned(parts) /\ more = Append(parts, Block(pairs))
    BY <1>1, <1>4, <2>1 DEF SpecState, SpecOk
  <2>3. /\ more \in Seq(Part) /\ Has(more, pairs)
        /\ \A other : Has(parts, other) => Has(more, other)
        /\ Whole(parts) => Whole(more)
        /\ \A d \in Commands : AllOwned(parts) /\ Owned(d, pairs) => AllOwned(more)
    BY <1>3, <2>2, BlockAdded
  <2>4. AllOwned(more)
    BY <1>3, <2>2, <2>3
  <2> QED BY <2>1, <2>3, <2>4
<1>6. PICK e : e = [spec EXCEPT !.parts = more]
  OBVIOUS
<1>7. e \in SpecState /\ e.parts = more /\ e.risky = spec.risky
  BY <1>1, <1>5, <1>6 DEF SpecState
<1>8. PICK g : g = [gate[c] EXCEPT !.pc = "truncate"]
  OBVIOUS
<1>9. g \in GateState /\ g.pc = "truncate" /\ g.left = gate[c].left /\ g.pairs = pairs
  BY <1>1, <1>2, <1>8 DEF GateState, GatePcs
<1>10. /\ gate[c].pc = "read" /\ gate' = [gate EXCEPT ![c] = g]
       /\ draft' = [draft EXCEPT ![c] = e] /\ raced' = (raced \/ Writing)
       /\ UNCHANGED <<phoneVars, question, answer, asked, tlog, spec, recorded, declared, kills>>
  <2>1. draft' = [draft EXCEPT ![c] = [spec EXCEPT !.parts = Append(@, Block(gate[c].pairs))]]
    BY DEF ReadSpec
  <2>2. [spec EXCEPT !.parts = Append(@, Block(gate[c].pairs))] = e
    BY <1>2, <1>4, <1>6
  <2> QED BY <1>8, <2>1, <2>2 DEF ReadSpec
<1>11. GateOk(c, g)
  BY <1>1, <1>3, <1>9, <1>10 DEF GateOk
<1>12. /\ gate'[c] = g /\ \A d \in Commands \ {c} : gate'[d] = gate[d]
       /\ draft'[c] = e /\ \A d \in Commands \ {c} : draft'[d] = draft[d]
  BY <1>1, <1>10
<1>13. RaceInv'
  <2> SUFFICES ASSUME ~raced, ~Writing PROVE RaceInv'
    BY <1>10 DEF RaceInv
  <2>1. Fresh(spec)
    BY DEF AsksInv, RaceInv
  <2>2. Fresh(e)
    BY <1>5, <1>7, <2>1 DEF Fresh
  <2>3. ASSUME NEW s, Fresh(s)
        PROVE  Fresh(s)'
    BY <1>1, <1>9, <1>10, <2>3, FreshKept
  <2>4. ASSUME NEW d \in Commands, gate'[d].pc \in {"truncate", "write"}
        PROVE  Fresh(draft[d])' /\ Has(draft'[d].parts, gate'[d].pairs)
    <3>1. CASE d = c
      <4>1. Fresh(e)'
        BY <2>2, <2>3
      <4> QED BY <1>5, <1>7, <1>9, <1>12, <3>1, <4>1 DEF Fresh
    <3>2. CASE d # c
      <4>1. PICK s : s = draft[d]
        OBVIOUS
      <4>2. Fresh(s) /\ Has(s.parts, gate[d].pairs)
        BY <1>12, <2>4, <3>2, <4>1 DEF AsksInv, RaceInv
      <4>3. Fresh(s)'
        BY <2>3, <4>2
      <4> QED BY <1>12, <3>2, <4>1, <4>2, <4>3 DEF Fresh
    <3> QED BY <3>1, <3>2
  <2>5. \A d \in Commands : gate'[d].pc # "write"
    BY <1>9, <1>12 DEF Writing
  <2>6. Fresh(spec)'
    <3>1. PICK s : s = spec
      OBVIOUS
    <3>2. Fresh(s)'
      BY <2>1, <2>3, <3>1
    <3> QED BY <1>10, <3>1, <3>2 DEF Fresh
  <2> QED BY <2>4, <2>5, <2>6 DEF RaceInv, Writing
<1> QED BY <1>1, <1>5, <1>7, <1>9, <1>10, <1>11, <1>13, UpdateKeeps DEF SpecOk

LEMMA TruncateStep ==
    ASSUME AsksInv, NEW c \in Commands, TruncateSpec(c)
    PROVE  AsksInv'
<1>1. /\ gate \in [Commands -> GateState] /\ gate[c] \in GateState /\ GateOk(c, gate[c])
      /\ kills \in Nat /\ draft \in [Commands -> SpecState]
      /\ recorded \subseteq Seq(Answer) /\ raced \in BOOLEAN /\ SpecOk
  BY DEF AsksInv, AsksTypes, SpecTypes
<1>2. NoText \in SpecState /\ AllOwned(NoText.parts)
  BY DEF NoText, SpecState, AllOwned
<1>3. PICK e : e = draft[c]
  OBVIOUS
<1>4. e \in SpecState /\ AllOwned(e.parts) /\ draft = [draft EXCEPT ![c] = e]
  BY <1>1, <1>3 DEF SpecOk
<1>5. PICK g : g = [gate[c] EXCEPT !.pc = "write"]
  OBVIOUS
<1>6. g \in GateState /\ g.pc = "write" /\ g.left = gate[c].left /\ g.pairs = gate[c].pairs
  BY <1>1, <1>5 DEF GateState, GatePcs
<1>7. /\ gate[c].pc = "truncate" /\ gate' = [gate EXCEPT ![c] = g] /\ spec' = NoText
      /\ raced' = (raced \/ \E d \in Commands \ {c} : gate[d].pc \in {"truncate", "write"})
      /\ UNCHANGED <<phoneVars, question, answer, asked, tlog, draft, recorded, declared, kills>>
  BY <1>5 DEF TruncateSpec
<1>8. GateOk(c, g)
  BY <1>1, <1>6, <1>7 DEF GateOk
<1>9. gate'[c] = g /\ \A d \in Commands \ {c} : gate'[d] = gate[d]
  BY <1>1, <1>7
<1>10. RaceInv'
  <2> SUFFICES ASSUME ~raced, \A d \in Commands \ {c} : gate[d].pc \notin {"truncate", "write"}
               PROVE  RaceInv'
    BY <1>7 DEF RaceInv
  <2>1. Fresh(e) /\ Has(e.parts, gate[c].pairs)
    BY <1>3, <1>7 DEF AsksInv, RaceInv
  <2>2. Fresh(e)'
    BY <1>1, <1>6, <1>7, <2>1, FreshKept
  <2>3. Fresh(draft[c])' /\ Has(draft'[c].parts, gate'[c].pairs)
    BY <1>3, <1>6, <1>7, <1>9, <2>1, <2>2 DEF Fresh
  <2>4. \A d \in Commands : gate'[d].pc \in {"truncate", "write"} => d = c
    BY <1>9
  <2>5. Writing'
    BY <1>6, <1>9 DEF Writing
  <2> QED BY <1>7, <2>3, <2>4, <2>5 DEF RaceInv
<1> QED BY <1>1, <1>2, <1>4, <1>6, <1>7, <1>8, <1>10, UpdateKeeps

LEMMA WriteStep ==
    ASSUME AsksInv, NEW c \in Commands, WriteSpec(c)
    PROVE  AsksInv'
<1>1. /\ gate \in [Commands -> GateState] /\ gate[c] \in GateState /\ GateOk(c, gate[c])
      /\ kills \in Nat /\ draft \in [Commands -> SpecState] /\ draft[c] \in SpecState
      /\ recorded \subseteq Seq(Answer) /\ raced \in BOOLEAN /\ SpecOk
  BY DEF AsksInv, AsksTypes, SpecTypes
<1>2. NoText \in SpecState /\ AllOwned(NoText.parts)
  BY DEF NoText, SpecState, AllOwned
<1>3. PICK tail \in {<<>>, <<Leftover>>}, risky \in {draft[c].risky, TRUE} :
        /\ tail = <<>> \/ spec # NoText
        /\ spec' = [parts |-> draft[c].parts \o tail, risky |-> risky]
  BY DEF WriteSpec
<1>4. PICK parts : parts = draft[c].parts
  OBVIOUS
<1>5. PICK text : text = parts \o tail
  OBVIOUS
<1>6. parts \in Seq(Part) /\ AllOwned(parts)
  BY <1>1, <1>4 DEF SpecState, SpecOk
<1>7. text \in Seq(Part) /\ AllOwned(text) /\ (tail = <<>> => text = parts)
  <2>1. CASE tail = <<>>
    <3>1. text = parts
      BY <1>5, <1>6, <2>1
    <3> QED BY <1>6, <3>1
  <2>2. CASE tail = <<Leftover>>
    <3>1. PICK last : last = Leftover
      OBVIOUS
    <3>2. last \in Part /\ last.kind = "tail"
      <4>1. <<>> \in Seq(Answer)
        OBVIOUS
      <4> QED BY <3>1, <4>1 DEF Leftover, Part
    <3>3. text = Append(parts, last)
      BY <1>5, <1>6, <2>2, <3>1, <3>2
    <3>4. /\ text \in Seq(Part) /\ Len(parts) \in Nat
          /\ DOMAIN parts = 1 .. Len(parts) /\ DOMAIN text = 1 .. Len(parts) + 1
          /\ \A n \in 1 .. Len(parts) : text[n] = parts[n]
          /\ text[Len(parts) + 1] = last
      BY <1>6, <3>2, <3>3, Appended
    <3>5. \A n \in 1 .. Len(parts) + 1 : n \in 1 .. Len(parts) \/ n = Len(parts) + 1
      BY <3>4, OneMore
    <3>6. AllOwned(text)
      <4> SUFFICES ASSUME NEW n \in DOMAIN text, text[n].kind = "block"
                   PROVE  \E d \in Commands : Owned(d, text[n].pairs)
        BY DEF AllOwned
      <4>1. n \in 1 .. Len(parts)
        BY <3>2, <3>4, <3>5
      <4> QED BY <1>6, <3>4, <4>1 DEF AllOwned
    <3> QED BY <2>2, <3>4, <3>6
  <2> QED BY <2>1, <2>2
<1>8. PICK s : s = [parts |-> text, risky |-> risky]
  OBVIOUS
<1>9. s \in SpecState /\ s.parts = text /\ s.risky = risky /\ spec' = s
  <2>1. risky \in BOOLEAN
    BY <1>1 DEF SpecState
  <2> QED BY <1>3, <1>4, <1>5, <1>7, <1>8, <2>1 DEF SpecState
<1>10. PICK g : g = [gate[c] EXCEPT !.pc = "record"]
  OBVIOUS
<1>11. g \in GateState /\ g.pc = "record" /\ g.left = gate[c].left /\ g.pairs = gate[c].pairs
  BY <1>1, <1>10 DEF GateState, GatePcs
<1>12. /\ gate[c].pc = "write" /\ gate' = [gate EXCEPT ![c] = g]
       /\ draft' = [draft EXCEPT ![c] = NoText]
       /\ UNCHANGED <<phoneVars, question, answer, asked, tlog, recorded, raced, declared, kills>>
  BY <1>10 DEF WriteSpec
<1>13. GateOk(c, g)
  BY <1>1, <1>11, <1>12 DEF GateOk
<1>14. gate'[c] = g /\ \A d \in Commands \ {c} : gate'[d] = gate[d]
  BY <1>1, <1>12
<1>15. RaceInv'
  <2> SUFFICES ASSUME ~raced PROVE RaceInv'
    BY <1>12 DEF RaceInv
  <2>1. /\ Fresh(draft[c]) /\ Has(draft[c].parts, gate[c].pairs) /\ spec = NoText
        /\ \A d \in Commands \ {c} : gate[d].pc \notin {"truncate", "write"}
    BY <1>12 DEF AsksInv, RaceInv, Writing
  <2>2. text = parts
    BY <1>3, <1>7, <2>1
  <2>3. Fresh(s) /\ Has(s.parts, g.pairs)
    <3>1. risky = draft[c].risky \/ risky = TRUE
      BY <1>3
    <3>2. declared => s.risky
      BY <1>9, <2>1, <3>1 DEF Fresh
    <3> QED BY <1>4, <1>9, <1>11, <2>1, <2>2, <3>2 DEF Fresh
  <2>4. Fresh(s)'
    BY <1>1, <1>12, <2>3, FreshKept
  <2>5. Fresh(spec)'
    BY <1>9, <2>4 DEF Fresh
  <2>6. \A d \in Commands : gate'[d].pc \notin {"truncate", "write"}
    BY <1>11, <1>14, <2>1
  <2> QED BY <2>5, <2>6 DEF RaceInv, Writing
<1> QED BY <1>1, <1>2, <1>7, <1>9, <1>11, <1>12, <1>13, <1>15, UpdateKeeps

LEMMA RecordStep ==
    ASSUME AsksInv, NEW c \in Commands, RecordClarify(c)
    PROVE  AsksInv'
<1>1. /\ gate \in [Commands -> GateState] /\ gate[c] \in GateState /\ GateOk(c, gate[c])
      /\ kills \in Nat /\ spec \in SpecState /\ draft \in [Commands -> SpecState]
      /\ recorded \subseteq Seq(Answer) /\ raced \in BOOLEAN /\ SpecOk
  BY DEF AsksInv, AsksTypes, SpecTypes
<1>2. PICK e : e = draft[c]
  OBVIOUS
<1>3. /\ e \in SpecState /\ AllOwned(e.parts) /\ draft = [draft EXCEPT ![c] = e]
      /\ AllOwned(spec.parts)
  BY <1>1, <1>2 DEF SpecOk
<1>4. PICK g : g = [gate[c] EXCEPT !.pc = "design", !.pairs = <<>>]
  OBVIOUS
<1>5. g \in GateState /\ g.pc = "design" /\ g.left = gate[c].left /\ g.pairs = <<>>
  <2>1. <<>> \in Seq(Answer)
    OBVIOUS
  <2> QED BY <1>1, <1>4, <2>1 DEF GateState, GatePcs
<1>6. /\ gate[c].pc = "record" /\ gate' = [gate EXCEPT ![c] = g]
      /\ tlog' = Append(tlog, "clarify") /\ recorded' = recorded \cup {gate[c].pairs}
      /\ UNCHANGED <<phoneVars, question, answer, asked, spec, draft, raced, declared, kills>>
  BY <1>4 DEF RecordClarify
<1>7. GateOk(c, g)
  BY <1>1, <1>5, <1>6 DEF GateOk, Owned
<1>8. gate'[c] = g /\ \A d \in Commands \ {c} : gate'[d] = gate[d]
  BY <1>1, <1>6
<1>9. recorded' \subseteq Seq(Answer)
  BY <1>1, <1>6 DEF GateState
<1>10. RaceInv'
  <2> SUFFICES ASSUME ~raced PROVE RaceInv'
    BY <1>6 DEF RaceInv
  <2>1. ASSUME NEW s, Fresh(s)
        PROVE  Fresh(s)'
    BY <1>1, <1>5, <1>6, <2>1, FreshKept
  <2>2. ASSUME NEW d \in Commands, gate'[d].pc \in {"truncate", "write"}
        PROVE  /\ gate'[d] = gate[d] /\ Fresh(draft[d])' /\ Has(draft'[d].parts, gate'[d].pairs)
    <3>1. gate'[d] = gate[d]
      BY <1>5, <1>8, <2>2
    <3>2. PICK s : s = draft[d]
      OBVIOUS
    <3>3. Fresh(s) /\ Has(s.parts, gate[d].pairs)
      BY <2>2, <3>1, <3>2 DEF AsksInv, RaceInv
    <3>4. Fresh(s)'
      BY <2>1, <3>3
    <3> QED BY <1>6, <3>1, <3>2, <3>3, <3>4 DEF Fresh
  <2>3. \A d \in Commands : gate'[d].pc = "write" <=> gate[d].pc = "write"
    BY <1>5, <1>6, <1>8
  <2>4. ASSUME NEW d \in Commands, gate'[d].pc = "write"
        PROVE  \A b \in Commands \ {d} : gate'[b].pc \notin {"truncate", "write"}
    <3>1. \A b \in Commands \ {d} : gate[b].pc \notin {"truncate", "write"}
      BY <2>3, <2>4 DEF AsksInv, RaceInv
    <3> QED BY <1>5, <1>8, <3>1
  <2>5. IF Writing' THEN spec' = NoText ELSE Fresh(spec)'
    <3>1. Writing' <=> Writing
      BY <2>3 DEF Writing
    <3>2. CASE Writing
      BY <1>6, <3>1, <3>2 DEF AsksInv, RaceInv
    <3>3. CASE ~Writing
      <4>1. PICK s : s = spec
        OBVIOUS
      <4>2. Fresh(s)'
        BY <2>1, <3>3, <4>1 DEF AsksInv, RaceInv
      <4> QED BY <1>6, <3>1, <3>3, <4>1, <4>2 DEF Fresh
    <3> QED BY <3>2, <3>3
  <2> QED BY <2>2, <2>4, <2>5 DEF RaceInv
<1> QED BY <1>1, <1>3, <1>5, <1>6, <1>7, <1>9, <1>10, UpdateKeeps

LEMMA KillStep ==
    ASSUME AsksInv, NEW c \in Commands, KillGate(c)
    PROVE  AsksInv'
<1>1. /\ gate \in [Commands -> GateState] /\ kills \in Nat
      /\ spec \in SpecState /\ draft \in [Commands -> SpecState]
      /\ recorded \subseteq Seq(Answer) /\ raced \in BOOLEAN /\ AllOwned(spec.parts)
  BY DEF AsksInv, AsksTypes, SpecTypes, SpecOk
<1>2. NoText \in SpecState /\ AllOwned(NoText.parts)
  BY DEF NoText, SpecState, AllOwned
<1>3. PICK g : g = Ended
  OBVIOUS
<1>4. g \in GateState /\ GateOk(c, g) /\ g.pc = "ended"
  BY <1>3, EndedOk
<1>5. /\ gate' = [gate EXCEPT ![c] = g] /\ draft' = [draft EXCEPT ![c] = NoText]
      /\ raced' = (raced \/ gate[c].pc = "write") /\ kills' = kills + 1
      /\ UNCHANGED <<phoneVars, question, answer, asked, tlog, spec, recorded, declared>>
  BY <1>3 DEF KillGate
<1>6. kills' \in Nat /\ kills' # 0
  BY <1>1, <1>5
<1>7. gate'[c] = g /\ \A d \in Commands \ {c} : gate'[d] = gate[d] /\ draft'[d] = draft[d]
  BY <1>1, <1>5
<1>8. RaceInv'
  <2> SUFFICES ASSUME ~raced, gate[c].pc # "write" PROVE RaceInv'
    BY <1>5 DEF RaceInv
  <2>1. ASSUME NEW s, Fresh(s)
        PROVE  Fresh(s)'
    BY <1>1, <1>4, <1>5, <2>1, FreshKept
  <2>2. ASSUME NEW d \in Commands, gate'[d].pc \in {"truncate", "write"}
        PROVE  Fresh(draft[d])' /\ Has(draft'[d].parts, gate'[d].pairs)
    <3>1. d # c /\ gate'[d] = gate[d] /\ draft'[d] = draft[d]
      BY <1>4, <1>7, <2>2
    <3>2. PICK s : s = draft[d]
      OBVIOUS
    <3>3. Fresh(s) /\ Has(s.parts, gate[d].pairs)
      BY <2>2, <3>1, <3>2 DEF AsksInv, RaceInv
    <3>4. Fresh(s)'
      BY <2>1, <3>3
    <3> QED BY <3>1, <3>2, <3>3, <3>4 DEF Fresh
  <2>3. \A d \in Commands : gate'[d].pc = "write" <=> gate[d].pc = "write"
    BY <1>4, <1>7
  <2>4. ASSUME NEW d \in Commands, gate'[d].pc = "write"
        PROVE  \A b \in Commands \ {d} : gate'[b].pc \notin {"truncate", "write"}
    <3>1. \A b \in Commands \ {d} : gate[b].pc \notin {"truncate", "write"}
      BY <2>3, <2>4 DEF AsksInv, RaceInv
    <3> QED BY <1>4, <1>7, <3>1
  <2>5. IF Writing' THEN spec' = NoText ELSE Fresh(spec)'
    <3>1. Writing' <=> Writing
      BY <2>3 DEF Writing
    <3>2. CASE Writing
      BY <1>5, <3>1, <3>2 DEF AsksInv, RaceInv
    <3>3. CASE ~Writing
      <4>1. PICK s : s = spec
        OBVIOUS
      <4>2. Fresh(s)'
        BY <2>1, <3>3, <4>1 DEF AsksInv, RaceInv
      <4> QED BY <1>5, <3>1, <3>3, <4>1, <4>2 DEF Fresh
    <3> QED BY <3>2, <3>3
  <2> QED BY <2>2, <2>4, <2>5 DEF RaceInv
<1> QED BY <1>1, <1>2, <1>4, <1>5, <1>6, <1>8, UpdateKeeps

\* Each step of a gate that is not in a poll.
LEMMA GateStep ==
    ASSUME AsksInv, NEW c \in Commands, Gate(c) \/ Deadline(c) \/ KillGate(c)
    PROVE  AsksInv'
<1>1. /\ gate \in [Commands -> GateState] /\ gate[c] \in GateState /\ GateOk(c, gate[c])
      /\ kills \in Nat /\ Owned(c, gate[c].pairs) /\ raced \in BOOLEAN
  BY DEF AsksInv, AsksTypes, SpecTypes, GateOk
\* A gate goes on to a phase that asks nothing.
<1>2. ASSUME NEW pc \in {"clarify", "design", "loop"}, gate' = [gate EXCEPT ![c].pc = pc],
             gate[c].pc \in {"new", "clarify", "design"},
             tlog' = tlog \/ tlog' = Append(tlog, "clarify"),
             raced' \in BOOLEAN, raced => raced',
             UNCHANGED <<phoneVars, question, answer, asked, spec, draft, recorded, declared, kills>>
      PROVE  AsksInv'
  <2>1. PICK g : g = [gate[c] EXCEPT !.pc = pc]
    OBVIOUS
  <2>2. g \in GateState /\ g.pc = pc /\ g.left = 0 /\ g.pairs = gate[c].pairs
        /\ gate' = [gate EXCEPT ![c] = g]
    BY <1>1, <1>2, <2>1 DEF GateState, GatePcs, GateOk
  <2>3. GateOk(c, g)
    BY <1>1, <2>2 DEF GateOk
  <2>4. "clarify" \in GateEntries \ {"design_approved"}
    BY DEF GateEntries
  <2>5. \/ tlog' = tlog
        \/ \E e \in GateEntries \ {"design_approved"} : tlog' = Append(tlog, e)
    BY <1>2, <2>4
  <2>6. /\ g.pc \notin {"truncate", "write", "record"}
        /\ gate[c].pc \notin {"truncate", "write", "record", "poll", "drop", "leave"}
    BY <1>2, <2>2
  <2> QED BY <1>1, <1>2, <2>2, <2>3, <2>5, <2>6, MoveKeeps
<1>3. CASE Start(c)
  <2>1. PICK pc \in {"clarify", "design", "loop"} : gate' = [gate EXCEPT ![c].pc = pc]
    BY <1>3 DEF Start
  <2> QED BY <1>1, <1>2, <1>3, <2>1 DEF Start, specVars
<1>4. CASE Clarify(c)
  <2>1. gate[c].pc = "clarify" /\ UNCHANGED <<phoneVars, specVars, declared, kills>>
    BY <1>4 DEF Clarify
  <2>2. CASE gate' = [gate EXCEPT ![c].pc = "design"]
             /\ (tlog' = tlog \/ tlog' = Append(tlog, "clarify"))
             /\ UNCHANGED <<question, answer, asked>>
    BY <1>1, <1>2, <2>1, <2>2 DEF specVars
  <2>3. CASE (\E n \in Questions \ {0} : Ask(c, "clarify", [gate[c] EXCEPT !.left = n]))
             /\ UNCHANGED tlog
    <3>1. PICK n \in Questions \ {0} : Ask(c, "clarify", [gate[c] EXCEPT !.left = n])
      BY <2>3
    <3>2. PICK g : g = [gate[c] EXCEPT !.left = n]
      OBVIOUS
    <3>3. n \in Nat /\ n > 0
      BY AsksAssumption
    <3>4. g \in GateState /\ g.left > 0 /\ g.pc = "clarify" /\ g.pairs = gate[c].pairs
      BY <1>1, <2>1, <3>2, <3>3 DEF GateState
    <3>5. Ask(c, "clarify", g)
      BY <3>1, <3>2
    <3> QED BY <1>1, <2>1, <2>3, <3>4, <3>5, AskKeeps DEF specVars
  <2> QED BY <1>4, <2>2, <2>3 DEF Clarify
<1>5. CASE NextQuestion(c)
  <2>1. PICK g : g = gate[c]
    OBVIOUS
  <2>2. Ask(c, "clarify", g) /\ UNCHANGED <<phoneVars, tlog, specVars, declared, kills>>
    BY <1>5, <2>1 DEF NextQuestion
  <2>3. g \in GateState /\ g.left > 0 /\ g.pc = "next" /\ Owned(c, g.pairs)
    BY <1>1, <1>5, <2>1 DEF NextQuestion, GateOk
  <2> QED BY <1>1, <2>1, <2>2, <2>3, AskKeeps DEF specVars
<1>6. CASE ReadSpec(c) \/ TruncateSpec(c) \/ WriteSpec(c) \/ RecordClarify(c)
  BY <1>6, ReadStep, TruncateStep, WriteStep, RecordStep
<1>7. CASE Design(c)
  <2>1. /\ gate[c].pc = "design" /\ raced' = (raced \/ Writing)
        /\ UNCHANGED <<phoneVars, tlog, spec, draft, recorded, declared, kills>>
    BY <1>7 DEF Design
  <2>2. raced' \in BOOLEAN /\ (raced => raced')
    BY <1>1, <2>1 DEF Writing
  <2>3. CASE Ask(c, "design", gate[c])
    <3>1. PICK g : g = gate[c]
      OBVIOUS
    <3>2. Ask(c, "design", g) /\ g \in GateState /\ g.pc = "design" /\ Owned(c, g.pairs)
      BY <1>1, <2>1, <2>3, <3>1
    <3> QED BY <2>1, <2>2, <3>2, AskKeeps
  <2>4. CASE gate' = [gate EXCEPT ![c].pc = "loop"] /\ UNCHANGED <<question, answer, asked>>
    BY <1>2, <2>1, <2>2, <2>4
  <2> QED BY <1>7, <2>3, <2>4 DEF Design
<1>8. ASSUME NEW skip \in BOOLEAN, Loop(c, skip)
      PROVE  AsksInv'
  <2>1. /\ gate[c].pc = "loop" /\ raced' = (raced \/ Writing)
        /\ UNCHANGED <<phoneVars, question, answer, asked, tlog, spec, draft, recorded, declared, kills>>
    BY <1>8 DEF Loop
  <2>2. raced' \in BOOLEAN /\ (raced => raced')
    BY <1>1, <2>1 DEF Writing
  <2>3. PICK g : g = IF (skip \/ has_clarify) /\ (spec.risky => design_approved)
                     THEN [Ended EXCEPT !.pc = "running", !.risky = spec.risky] ELSE Ended
    OBVIOUS
  <2>4. gate' = [gate EXCEPT ![c] = g]
    BY <1>8, <2>3 DEF Loop
  <2>5. Ended \in GateState /\ GateOk(c, Ended) /\ Ended.left = 0 /\ Ended.pairs = <<>>
        /\ Ended.pc = "ended"
    BY EndedOk DEF Ended, Started
  <2>6. /\ g \in GateState /\ g.pc \in {"running", "ended"}
        /\ g.left = 0 /\ g.pairs = <<>>
        /\ g.pc = "running" => g.risky = spec.risky /\ (spec.risky => design_approved)
    <3>1. CASE (skip \/ has_clarify) /\ (spec.risky => design_approved)
      <4>1. g = [Ended EXCEPT !.pc = "running", !.risky = spec.risky]
        BY <2>3, <3>1
      <4>2. spec.risky \in BOOLEAN
        BY DEF AsksInv, AsksTypes, SpecTypes, SpecState
      <4>3. g \in GateState /\ g.pc = "running" /\ g.left = 0 /\ g.pairs = <<>> /\ g.risky = spec.risky
        BY <2>5, <4>1, <4>2 DEF GateState, GatePcs
      <4> QED BY <3>1, <4>3
    <3>2. CASE ~((skip \/ has_clarify) /\ (spec.risky => design_approved))
      <4>1. g = Ended
        BY <2>3, <3>2
      <4> QED BY <2>5, <4>1
    <3> QED BY <3>1, <3>2
  <2>7. declared /\ ~raced' => spec.risky
    BY <2>1 DEF AsksInv, RaceInv, Fresh
  <2>8. GateOk(c, g)'
    <3>1. Owned(c, g.pairs)'
      BY <2>6 DEF Owned
    <3>2. g.pc = "running" /\ g.risky => design_approved'
      BY <2>1, <2>6 DEF design_approved
    <3>3. g.pc = "running" /\ declared' /\ ~raced' => g.risky
      BY <2>1, <2>6, <2>7
    <3> QED BY <2>6, <3>1, <3>2, <3>3 DEF GateOk
  <2> QED BY <1>1, <2>1, <2>2, <2>4, <2>6, <2>8, MoveKeeps
<1>9. CASE Deadline(c)
  <2>1. PICK g : g = [gate[c] EXCEPT !.ask = [gate[c].ask EXCEPT !.late = TRUE]]
    OBVIOUS
  <2>2. gate[c].ask \in AskState
    BY <1>1 DEF GateState
  <2>3. [gate[c].ask EXCEPT !.late = TRUE] \in AskState
        /\ [gate[c].ask EXCEPT !.late = TRUE].id = gate[c].ask.id
    BY <2>2 DEF AskState
  <2>4. g \in GateState /\ g.pc = gate[c].pc /\ g.left = gate[c].left
        /\ g.pairs = gate[c].pairs /\ g.ask.id = gate[c].ask.id
    BY <1>1, <2>1, <2>3 DEF GateState
  <2>5. gate' = [gate EXCEPT ![c] = g]
    BY <1>1, <1>9, <2>1 DEF Deadline, GateState
  <2>6. g.pc \in {"poll", "drop"}
    BY <1>9, <2>4 DEF Deadline
  <2>7. GateOk(c, g)
    BY <1>1, <2>4, <2>6 DEF GateOk
  <2> QED BY <1>1, <1>9, <2>4, <2>5, <2>6, <2>7, MoveKeeps DEF Deadline, phoneVars, specVars
<1>10. CASE KillGate(c)
  BY <1>10, KillStep
<1> QED BY <1>3, <1>4, <1>5, <1>6, <1>7, <1>8, <1>9, <1>10 DEF Gate

LEMMA AsksInvariant == Spec => []AsksInv
<1>1. AsksInv /\ [Next]_vars => AsksInv'
  <2> SUFFICES ASSUME AsksInv, [Next]_vars PROVE AsksInv'
    OBVIOUS
  <2>1. CASE Next
    BY <2>1, PhoneStep, PollStep, GateStep DEF Next
  <2>2. CASE UNCHANGED vars
    <3>1. UNCHANGED <<gateVars, question, asked>> /\ given' = given
      BY <2>2 DEF vars, phoneVars
    <3>2. AsksTypes' /\ PhoneOk'
      BY <2>2 DEF vars, gateVars, specVars, phoneVars, AsksInv, AsksTypes, SpecTypes, PhoneOk
    <3> QED BY <3>1, <3>2, PhoneFrame
  <2> QED BY <2>1, <2>2
<1> QED BY <1>1, AsksInit, PTL DEF Spec

-----------------------------------------------------------------------------
(* What the files are good for *)

\* A Clarifications block that gets into the spec holds the answers the Director
\* gave to one command's own clarify questions, in their order, whichever other
\* commands asked, posted, renamed, removed, wrote or were killed in between; and
\* unless a gate met another in the middle of an update none of them is lost
\* (remote_ask.RemoteAsk.ask, clarify._append_clarifications).
THEOREM ClarificationsMatch == Spec => []AnswersMatch
<1>1. AsksInv => BlocksMatch
  <2> SUFFICES ASSUME AsksInv, NEW b \in Blocks, NEW i \in DOMAIN spec.parts[b].pairs
               PROVE  /\ spec.parts[b].pairs[i] \in given
                      /\ asked[spec.parts[b].pairs[i].id].what = "clarify"
                      /\ asked[spec.parts[b].pairs[i].id].n = i
                      /\ asked[spec.parts[b].pairs[i].id].by = asked[spec.parts[b].pairs[1].id].by
    BY DEF BlocksMatch
  <2>1. PICK pairs : pairs = spec.parts[b].pairs
    OBVIOUS
  <2>2. PICK c \in Commands : Owned(c, pairs)
    BY <2>1 DEF AsksInv, SpecOk, AllOwned, Blocks
  <2>3. 1 \in DOMAIN pairs
    <3>1. pairs \in Seq(Answer)
      <4>1. spec.parts \in Seq(Part) /\ b \in DOMAIN spec.parts
        BY DEF AsksInv, AsksTypes, SpecTypes, SpecState, Blocks
      <4>2. spec.parts[b] \in Part
        BY <4>1
      <4> QED BY <2>1, <4>2 DEF Part
    <3> QED BY <2>1, <3>1
  <2>4. /\ pairs[i] \in given
        /\ asked[pairs[i].id] = [by |-> c, what |-> "clarify", n |-> i]
        /\ asked[pairs[1].id] = [by |-> c, what |-> "clarify", n |-> 1]
    BY <2>1, <2>2, <2>3, Zenon DEF Owned
  <2> QED BY <2>1, <2>4
<1>2. AsksInv => SpecWhole
  <2> SUFFICES ASSUME AsksInv, ~raced, ~Writing
               PROVE  /\ spec.parts # <<>>
                      /\ \A b \in DOMAIN spec.parts :
                           IF b = 1 THEN spec.parts[b] = Original ELSE b \in Blocks
                      /\ \A pairs \in recorded : \E b \in Blocks : spec.parts[b].pairs = pairs
    BY DEF SpecWhole
  <2>1. Fresh(spec)
    BY DEF AsksInv, RaceInv
  <2> QED BY <2>1 DEF Fresh, Whole, Has, Blocks
<1> QED BY <1>1, <1>2, AsksInvariant, PTL DEF AnswersMatch

\* The loop of a task whose spec reads as high-risk - as a spec that was one does,
\* unless a gate met it in the middle of an update - runs only after the Director
\* answered a design question with approve (run._phase_design,
\* run._phase_loop_locked).
THEOREM RunsAreApproved == Spec => []LoopNeedsApproval
<1>1. AsksInv => LoopNeedsApproval
  BY DEF AsksInv, GateOk, Approved, LoopNeedsApproval
<1> QED BY <1>1, AsksInvariant, PTL

\* The files of the protocol hold what was written or half written, and no
\* question outlives the gates, unless one was killed (remote_ask.RemoteAsk.ask).
THEOREM AskFilesSound == Spec => []FilesSound
<1>1. AsksInv => TypeOK
  <2> SUFFICES ASSUME AsksInv PROVE TypeOK
    OBVIOUS
  <2>1. AsksTypes /\ PhoneOk /\ DOMAIN asked = 1 .. Len(asked) /\ DOMAIN file = 1 .. Len(file)
    BY DEF AsksInv, AsksTypes
  <2>2. ASSUME NEW c \in Commands
        PROVE  /\ gate[c].pc \in {"new", "clarify", "poll", "drop", "leave", "left", "next", "read", "truncate",
                                  "write", "record", "design", "loop", "running", "ended"}
               /\ gate[c].left \in Nat /\ (gate[c].pc = "next" \/ Asking(c) \/ gate[c].left = 0)
               /\ Asking(c) => gate[c].ask.id \in DOMAIN asked
    <3>1. gate[c] \in GateState /\ GateOk(c, gate[c])
      BY DEF AsksInv, AsksTypes
    <3> QED BY <2>1, <3>1 DEF GateState, GatePcs, GateOk, Asking
  <2>3. \A n \in DOMAIN tlog : tlog[n] \in {"clarify", "design_approved", "design_rejected"}
    BY <2>1 DEF AsksTypes, GateEntries
  <2> QED BY <2>1, <2>2, <2>3 DEF PhoneOk, TypeOK
<1>2. AsksInv => NoDeadQuestion
  BY DEF AsksInv, QuestionHeld, NoDeadQuestion, Asking
<1> QED BY <1>1, <1>2, AsksInvariant, PTL DEF FilesSound
================================================================================
