------------------------------ MODULE FileProofs ------------------------------
(***************************************************************************)
(* The two protocols on files: the pid-file lock (RunLock), and the        *)
(* append-only JSONL log (JsonlLog).                                       *)
(*                                                                         *)
(* The lock, for any number of processes and pids, recycled ones included: *)
(* mutual exclusion, and what the lock file says of a process whose pid    *)
(* was not recycled.  The holder's pid stays in the file until the holder  *)
(* itself unlinks it, no two live processes share a pid, and between one   *)
(* process's reading of the file and its writing the guard keeps every     *)
(* other process from writing.  A holder that gives the lock up in between *)
(* only makes the reader refuse a lock that is free.                       *)
(*                                                                         *)
(* The log, for any events, texts and number of appends, torn ones         *)
(* included: what its reader gives back.  The definitions of the reader    *)
(* are restated as operators on a file, and the lemmas say what adding     *)
(* tokens does to them: tokens inside a line leave every line that was     *)
(* ended as it was; a line end completes an event, or leaves a malformed   *)
(* line; and once something follows a malformed line, it is read as        *)
(* corrupt for ever.                                                       *)
(***************************************************************************)
EXTENDS RunLock, JsonlLog, FiniteSets, Integers, Sequences, FiniteSetTheorems, SequenceTheorems,
        WellFoundedInduction, TLAPS

-----------------------------------------------------------------------------
(* The pid-file lock *)

PidsUnique ==
    \A p, q \in Procs :
        st[p] # "dead" =>
            /\ pid[p] \in Pids
            /\ st[q] # "dead" /\ pid[p] = pid[q] => p = q

GuardExact == \A p \in Procs : st[p] \in Guarded <=> guard = p

HolderNamed == \A p \in Procs : st[p] \in Holding => file = pid[p]

\* What the process that is about to take the lock knows of any holder.
JudgeSound ==
    \A p, q \in Procs : st[q] \in Holding =>
        /\ st[p] = "judge" => seen[p] = pid[q]
        /\ st[p] \notin {"trunc", "fill"}

LockInv == TypeOK /\ PidsUnique /\ GuardExact /\ HolderNamed /\ JudgeSound

LEMMA InvInit == Init => LockInv
BY RunLockAssumption
   DEF Init, LockInv, TypeOK, PidsUnique, GuardExact, HolderNamed, JudgeSound,
       States, Guarded, Holding

LEMMA InvExcludes == LockInv => MutualExclusion
BY DEF LockInv, PidsUnique, HolderNamed, MutualExclusion, Holding

LEMMA InvStep ==
    ASSUME LockInv, [Next]_vars
    PROVE  LockInv'
<1> USE RunLockAssumption DEF Moves
<1>1. CASE UNCHANGED vars
  BY <1>1 DEF vars, LockInv, TypeOK, PidsUnique, GuardExact, HolderNamed, JudgeSound
<1>2. ASSUME NEW p \in Procs, NEW i \in Pids, Start(p, i)
      PROVE  LockInv'
  BY <1>2 DEF Start, Alive, LockInv, TypeOK, PidsUnique, GuardExact, HolderNamed,
              JudgeSound, States, Guarded, Holding
<1>3. ASSUME NEW p \in Procs, Crash(p)
      PROVE  LockInv'
  BY <1>3 DEF Crash, Dies, LockInv, TypeOK, PidsUnique, GuardExact, HolderNamed,
              JudgeSound, States, Guarded, Holding
<1>4. ASSUME NEW p \in Procs, Enter(p)
      PROVE  LockInv'
  BY <1>4 DEF Enter, LockInv, TypeOK, PidsUnique, GuardExact, HolderNamed,
              JudgeSound, States, Guarded, Holding
<1>5. ASSUME NEW p \in Procs, Flock(p)
      PROVE  LockInv'
  BY <1>5 DEF Flock, LockInv, TypeOK, PidsUnique, GuardExact, HolderNamed,
              JudgeSound, States, Guarded, Holding
<1>6. ASSUME NEW p \in Procs, ReadLockPid(p)
      PROVE  LockInv'
  BY <1>6 DEF ReadLockPid, LockInv, TypeOK, PidsUnique, GuardExact, HolderNamed,
              JudgeSound, States, Guarded, Holding
<1>7. ASSUME NEW p \in Procs, Judge(p)
      PROVE  LockInv'
  \* A live holder would have been refused.
  <2>1. ~Alive(seen[p]) => \A q \in Procs : st[q] \notin Holding
    BY <1>7 DEF Judge, Alive, LockInv, JudgeSound, Holding
  <2> QED
    BY <1>7, <2>1 DEF Judge, LockInv, TypeOK, PidsUnique, GuardExact, HolderNamed,
                      JudgeSound, States, Guarded, Holding
<1>8. ASSUME NEW p \in Procs, Truncate(p)
      PROVE  LockInv'
  BY <1>8 DEF Truncate, LockInv, TypeOK, PidsUnique, GuardExact, HolderNamed,
              JudgeSound, States, Guarded, Holding
<1>9. ASSUME NEW p \in Procs, WritePid(p)
      PROVE  LockInv'
  BY <1>9 DEF WritePid, LockInv, TypeOK, PidsUnique, GuardExact, HolderNamed,
              JudgeSound, States, Guarded, Holding
<1>10. ASSUME NEW p \in Procs, CloseGuard(p)
       PROVE  LockInv'
  BY <1>10 DEF CloseGuard, LockInv, TypeOK, PidsUnique, GuardExact, HolderNamed,
               JudgeSound, States, Guarded, Holding
<1>11. ASSUME NEW p \in Procs, Finish(p)
       PROVE  LockInv'
  BY <1>11 DEF Finish, LockInv, TypeOK, PidsUnique, GuardExact, HolderNamed,
               JudgeSound, States, Guarded, Holding
<1>12. ASSUME NEW p \in Procs, Unlink(p)
       PROVE  LockInv'
  <2>1. \A q \in Procs : st[q] \in Holding => q = p
    BY <1>12, InvExcludes DEF Unlink, MutualExclusion, Holding
  <2> QED
    BY <1>12, <2>1 DEF Unlink, LockInv, TypeOK, PidsUnique, GuardExact, HolderNamed,
                       JudgeSound, States, Guarded, Holding
<1> QED
  BY <1>1, <1>2, <1>3, <1>4, <1>5, <1>6, <1>7, <1>8, <1>9, <1>10, <1>11, <1>12
     DEF Next, Acquiring

\* Two processes are never both in the locked section of queue.run_lock (or
\* of TaskQueue.lock), however many there are and whatever pids they get.
THEOREM LockExclusive == Spec => []MutualExclusion
  BY InvInit, InvStep, InvExcludes, PTL DEF Spec

-----------------------------------------------------------------------------
(* The file never names a live process that is not in the locked section,  *)
(* unless that process got the pid of an earlier one.                      *)

\* A pid the file holds was handed out; so was every live process's.
PidsHandedOut ==
    /\ file \in Pids => file \in used
    /\ \A p \in Procs : st[p] # "dead" => pid[p] \in used

NamedInv == FileNamesHolder /\ PidsHandedOut

LEMMA NamedStep ==
    ASSUME LockInv, NamedInv, [Next]_vars
    PROVE  NamedInv'
<1> USE RunLockAssumption DEF Moves, NamedInv, FileNamesHolder, PidsHandedOut
<1>1. CASE UNCHANGED vars
  BY <1>1 DEF vars
<1>2. ASSUME NEW p \in Procs, NEW i \in Pids, Start(p, i)
      PROVE  NamedInv'
  BY <1>2 DEF Start, LockInv, TypeOK, Holding
<1>3. ASSUME NEW p \in Procs, Crash(p)
      PROVE  NamedInv'
  BY <1>3 DEF Crash, Dies, LockInv, TypeOK, Holding
<1>4. ASSUME NEW p \in Procs,
             Enter(p) \/ Flock(p) \/ ReadLockPid(p) \/ Judge(p) \/ CloseGuard(p) \/ Finish(p)
      PROVE  NamedInv'
  BY <1>4 DEF Enter, Flock, ReadLockPid, Judge, CloseGuard, Finish, LockInv, TypeOK, Holding
<1>5. ASSUME NEW p \in Procs, Truncate(p) \/ Unlink(p)
      PROVE  NamedInv'
  BY <1>5 DEF Truncate, Unlink, LockInv, TypeOK, Holding
<1>6. ASSUME NEW p \in Procs, WritePid(p)
      PROVE  NamedInv'
  BY <1>6 DEF WritePid, LockInv, TypeOK, PidsUnique, Holding
<1> QED
  BY <1>1, <1>2, <1>3, <1>4, <1>5, <1>6 DEF Next, Acquiring

\* A lock left by a crashed holder never blocks anyone, and a refusal names a
\* process that really was in the locked section when the file was read, as
\* long as its pid is not a recycled one (queue._pid_alive).
THEOREM LockFileTruthful == Spec => []FileNamesHolder
<1>1. Init => LockInv /\ NamedInv
  BY InvInit, RunLockAssumption DEF Init, NamedInv, FileNamesHolder, PidsHandedOut
<1>2. LockInv /\ NamedInv /\ [Next]_vars => LockInv' /\ NamedInv'
  BY InvStep, NamedStep
<1>3. NamedInv => FileNamesHolder
  BY DEF NamedInv
<1> QED
  BY <1>1, <1>2, <1>3, PTL DEF Spec

-----------------------------------------------------------------------------
(* The log: numbers *)

Less == {p \in Nat \X Nat : p[1] < p[2]}

LEMMA LeastOf ==
    ASSUME NEW S, S \subseteq Nat, S # {}
    PROVE  \E n \in S : \A m \in S : n <= m
<1>1. IsWellFoundedOn(Less, Nat)
  BY NatLessThanWellFounded DEF OpToRel, Less
<1>2. PICK n \in S : \A m \in S : <<m, n>> \notin Less
  BY <1>1, WFMin
<1>3. ASSUME NEW m \in S
      PROVE  n <= m
  <2>1. m \in Nat /\ n \in Nat
    OBVIOUS
  <2>2. ~(m < n)
    BY <1>2, <2>1 DEF Less
  <2> QED BY <2>1, <2>2
<1> QED BY <1>3

LEMMA GreatestBelow ==
    ASSUME NEW b \in Nat, NEW S, S \subseteq 1 .. b, S # {}
    PROVE  \E n \in S : \A m \in S : m <= n
<1> DEFINE B == {n \in Nat : \A m \in S : m <= n}
<1>1. b \in B
  OBVIOUS
<1>2. PICK n \in B : \A m \in B : n <= m
  BY <1>1, LeastOf
<1>3. n \in S
  <2> SUFFICES ASSUME n \notin S PROVE FALSE
    OBVIOUS
  <2>1. n \in Nat /\ (\A m \in S : m \in Nat /\ 1 <= m /\ m < n)
    BY <1>2
  <2>2. n # 0
    <3>1. PICK m \in S : TRUE
      OBVIOUS
    <3> QED BY <2>1, <3>1
  <2>3. n - 1 \in Nat /\ (\A m \in S : m <= n - 1) /\ n - 1 < n
    BY <2>1, <2>2
  <2> QED BY <1>2, <2>3
<1> QED BY <1>2, <1>3

-----------------------------------------------------------------------------
(* Tokens and lines *)

Token == {Head1(e) : e \in Events} \cup {Tail1(e) : e \in Events}
         \cup {NewLine, Sep, LeadByte, NextByte}

Breaks == {NewLine, Sep}

IsHead(t) == \E e \in Events : t = Head1(e)

LEMMA TokenFacts ==
    /\ NewLine \in Token /\ Sep \in Token /\ LeadByte \in Token /\ NextByte \in Token
    /\ NewLine # Sep /\ LeadByte # NextByte
    /\ LeadByte \notin Breaks /\ NextByte \notin Breaks
    /\ ~IsHead(NewLine) /\ ~IsHead(Sep) /\ ~IsHead(LeadByte) /\ ~IsHead(NextByte)
    /\ \A e \in Events :
          /\ Head1(e) \in Token /\ Tail1(e) \in Token
          /\ IsHead(Head1(e)) /\ ~IsHead(Tail1(e))
          /\ Head1(e) \notin Breaks /\ Tail1(e) \notin Breaks
          /\ Head1(e) # LeadByte /\ Head1(e) # NextByte
          /\ Tail1(e) # LeadByte /\ Tail1(e) # NextByte
    /\ \A e, f \in Events : Head1(e) = Head1(f) => e = f
BY DEF Token, Breaks, IsHead, Head1, Tail1, NewLine, Sep, LeadByte, NextByte

Ends(f) == {i \in DOMAIN f : f[i] \in Breaks}

Before(f, i) == {j \in Ends(f) : j < i}

Greatest(S) == CHOOSE j \in S : \A k \in S : k <= j

LineStart(f, i) == IF Before(f, i) = {} THEN 1 ELSE 1 + Greatest(Before(f, i))

LineOf(f, i) == SubSeq(f, LineStart(f, i), i - 1)

\* What follows the last line end.
Open(f) == LineOf(f, Len(f) + 1)

LEMMA StartFacts ==
    ASSUME NEW f \in Seq(Token), NEW i \in 1 .. Len(f) + 1
    PROVE  LineStart(f, i) \in 1 .. i
<1> DEFINE from == Before(f, i)
<1>1. Len(f) \in Nat /\ DOMAIN f = 1 .. Len(f)
  OBVIOUS
<1>2. from \subseteq 1 .. Len(f) /\ \A j \in from : j < i
  BY <1>1 DEF Ends, Before
<1> HIDE DEF from
<1>3. CASE from = {}
  BY <1>1, <1>3 DEF LineStart, from
<1>4. CASE from # {}
  <2>1. \E j \in from : \A k \in from : k <= j
    BY <1>1, <1>2, <1>4, GreatestBelow
  <2>2. Greatest(from) \in from
    BY <2>1 DEF Greatest
  <2>3. LineStart(f, i) = 1 + Greatest(from)
    BY <1>4 DEF LineStart, from
  <2>4. Greatest(from) \in 1 .. Len(f) /\ Greatest(from) < i
    BY <1>2, <2>2
  <2>5. Greatest(from) \in Nat /\ i \in Nat
    BY <1>1, <2>4
  <2> QED BY <2>3, <2>4, <2>5
<1> QED BY <1>3, <1>4

LEMMA OpenIs ==
    ASSUME NEW f \in Seq(Token)
    PROVE  Open(f) = SubSeq(f, LineStart(f, Len(f) + 1), Len(f))
<1>1. PICK n : n = Len(f) + 1
  OBVIOUS
<1>2. Open(f) = SubSeq(f, LineStart(f, n), n - 1)
  BY <1>1 DEF Open, LineOf
<1>3. n - 1 = Len(f)
  BY <1>1
<1> QED BY <1>1, <1>2, <1>3

\* g is f with tokens added.
Extends(g, f) ==
    /\ f \in Seq(Token) /\ g \in Seq(Token) /\ Len(f) <= Len(g)
    /\ \A j \in 1 .. Len(f) : g[j] = f[j]

\* What is added leaves the lines before it alone.
LEMMA LinesKept ==
    ASSUME NEW f, NEW g, Extends(g, f), NEW i \in 1 .. Len(f) + 1
    PROVE  LineOf(g, i) = LineOf(f, i)
<1>1. /\ Len(f) \in Nat /\ DOMAIN f = 1 .. Len(f) /\ Len(g) \in Nat /\ DOMAIN g = 1 .. Len(g)
      /\ Len(f) <= Len(g) /\ \A j \in 1 .. Len(f) : g[j] = f[j]
  BY DEF Extends
<1>2. Before(g, i) = Before(f, i)
  BY <1>1 DEF Ends, Before
<1>3. LineStart(g, i) = LineStart(f, i)
  BY <1>2 DEF LineStart
<1>4. LineStart(f, i) \in 1 .. i
  BY StartFacts DEF Extends
<1>5. SubSeq(g, LineStart(f, i), i - 1) = SubSeq(f, LineStart(f, i), i - 1)
  BY <1>1, <1>4
<1> QED BY <1>3, <1>5 DEF LineOf

\* Tokens inside a line go to the open line.
LEMMA AddInside ==
    ASSUME NEW f \in Seq(Token), NEW s \in Seq(Token \ Breaks)
    PROVE  /\ Extends(f \o s, f)
           /\ Ends(f \o s) = Ends(f)
           /\ Open(f \o s) = Open(f) \o s
<1> DEFINE g == f \o s
           b == LineStart(f, Len(f) + 1)
<1>1. /\ Len(f) \in Nat /\ DOMAIN f = 1 .. Len(f) /\ Len(s) \in Nat
      /\ Len(g) = Len(f) + Len(s) /\ DOMAIN g = 1 .. Len(g) /\ g \in Seq(Token)
      /\ \A j \in 1 .. Len(f) : g[j] = f[j]
      /\ \A j \in 1 .. Len(s) : g[Len(f) + j] = s[j] /\ s[j] \notin Breaks
  <2>1. s \in Seq(Token) /\ \A j \in 1 .. Len(s) : s[j] \notin Breaks
    OBVIOUS
  <2> QED BY <2>1, ConcatProperties
<1>2. b \in 1 .. Len(f) + 1
  BY <1>1, StartFacts
<1> HIDE DEF g
<1>3. Extends(g, f)
  BY <1>1 DEF Extends
<1>4. Ends(g) = Ends(f)
  <2>1. ASSUME NEW i \in DOMAIN g, i \notin DOMAIN f
        PROVE  g[i] \notin Breaks
    <3>1. i - Len(f) \in 1 .. Len(s) /\ Len(f) + (i - Len(f)) = i
      BY <1>1, <2>1
    <3> QED BY <1>1, <3>1
  <2>2. DOMAIN f \subseteq DOMAIN g /\ \A i \in DOMAIN f : g[i] = f[i]
    BY <1>1
  <2> QED BY <2>1, <2>2 DEF Ends
<1>5. Before(g, Len(g) + 1) = Before(f, Len(f) + 1)
  BY <1>1, <1>4 DEF Ends, Before
<1>6. LineStart(g, Len(g) + 1) = b
  BY <1>5 DEF LineStart
<1>7. Open(g) = SubSeq(g, b, Len(g)) /\ Open(f) = SubSeq(f, b, Len(f))
  BY <1>1, <1>6, OpenIs
<1> HIDE DEF b
<1>8. SubSeq(g, b, Len(g)) = SubSeq(f, b, Len(f)) \o s
  <2>1. /\ SubSeq(f, b, Len(f)) \in Seq(Token) /\ SubSeq(g, b, Len(g)) \in Seq(Token)
        /\ Len(SubSeq(f, b, Len(f))) = Len(f) + 1 - b
        /\ Len(SubSeq(g, b, Len(g))) = Len(g) + 1 - b
        /\ \A j \in 1 .. (Len(f) + 1 - b) : SubSeq(f, b, Len(f))[j] = f[b + j - 1]
        /\ \A j \in 1 .. (Len(g) + 1 - b) : SubSeq(g, b, Len(g))[j] = g[b + j - 1]
    BY <1>1, <1>2, SubSeqProperties
  <2> DEFINE u == SubSeq(f, b, Len(f))
             v == SubSeq(g, b, Len(g))
  <2>2. s \in Seq(Token)
    OBVIOUS
  <2>3. u \o s \in Seq(Token) /\ Len(u \o s) = Len(u) + Len(s)
        /\ \A j \in 1 .. Len(u) + Len(s) : (u \o s)[j] = IF j <= Len(u) THEN u[j] ELSE s[j - Len(u)]
    BY <2>1, <2>2, ConcatProperties
  <2> HIDE DEF u, v
  <2>4. Len(u) = Len(f) + 1 - b /\ Len(v) = Len(u) + Len(s) /\ Len(u) \in Nat
    BY <1>1, <1>2, <2>1 DEF u, v
  <2>5. ASSUME NEW j \in 1 .. Len(v)
        PROVE  v[j] = (u \o s)[j]
    <3>1. v[j] = g[b + j - 1]
      BY <1>1, <2>1, <2>4, <2>5 DEF v
    <3>2. CASE j <= Len(u)
      <4>1. u[j] = f[b + j - 1] /\ b + j - 1 \in 1 .. Len(f)
        BY <1>1, <1>2, <2>1, <2>4, <3>2 DEF u
      <4> QED BY <1>1, <1>2, <2>3, <2>4, <3>1, <3>2, <4>1
    <3>3. CASE Len(u) < j
      <4>1. PICK k \in 1 .. Len(s) : k = j - Len(u) /\ b + j - 1 = Len(f) + k
        <5>1. b + j - 1 = Len(f) + (j - Len(u)) /\ j - Len(u) \in 1 .. Len(s)
          BY <1>1, <1>2, <2>4, <3>3
        <5> QED BY <5>1
      <4>2. v[j] = s[k]
        BY <1>1, <3>1, <4>1
      <4>3. j \in 1 .. Len(u) + Len(s) /\ ~(j <= Len(u))
        BY <1>1, <2>4, <3>3
      <4>4. (u \o s)[j] = s[k]
        BY <2>3, <4>1, <4>3
      <4> QED BY <4>2, <4>4
    <3> QED BY <1>1, <2>4, <3>2, <3>3
  <2> QED BY <2>1, <2>3, <2>4, <2>5, SeqEqual DEF u, v
<1> QED BY <1>3, <1>4, <1>7, <1>8 DEF g

\* A token that ends a line.
LEMMA AddBreak ==
    ASSUME NEW f \in Seq(Token), NEW t \in Breaks
    PROVE  /\ Extends(Append(f, t), f) /\ Len(Append(f, t)) = Len(f) + 1
           /\ Ends(Append(f, t)) = Ends(f) \cup {Len(f) + 1}
           /\ LineOf(Append(f, t), Len(f) + 1) = Open(f)
           /\ Open(Append(f, t)) = <<>>
<1> DEFINE g == Append(f, t)
           n == Len(f) + 1
<1>0. t \in Token
  BY TokenFacts DEF Breaks
<1>1. /\ Len(f) \in Nat /\ DOMAIN f = 1 .. Len(f) /\ DOMAIN g = 1 .. n
      /\ Len(g) = n /\ g[n] = t /\ g \in Seq(Token)
      /\ \A j \in 1 .. Len(f) : g[j] = f[j]
  BY <1>0
<1> HIDE DEF g
<1>2. Extends(g, f)
  BY <1>1 DEF Extends
<1>3. LineOf(g, n) = Open(f)
  BY <1>1, <1>2, LinesKept DEF Open
<1>4. Ends(g) = Ends(f) \cup {n}
  BY <1>1 DEF Ends
<1>5. Open(g) = <<>>
  <2>1. n \in Before(g, n + 1) /\ Before(g, n + 1) \subseteq 1 .. n
    BY <1>1, <1>4 DEF Ends, Before
  <2>2. Greatest(Before(g, n + 1)) = n
    BY <1>1, <2>1 DEF Greatest
  <2>3. LineStart(g, n + 1) = n + 1
    BY <1>1, <2>1, <2>2 DEF LineStart
  <2> QED BY <1>1, <2>3, OpenIs, SubSeqEmpty
<1> QED BY <1>1, <1>2, <1>3, <1>4, <1>5 DEF g

-----------------------------------------------------------------------------
(* What a reader finds in a file *)

\* The line ends of malformed lines, and of events.
Bad(f) == {i \in Ends(f) : LineOf(f, i) # <<>> /\ ~Parses(LineOf(f, i))}

Done(f) == {i \in Ends(f) : Parses(LineOf(f, i))}

Rank(G, i) == Cardinality({j \in G : j <= i})

Nth(G, n) == CHOOSE i \in G : Rank(G, i) = n

EventsAt(G, f) == [n \in 1 .. Cardinality(G) |-> EventOf(LineOf(f, Nth(G, n)))]

\* The events on lines that were ended.
Ended(f) == EventsAt(Done(f), f)

LEMMA SegmentFinite ==
    ASSUME NEW n \in Nat, NEW S, S \subseteq 1 .. n
    PROVE  IsFiniteSet(S)
<1>1. IsFiniteSet(1 .. n)
  BY FS_Interval
<1> QED BY <1>1, FS_Subset

\* A finite set of positions, all of them before k.
Below(G, k) == IsFiniteSet(G) /\ G \subseteq Nat /\ k \in Nat /\ \A i \in G : i < k

\* A greatest position has the next rank, and leaves the others theirs.
LEMMA RankTop ==
    ASSUME NEW G, NEW k, Below(G, k)
    PROVE  /\ Cardinality(G) \in Nat /\ Cardinality(G \cup {k}) = Cardinality(G) + 1
           /\ Rank(G \cup {k}, k) = Cardinality(G) + 1
           /\ \A i \in G : /\ Rank(G \cup {k}, i) = Rank(G, i)
                           /\ Rank(G, i) \in Nat /\ Rank(G, i) <= Cardinality(G)
<1> DEFINE H == G \cup {k}
           c == Cardinality(G)
<1>1. IsFiniteSet(G) /\ c \in Nat /\ k \in Nat /\ \A i \in G : i \in Nat /\ i < k
  BY FS_CardinalityType DEF Below
<1>2. k \notin G /\ Cardinality(H) = c + 1
  <2>1. k \notin G
    BY <1>1
  <2> QED BY <1>1, <2>1, FS_AddElement
<1>3. ASSUME NEW i \in G
      PROVE  Rank(H, i) = Rank(G, i) /\ Rank(G, i) \in Nat /\ Rank(G, i) <= c
  <2>1. {j \in H : j <= i} = {j \in G : j <= i}
    <3>1. ~(k <= i)
      BY <1>1
    <3> QED BY <3>1
  <2>2. {j \in G : j <= i} \subseteq G
    OBVIOUS
  <2>3. Rank(G, i) \in Nat /\ Rank(G, i) <= c
    BY <1>1, <2>2, FS_Subset, FS_CardinalityType DEF Rank
  <2> QED BY <2>1, <2>3 DEF Rank
<1>4. Rank(H, k) = c + 1
  <2>1. \A j \in H : j <= k
    BY <1>1
  <2>2. {j \in H : j <= k} = H
    BY <2>1
  <2> QED BY <1>2, <2>2 DEF Rank
<1> QED BY <1>1, <1>2, <1>3, <1>4

\* Every rank up to the number of positions is taken: there is no least
\* bound on the positions at which this fails.
LEMMA RanksTaken ==
    ASSUME NEW m \in Nat, NEW G, G \subseteq 1 .. m, NEW n \in 1 .. Cardinality(G)
    PROVE  \E i \in G : Rank(G, i) = n
<1> DEFINE Ranked(F) == \A r \in 1 .. Cardinality(F) : \E i \in F : Rank(F, i) = r
           B == {b \in Nat : \E F \in SUBSET (1 .. b) : ~Ranked(F)}
<1>1. B = {}
  <2> SUFFICES ASSUME B # {} PROVE FALSE
    OBVIOUS
  <2>1. PICK b \in B : \A a \in B : b <= a
    BY LeastOf
  <2>2. PICK F \in SUBSET (1 .. b) : ~Ranked(F)
    BY <2>1
  <2>3. F # {}
    BY <2>2, FS_EmptySet
  <2>4. b \in Nat /\ b # 0
    <3>1. PICK x \in F : TRUE
      BY <2>3
    <3> QED BY <2>1, <2>2, <3>1
  <2>5. PICK a \in Nat : a = b - 1
    BY <2>4
  <2>6. a \notin B
    <3>1. ~(b <= a)
      BY <2>4, <2>5
    <3> QED BY <2>1, <3>1
  <2>7. b \in F
    <3> SUFFICES ASSUME b \notin F PROVE F \in SUBSET (1 .. a)
      BY <2>2, <2>6
    <3> QED BY <2>4, <2>5
  <2> DEFINE E == F \ {b}
  <2>8. E \in SUBSET (1 .. a) /\ F = E \cup {b} /\ Below(E, b)
    <3>1. E \in SUBSET (1 .. a)
      BY <2>4, <2>5
    <3>2. IsFiniteSet(E)
      BY <3>1, SegmentFinite
    <3> QED BY <2>4, <2>5, <2>7, <3>1, <3>2 DEF Below
  <2>9. Ranked(E)
    BY <2>6, <2>8
  <2> HIDE DEF E
  <2>10. /\ Cardinality(E) \in Nat /\ Cardinality(F) = Cardinality(E) + 1
         /\ Rank(F, b) = Cardinality(E) + 1 /\ \A i \in E : Rank(F, i) = Rank(E, i)
    BY <2>8, RankTop
  <2>11. ASSUME NEW r \in 1 .. Cardinality(F)
         PROVE  \E i \in F : Rank(F, i) = r
    <3>1. CASE r = Cardinality(E) + 1
      BY <2>7, <2>10, <3>1
    <3>2. CASE r \in 1 .. Cardinality(E)
      <4>1. PICK i \in E : Rank(E, i) = r
        BY <2>9, <3>2
      <4> QED BY <2>8, <2>10, <4>1
    <3> QED BY <2>10, <3>1, <3>2
  <2> QED BY <2>2, <2>11
<1>2. m \notin B
  BY <1>1
<1>3. Ranked(G)
  BY <1>2
<1> QED BY <1>3

LEMMA AppendIs ==
    ASSUME NEW S, NEW s \in Seq(S), NEW x \in S, NEW n, n = Len(s)
    PROVE  Append(s, x) = [i \in 1 .. n + 1 |-> IF i = n + 1 THEN x ELSE s[i]]
<1>1. /\ Append(s, x) \in Seq(S) /\ DOMAIN Append(s, x) = 1 .. n + 1
      /\ \A i \in 1 .. n + 1 : Append(s, x)[i] = IF i = n + 1 THEN x ELSE s[i]
  OBVIOUS
<1>2. Append(s, x) = [i \in DOMAIN Append(s, x) |-> Append(s, x)[i]]
  BY <1>1, LenProperties
<1> QED BY <1>1, <1>2

\* The positions H are those in G and then k.
Grows(G, H, k) ==
    k \in Nat /\ H = G \cup {k} /\ \E m \in Nat : m < k /\ G \subseteq 1 .. m

SameLines(G, f, g) == \A i \in G : LineOf(g, i) = LineOf(f, i)

\* A greatest position adds its event at the end.
LEMMA OneMoreEvent ==
    ASSUME NEW f, NEW g, NEW G, NEW H, NEW k, Grows(G, H, k), SameLines(G, f, g)
    PROVE  EventsAt(H, g) = Append(EventsAt(G, f), EventOf(LineOf(g, k)))
<1>m. PICK m \in Nat : m < k /\ G \subseteq 1 .. m
  BY DEF Grows
<1>h. k \in Nat /\ H = G \cup {k} /\ \A i \in G : LineOf(g, i) = LineOf(f, i)
  BY DEF Grows, SameLines
<1>0. Below(G, k)
  <2>1. IsFiniteSet(G)
    BY <1>m, SegmentFinite
  <2> QED BY <1>m, <1>h, <2>1 DEF Below
<1> DEFINE c == Cardinality(G)
           event(n) == EventOf(LineOf(f, Nth(G, n)))
<1>1. /\ c \in Nat /\ Cardinality(H) = c + 1 /\ Rank(H, k) = c + 1
      /\ \A i \in G : Rank(H, i) = Rank(G, i) /\ Rank(G, i) \in Nat /\ Rank(G, i) <= c
  <2>1. /\ Cardinality(G) \in Nat /\ Cardinality(G \cup {k}) = Cardinality(G) + 1
        /\ Rank(G \cup {k}, k) = Cardinality(G) + 1
        /\ \A i \in G : /\ Rank(G \cup {k}, i) = Rank(G, i)
                        /\ Rank(G, i) \in Nat /\ Rank(G, i) <= Cardinality(G)
    BY <1>0, RankTop
  <2> QED BY <1>h, <2>1
<1> HIDE DEF c
<1>2. ASSUME NEW n \in 1 .. c
      PROVE  Nth(G, n) \in G /\ Nth(H, n) = Nth(G, n)
  <2>1. n \in Nat /\ n # c + 1
    BY <1>1
  <2>2. \A i : i \in H /\ Rank(H, i) = n <=> i \in G /\ Rank(G, i) = n
    BY <1>h, <1>1, <2>1
  <2>3. \E i \in G : Rank(G, i) = n
    BY <1>m, RanksTaken DEF c
  <2> QED BY <2>2, <2>3 DEF Nth
<1>3. Nth(H, c + 1) = k
  <2>1. \A i \in H : Rank(H, i) = c + 1 <=> i = k
    <3>1. \A i \in G : Rank(G, i) # c + 1
      BY <1>1
    <3>2. k \notin G
      BY <1>0 DEF Below
    <3> QED BY <1>h, <1>1, <3>1, <3>2
  <2>2. k \in H
    BY <1>h
  <2> QED BY <2>1, <2>2 DEF Nth
<1>4. EventsAt(G, f) = [n \in 1 .. c |-> event(n)]
  BY DEF EventsAt, c
<1>5. EventsAt(H, g) = [n \in 1 .. c + 1 |-> EventOf(LineOf(g, Nth(H, n)))]
  BY <1>1 DEF EventsAt
<1>6. \A n \in 1 .. c : EventOf(LineOf(g, Nth(H, n))) = event(n)
  BY <1>h, <1>2
<1> HIDE DEF event
<1>7. Len(EventsAt(G, f)) = c
  BY <1>1, <1>4
<1>8. Append(EventsAt(G, f), EventOf(LineOf(g, k)))
         = [n \in 1 .. c + 1 |-> IF n = c + 1 THEN EventOf(LineOf(g, k)) ELSE EventsAt(G, f)[n]]
  <2> DEFINE S == {event(n) : n \in 1 .. c} \cup {EventOf(LineOf(g, k))}
  <2>1. EventsAt(G, f) \in Seq(S) /\ EventOf(LineOf(g, k)) \in S
    BY <1>1, <1>4
  <2> HIDE DEF S
  <2> QED BY <1>7, <2>1, AppendIs
<1>9. \A n \in 1 .. c + 1 :
         EventOf(LineOf(g, Nth(H, n)))
           = IF n = c + 1 THEN EventOf(LineOf(g, k)) ELSE EventsAt(G, f)[n]
  <2>1. ASSUME NEW n \in 1 .. c
        PROVE  n # c + 1 /\ EventOf(LineOf(g, Nth(H, n))) = EventsAt(G, f)[n]
    <3>1. n # c + 1
      BY <1>1
    <3>2. EventsAt(G, f)[n] = event(n)
      BY <1>4
    <3> QED BY <1>6, <3>1, <3>2
  <2>2. \A n \in 1 .. c + 1 : n = c + 1 \/ n \in 1 .. c
    BY <1>1
  <2> QED BY <1>3, <2>1, <2>2
<1> QED BY <1>5, <1>8, <1>9

LEMMA SameEvents ==
    ASSUME NEW f, NEW g, NEW m \in Nat, NEW G, G \subseteq 1 .. m,
           \A i \in G : LineOf(g, i) = LineOf(f, i)
    PROVE  EventsAt(G, g) = EventsAt(G, f)
<1>1. ASSUME NEW n \in 1 .. Cardinality(G)
      PROVE  LineOf(g, Nth(G, n)) = LineOf(f, Nth(G, n))
  <2>1. \E i \in G : Rank(G, i) = n
    BY RanksTaken
  <2> QED BY <2>1 DEF Nth
<1> QED BY <1>1 DEF EventsAt

LEMMA EndsIn ==
    ASSUME NEW f \in Seq(Token)
    PROVE  /\ Len(f) \in Nat /\ Ends(f) \subseteq 1 .. Len(f)
           /\ Bad(f) \subseteq 1 .. Len(f) /\ Done(f) \subseteq 1 .. Len(f)
BY DEF Ends, Bad, Done

\* What the lines that were ended hold: events only, those of a.
Sound(f, a) == Bad(f) = {} /\ Ended(f) = a

\* The last line was ended and is malformed.
BadEnd(f) == Bad(f) = {Len(f)} /\ Open(f) = <<>>

\* A malformed line is followed by something.
Rotten(f) == \E i \in Bad(f) : i # Len(f)

LEMMA InsideKeeps ==
    ASSUME NEW f \in Seq(Token), NEW s \in Seq(Token \ Breaks)
    PROVE  Bad(f \o s) = Bad(f) /\ Ended(f \o s) = Ended(f)
<1> DEFINE g == f \o s
<1>1. Extends(g, f) /\ Ends(g) = Ends(f)
  BY AddInside
<1>2. Len(f) \in Nat /\ Ends(f) \subseteq 1 .. Len(f)
  BY EndsIn
<1> HIDE DEF g
<1>3. \A i \in Ends(f) : LineOf(g, i) = LineOf(f, i)
  BY <1>1, <1>2, LinesKept
<1>4. Bad(g) = Bad(f) /\ Done(g) = Done(f)
  BY <1>1, <1>3 DEF Bad, Done
<1>5. Done(f) \subseteq 1 .. Len(f) /\ \A i \in Done(f) : LineOf(g, i) = LineOf(f, i)
  BY <1>2, <1>3 DEF Done
<1>6. EventsAt(Done(f), g) = EventsAt(Done(f), f)
  BY <1>2, <1>5, SameEvents
<1> QED BY <1>4, <1>6 DEF Ended, g

\* The line end that completes an event, or a malformed line.
LEMMA BreakEnds ==
    ASSUME NEW f \in Seq(Token), NEW t \in Breaks, Open(f) # <<>>
    PROVE  IF Parses(Open(f))
           THEN /\ Bad(Append(f, t)) = Bad(f)
                /\ Ended(Append(f, t)) = Append(Ended(f), EventOf(Open(f)))
           ELSE /\ Bad(Append(f, t)) = Bad(f) \cup {Len(f) + 1}
                /\ Ended(Append(f, t)) = Ended(f)
<1> DEFINE g == Append(f, t)
           n == Len(f) + 1
<1>1. Extends(g, f) /\ Ends(g) = Ends(f) \cup {n} /\ LineOf(g, n) = Open(f)
  BY AddBreak
<1>2. Len(f) \in Nat /\ Ends(f) \subseteq 1 .. Len(f) /\ n \in Nat /\ Len(f) < n
  BY EndsIn
<1> HIDE DEF g, n
<1>3. \A i \in Ends(f) : LineOf(g, i) = LineOf(f, i)
  BY <1>1, <1>2, LinesKept
<1>4. Done(f) \subseteq 1 .. Len(f) /\ \A i \in Done(f) : LineOf(g, i) = LineOf(f, i)
  BY <1>2, <1>3 DEF Done
<1>5. CASE Parses(Open(f))
  <2>1. Bad(g) = Bad(f) /\ Done(g) = Done(f) \cup {n}
    <3>1. \A i : i \in Ends(g) <=> i \in Ends(f) \/ i = n
      BY <1>1
    <3>2. Parses(LineOf(g, n))
      BY <1>1, <1>5
    <3>3. Bad(g) = Bad(f)
      BY <1>3, <3>1, <3>2 DEF Bad
    <3>4. Done(g) = Done(f) \cup {n}
      BY <1>3, <3>1, <3>2 DEF Done
    <3> QED BY <3>3, <3>4
  <2>2. EventsAt(Done(g), g) = Append(EventsAt(Done(f), f), EventOf(LineOf(g, n)))
    <3>1. Grows(Done(f), Done(g), n)
      BY <1>2, <1>4, <2>1 DEF Grows
    <3>2. SameLines(Done(f), f, g)
      BY <1>4 DEF SameLines
    <3> QED BY <3>1, <3>2, OneMoreEvent
  <2> QED BY <1>1, <1>5, <2>1, <2>2 DEF Ended, g
<1>6. CASE ~Parses(Open(f))
  <2>1. Bad(g) = Bad(f) \cup {n} /\ Done(g) = Done(f)
    <3>1. \A i : i \in Ends(g) <=> i \in Ends(f) \/ i = n
      BY <1>1
    <3>2. LineOf(g, n) # <<>> /\ ~Parses(LineOf(g, n))
      BY <1>1, <1>6
    <3>3. Bad(g) = Bad(f) \cup {n}
      BY <1>3, <3>1, <3>2 DEF Bad
    <3>4. Done(g) = Done(f)
      BY <1>3, <3>1, <3>2 DEF Done
    <3> QED BY <3>3, <3>4
  <2>2. EventsAt(Done(f), g) = EventsAt(Done(f), f)
    BY <1>2, <1>4, SameEvents
  <2> QED BY <1>6, <2>1, <2>2 DEF Ended, g, n
<1> QED BY <1>5, <1>6

\* Whatever follows a malformed line, it stays one.
LEMMA BadStays ==
    ASSUME NEW f, NEW g, Extends(g, f), Bad(f) # {}, Len(f) < Len(g)
    PROVE  Rotten(g)
<1>1. f \in Seq(Token) /\ g \in Seq(Token) /\ Len(f) \in Nat /\ Len(g) \in Nat
  BY DEF Extends
<1>2. PICK i \in Bad(f) : TRUE
  OBVIOUS
<1>3. i \in 1 .. Len(f) /\ i \in Ends(f)
  BY <1>1, <1>2, EndsIn DEF Bad
<1>4. i \in Ends(g)
  BY <1>1, <1>3 DEF Ends, Extends
<1>5. LineOf(g, i) = LineOf(f, i)
  BY <1>1, <1>3, LinesKept
<1>6. i \in Bad(g) /\ i # Len(g)
  BY <1>1, <1>2, <1>3, <1>4, <1>5 DEF Bad
<1> QED BY <1>6 DEF Rotten

-----------------------------------------------------------------------------
(* What a writer adds *)

LEMMA Pair ==
    ASSUME NEW S, NEW s \in Seq(S), Len(s) = 2, NEW a \in S, NEW b \in S,
           s[1] = a, s[2] = b
    PROVE  s = <<a, b>>
<1> DEFINE t == <<a, b>>
<1>1. t \in Seq(S) /\ Len(t) = 2 /\ t[1] = a /\ t[2] = b
  OBVIOUS
<1> HIDE DEF t
<1>2. \A i \in 1 .. 2 : s[i] = t[i]
  BY <1>1
<1>3. s = t
  BY <1>1, <1>2, SeqEqual
<1> QED BY <1>3 DEF t

LEMMA Triple ==
    ASSUME NEW S, NEW s \in Seq(S), Len(s) = 3, NEW a \in S, NEW b \in S, NEW c \in S,
           s[1] = a, s[2] = b, s[3] = c
    PROVE  s = <<a, b, c>>
<1> DEFINE t == <<a, b, c>>
<1>1. t \in Seq(S) /\ Len(t) = 3 /\ t[1] = a /\ t[2] = b /\ t[3] = c
  OBVIOUS
<1> HIDE DEF t
<1>2. \A i \in 1 .. 3 : s[i] = t[i]
  BY <1>1
<1>3. s = t
  BY <1>1, <1>2, SeqEqual
<1> QED BY <1>3 DEF t

LEMMA Quadruple ==
    ASSUME NEW S, NEW s \in Seq(S), Len(s) = 4, NEW a \in S, NEW b \in S, NEW c \in S, NEW d \in S,
           s[1] = a, s[2] = b, s[3] = c, s[4] = d
    PROVE  s = <<a, b, c, d>>
<1> DEFINE t == <<a, b, c, d>>
<1>1. t \in Seq(S) /\ Len(t) = 4 /\ t[1] = a /\ t[2] = b /\ t[3] = c /\ t[4] = d
  OBVIOUS
<1> HIDE DEF t
<1>2. \A i \in 1 .. 4 : s[i] = t[i]
  BY <1>1
<1>3. s = t
  BY <1>1, <1>2, SeqEqual
<1> QED BY <1>3 DEF t

LEMMA TwoTokens ==
    ASSUME NEW S, NEW a \in S, NEW b \in S
    PROVE  <<a>> \o <<b>> = <<a, b>>
<1>1. <<a>> \in Seq(S)
  OBVIOUS
<1>2. Append(<<a>>, b) = <<a>> \o <<b>>
  BY <1>1, AppendIsConcat
<1>3. /\ Append(<<a>>, b) \in Seq(S) /\ Len(Append(<<a>>, b)) = 2
      /\ Append(<<a>>, b)[1] = a /\ Append(<<a>>, b)[2] = b
  BY <1>1
<1>4. Append(<<a>>, b) = <<a, b>>
  BY <1>3, Pair
<1> QED BY <1>2, <1>4

LEMMA ThreeTokens ==
    ASSUME NEW S, NEW a \in S, NEW b \in S, NEW c \in S
    PROVE  <<a>> \o <<b>> \o <<c>> = <<a, b, c>>
<1> DEFINE s == Append(<<a, b>>, c)
<1>1. <<a, b>> \in Seq(S)
  OBVIOUS
<1>2. s = <<a, b>> \o <<c>>
  BY <1>1, AppendIsConcat
<1>3. s \in Seq(S) /\ Len(s) = 3 /\ s[1] = a /\ s[2] = b /\ s[3] = c
  BY <1>1
<1> HIDE DEF s
<1>4. s = <<a, b, c>>
  BY <1>3, Triple
<1> QED BY <1>2, <1>4, TwoTokens

LEMMA FourTokens ==
    ASSUME NEW S, NEW a \in S, NEW b \in S, NEW c \in S, NEW d \in S
    PROVE  <<a>> \o <<b, c>> \o <<d>> = <<a, b, c, d>>
<1> DEFINE s == Append(<<a, b, c>>, d)
<1>1. <<a, b, c>> \in Seq(S) /\ <<a>> \in Seq(S) /\ <<b>> \in Seq(S) /\ <<c>> \in Seq(S)
  OBVIOUS
<1>2. s = <<a, b, c>> \o <<d>>
  BY <1>1, AppendIsConcat
<1>3. s \in Seq(S) /\ Len(s) = 4 /\ s[1] = a /\ s[2] = b /\ s[3] = c /\ s[4] = d
  BY <1>1
<1> HIDE DEF s
<1>4. s = <<a, b, c, d>>
  BY <1>3, Quadruple
<1>5. (<<a>> \o <<b>>) \o <<c>> = <<a>> \o (<<b>> \o <<c>>)
  BY <1>1, ConcatAssociative
<1>6. <<b>> \o <<c>> = <<b, c>>
  BY TwoTokens
<1>7. <<a>> \o <<b>> \o <<c>> = <<a, b, c>>
  BY ThreeTokens
<1> QED BY <1>2, <1>4, <1>5, <1>6, <1>7

LEMMA JsonIs ==
    ASSUME JsonlAssumption, NEW e \in Events
    PROVE  IF Text[e] = "separator"
           THEN Json(e) = <<Head1(e), Sep, Tail1(e)>>
           ELSE \/ Json(e) = <<Head1(e), Tail1(e)>>
                \/ Json(e) = <<Head1(e), LeadByte, NextByte, Tail1(e)>>
<1> DEFINE H == Head1(e)
           T == Tail1(e)
           s == Sep
           l == LeadByte
           n == NextByte
<1>1. Text[e] \in {"plain", "separator", "wide"}
  BY DEF JsonlAssumption
<1>2. H \in Token /\ T \in Token /\ s \in Token /\ l \in Token /\ n \in Token
  BY TokenFacts
<1>3. /\ Text[e] = "separator" => Json(e) = <<H>> \o <<s>> \o <<T>>
      /\ Text[e] = "plain" => Json(e) = <<H>> \o <<>> \o <<T>>
      /\ Text[e] = "wide" => Json(e) = <<H>> \o <<l, n>> \o <<T>>
  BY DEF Json
<1> HIDE DEF H, T, s, l, n
<1>4. <<H>> \o <<s>> \o <<T>> = <<H, s, T>>
  BY <1>2, ThreeTokens
<1>5. <<H>> \o <<>> \o <<T>> = <<H, T>>
  <2>1. <<H>> \o <<>> = <<H>>
    BY <1>2, ConcatEmptySeq
  <2> QED BY <1>2, <2>1, TwoTokens
<1>6. <<H>> \o <<l, n>> \o <<T>> = <<H, l, n, T>>
  BY <1>2, FourTokens
<1>7. CASE Text[e] = "separator"
  BY <1>3, <1>4, <1>7 DEF H, T, s
<1>8. CASE Text[e] = "plain"
  BY <1>3, <1>5, <1>8 DEF H, T
<1>9. CASE Text[e] = "wide"
  BY <1>3, <1>6, <1>9 DEF H, T, l, n
<1> QED BY <1>1, <1>7, <1>8, <1>9

\* An event has a head, and only at its start, and ends in its tail.
LEMMA JsonShape ==
    ASSUME JsonlAssumption, NEW e \in Events
    PROVE  /\ Json(e) \in Seq(Token) /\ Len(Json(e)) \in Nat /\ Len(Json(e)) >= 2
           /\ Json(e)[1] = Head1(e)
           /\ \A k \in 2 .. Len(Json(e)) : ~IsHead(Json(e)[k])
           /\ Json(e)[Len(Json(e))] = Tail1(e)
           /\ Text[e] # "separator" => Json(e) \in Seq(Token \ Breaks)
<1> DEFINE H == Head1(e)
           T == Tail1(e)
<1>0. /\ H \in Token /\ T \in Token /\ H \notin Breaks /\ T \notin Breaks /\ ~IsHead(T)
      /\ ~IsHead(Sep) /\ ~IsHead(LeadByte) /\ ~IsHead(NextByte)
      /\ Sep \in Token /\ LeadByte \in Token \ Breaks /\ NextByte \in Token \ Breaks
  BY TokenFacts
<1> HIDE DEF H, T
<1>1. CASE Text[e] = "separator" /\ Json(e) = <<H, Sep, T>>
  BY <1>0, <1>1 DEF H, T
<1>2. CASE Json(e) = <<H, T>>
  BY <1>0, <1>2 DEF H, T
<1>3. CASE Json(e) = <<H, LeadByte, NextByte, T>>
  BY <1>0, <1>3 DEF H, T
<1> QED BY <1>1, <1>2, <1>3, JsonIs DEF H, T

\* An event on a line of its own is read; a line with a head further on, or
\* that does not end in a tail, is malformed.
LEMMA ReadsBack ==
    ASSUME JsonlAssumption
    PROVE  /\ \A e \in Events : Parses(Json(e)) /\ EventOf(Json(e)) = e
           /\ ~Parses(<<>>)
           /\ \A u : (\E k \in 2 .. Len(u) : IsHead(u[k])) => ~Parses(u)
           /\ \A u : (\A e \in Events : u[Len(u)] # Tail1(e)) => ~Parses(u)
<1>1. ASSUME NEW e \in Events, NEW d \in Events, Json(e) = Json(d)
      PROVE  e = d
  BY <1>1, JsonShape, TokenFacts
<1>2. ASSUME NEW e \in Events
      PROVE  Parses(Json(e)) /\ EventOf(Json(e)) = e
  BY <1>1 DEF Parses, EventOf
<1>3. ~Parses(<<>>)
  BY JsonShape DEF Parses
<1>4. ASSUME NEW u, NEW k \in 2 .. Len(u), IsHead(u[k])
      PROVE  ~Parses(u)
  BY <1>4, JsonShape DEF Parses
<1>5. ASSUME NEW u, \A e \in Events : u[Len(u)] # Tail1(e)
      PROVE  ~Parses(u)
  BY <1>5, JsonShape DEF Parses
<1> QED BY <1>2, <1>3, <1>4, <1>5

LEMMA OpenTokens ==
    ASSUME NEW f \in Seq(Token)
    PROVE  Open(f) \in Seq(Token) /\ Len(Open(f)) \in Nat
<1> DEFINE b == LineStart(f, Len(f) + 1)
<1>1. Len(f) \in Nat /\ b \in 1 .. Len(f) + 1
  BY StartFacts
<1>2. Open(f) = SubSeq(f, b, Len(f))
  BY OpenIs
<1> HIDE DEF b
<1>3. SubSeq(f, b, Len(f)) \in Seq(Token)
  BY <1>1, SubSeqProperties
<1>4. Open(f) \in Seq(Token)
  BY <1>2, <1>3
<1> QED BY <1>4

LEMMA Glue ==
    ASSUME NEW f \in Seq(Token), NEW s \in Seq(Token)
    PROVE  /\ f \o s \in Seq(Token) /\ Len(f) \in Nat /\ Len(s) \in Nat
           /\ Len(f \o s) = Len(f) + Len(s)
           /\ Extends(f \o s, f)
           /\ \A i \in 1 .. Len(s) : \A k : k = Len(f) + i => (f \o s)[k] = s[i]
<1>1. /\ f \o s \in Seq(Token) /\ Len(f) \in Nat /\ Len(s) \in Nat
      /\ Len(f \o s) = Len(f) + Len(s)
      /\ \A i \in 1 .. Len(f) + Len(s) : (f \o s)[i] = IF i <= Len(f) THEN f[i] ELSE s[i - Len(f)]
  BY ConcatProperties
<1>2. \A i \in 1 .. Len(s) : \A k : k = Len(f) + i => (f \o s)[k] = s[i]
  <2>1. ASSUME NEW i \in 1 .. Len(s), NEW k, k = Len(f) + i
        PROVE  (f \o s)[k] = s[i]
    <3>1. k \in 1 .. Len(f) + Len(s)
      BY <1>1, <2>1
    <3>2. ~(k <= Len(f)) /\ k - Len(f) = i
      BY <1>1, <2>1
    <3> QED BY <1>1, <3>1, <3>2
  <2> QED BY <2>1
<1>3. Extends(f \o s, f)
  BY <1>1 DEF Extends
<1> QED BY <1>1, <1>2, <1>3

LEMMA Piece ==
    ASSUME JsonlAssumption, NEW e \in Events, NEW n \in 1 .. Len(Encode(e))
    PROVE  /\ SubSeq(Encode(e), 1, n) \in Seq(Token)
           /\ Len(SubSeq(Encode(e), 1, n)) = n
           /\ \A i \in 1 .. n : SubSeq(Encode(e), 1, n)[i] = Encode(e)[i]
           /\ Encode(e) \in Seq(Token)
           /\ Len(Encode(e)) = Len(Json(e)) + 1
           /\ \A i \in 1 .. Len(Json(e)) : Encode(e)[i] = Json(e)[i]
<1>1. /\ Encode(e) \in Seq(Token) /\ Len(Encode(e)) = Len(Json(e)) + 1
      /\ \A i \in 1 .. Len(Json(e)) : Encode(e)[i] = Json(e)[i]
  BY JsonShape, TokenFacts, AppendProperties DEF Encode
<1>2. n \in Nat /\ Len(Encode(e)) \in Nat /\ n - 1 + 1 = n
  BY <1>1
<1>3. /\ SubSeq(Encode(e), 1, n) \in Seq(Token)
      /\ Len(SubSeq(Encode(e), 1, n)) = n
      /\ \A i \in 1 .. n : SubSeq(Encode(e), 1, n)[i] = Encode(e)[i]
  BY <1>1, <1>2
<1> QED BY <1>1, <1>3

\* A line separator is in the file.
Split(f) == \E i \in DOMAIN f : f[i] = Sep

LEMMA SplitStays ==
    ASSUME NEW f \in Seq(Token), NEW s \in Seq(Token), Split(f)
    PROVE  Split(f \o s)
<1>1. /\ DOMAIN f = 1 .. Len(f) /\ DOMAIN (f \o s) = 1 .. Len(f \o s)
      /\ Len(f) \in Nat /\ Len(f \o s) \in Nat /\ Len(f) <= Len(f \o s)
      /\ \A i \in 1 .. Len(f) : (f \o s)[i] = f[i]
  BY Glue DEF Extends
<1>2. PICK i \in 1 .. Len(f) : f[i] = Sep
  BY <1>1 DEF Split
<1>3. i \in DOMAIN (f \o s) /\ (f \o s)[i] = Sep
  BY <1>1, <1>2
<1> QED BY <1>3 DEF Split

\* A line separator in a text ends a malformed line.
LEMMA SeparatorSpoils ==
    ASSUME JsonlAssumption, NEW f \in Seq(Token), NEW e \in Events, Text[e] = "separator",
           NEW n \in 2 .. Len(Encode(e)), Bad(f) = {}
    PROVE  LET g == f \o SubSeq(Encode(e), 1, n)
           IN  Split(g) /\ IF n = 2 THEN BadEnd(g) /\ Ended(g) = Ended(f) ELSE Rotten(g)
<1> DEFINE H == Head1(e)
           s == SubSeq(Encode(e), 1, n)
           g == f \o s
           f1 == f \o <<H>>
           f2 == Append(f1, Sep)
<1>1. /\ H \in Token \ Breaks /\ Sep \in Token /\ Sep \in Breaks
      /\ \A d \in Events : H # Tail1(d)
  <2>1. \A d \in Events : IsHead(H) /\ ~IsHead(Tail1(d))
    BY TokenFacts
  <2>2. H \in Token /\ H \notin Breaks
    BY TokenFacts
  <2> QED BY <2>1, <2>2, TokenFacts DEF Breaks
<1>2. n \in 1 .. Len(Encode(e))
  OBVIOUS
<1>3. /\ s \in Seq(Token) /\ Len(s) = n /\ s[1] = H /\ s[2] = Sep
  <2>1. Json(e) = <<H, Sep, Tail1(e)>>
    BY JsonIs
  <2>2. Len(Json(e)) = 3 /\ Json(e)[1] = H /\ Json(e)[2] = Sep
    BY <2>1
  <2> HIDE DEF H
  <2>3. 1 \in 1 .. n /\ 2 \in 1 .. n /\ 1 \in 1 .. 3 /\ 2 \in 1 .. 3
    OBVIOUS
  <2> QED BY <1>2, <2>2, <2>3, Piece
<1> HIDE DEF H, s
<1>4. <<H>> \in Seq(Token) /\ <<H>> \in Seq(Token \ Breaks) /\ Len(<<H>>) = 1 /\ <<H>>[1] = H
  BY <1>1
<1>5. f1 \in Seq(Token) /\ Len(f) \in Nat /\ Len(f1) = Len(f) + 1 /\ f1[Len(f) + 1] = H
      /\ Extends(f1, f) /\ Bad(f1) = {} /\ Ended(f1) = Ended(f) /\ Open(f1) = Open(f) \o <<H>>
  <2>1. f1 \in Seq(Token) /\ Len(f) \in Nat /\ Len(f1) = Len(f) + 1 /\ f1[Len(f) + 1] = H
        /\ Extends(f1, f)
    <3>1. f1 \in Seq(Token) /\ Len(f) \in Nat /\ Len(f1) = Len(f) + Len(<<H>>) /\ Extends(f1, f)
      BY <1>4, Glue
    <3>2. PICK k \in Nat : k = Len(f) + 1
      BY <3>1
    <3>3. f1[k] = <<H>>[1]
      <4>1. 1 \in 1 .. Len(<<H>>) /\ k = Len(f) + 1
        BY <1>4, <3>2
      <4> QED BY <1>4, <4>1, Glue
    <3> QED BY <1>4, <3>1, <3>2, <3>3
  <2>2. Bad(f1) = {} /\ Ended(f1) = Ended(f)
    BY <1>4, InsideKeeps
  <2>3. Open(f1) = Open(f) \o <<H>>
    BY <1>4, AddInside
  <2> QED BY <2>1, <2>2, <2>3
<1> HIDE DEF f1
<1>6. Open(f1) # <<>> /\ ~Parses(Open(f1))
  <2>1. Open(f) \in Seq(Token) /\ Len(Open(f)) \in Nat
    BY OpenTokens
  <2>2. Len(Open(f1)) = Len(Open(f)) + 1 /\ Open(f1)[Len(Open(f)) + 1] = H
    <3>1. Len(Open(f1)) = Len(Open(f)) + Len(<<H>>)
      BY <1>4, <1>5, <2>1, Glue
    <3>2. PICK k \in Nat : k = Len(Open(f)) + 1
      BY <2>1
    <3>3. Open(f1)[k] = <<H>>[1]
      <4>1. 1 \in 1 .. Len(<<H>>) /\ k = Len(Open(f)) + 1
        BY <1>4, <3>2
      <4> QED BY <1>4, <1>5, <2>1, <4>1, Glue
    <3> QED BY <1>4, <3>1, <3>2, <3>3
  <2>3. Open(f1)[Len(Open(f1))] = H
    BY <2>2
  <2> QED BY <1>1, <2>1, <2>2, <2>3, ReadsBack
<1>7. /\ Bad(f2) = {Len(f1) + 1} /\ Ended(f2) = Ended(f) /\ Open(f2) = <<>>
      /\ Extends(f2, f1) /\ Len(f2) = Len(f1) + 1
  BY <1>1, <1>5, <1>6, BreakEnds, AddBreak
<1>8. f2 \in Seq(Token) /\ f2[Len(f) + 2] = Sep
  BY <1>1, <1>5
<1> HIDE DEF f2
<1>9. /\ g \in Seq(Token) /\ Len(g) = Len(f) + n /\ Extends(g, f)
      /\ g[Len(f) + 1] = H /\ g[Len(f) + 2] = Sep
  <2>1. g \in Seq(Token) /\ Len(f) \in Nat /\ Len(g) = Len(f) + Len(s) /\ Extends(g, f)
    BY <1>3, Glue
  <2>2. PICK k \in Nat, l \in Nat : k = Len(f) + 1 /\ l = Len(f) + 2
    BY <2>1
  <2>3. g[k] = s[1] /\ g[l] = s[2]
    <3>1. 1 \in 1 .. Len(s) /\ 2 \in 1 .. Len(s) /\ k = Len(f) + 1 /\ l = Len(f) + 2
      BY <1>2, <1>3, <2>2
    <3> QED BY <1>3, <3>1, Glue
  <2> QED BY <1>3, <2>1, <2>2, <2>3
<1> HIDE DEF g
<1>10. Len(f2) = Len(f) + 2 /\ n \in Nat /\ 2 <= n /\ Len(f) \in Nat
  BY <1>5, <1>7
<1>11. Extends(g, f2)
  <2>1. ASSUME NEW j \in 1 .. Len(f2)
        PROVE  g[j] = f2[j]
    <3>1. CASE j \in 1 .. Len(f)
      <4>1. g[j] = f[j] /\ f1[j] = f[j] /\ j \in 1 .. Len(f1)
        BY <1>5, <1>9, <1>10, <3>1 DEF Extends
      <4> QED BY <1>7, <4>1 DEF Extends
    <3>2. CASE j = Len(f) + 1
      <4>1. j \in 1 .. Len(f1) /\ f1[j] = H
        BY <1>5, <3>2
      <4> QED BY <1>7, <1>9, <3>2, <4>1 DEF Extends
    <3>3. CASE j = Len(f) + 2
      BY <1>8, <1>9, <3>3
    <3> QED BY <1>10, <3>1, <3>2, <3>3
  <2> QED BY <1>8, <1>9, <1>10, <2>1 DEF Extends
<1>s. Split(g)
  <2>1. Len(f) + 2 \in DOMAIN g
    <3>1. DOMAIN g = 1 .. Len(g)
      BY <1>9
    <3> QED BY <1>9, <1>10, <3>1
  <2> QED BY <1>9, <2>1 DEF Split
<1>12. CASE n = 2
  <2>1. Len(g) = Len(f2) /\ \A j \in 1 .. Len(f2) : g[j] = f2[j]
    BY <1>9, <1>10, <1>11, <1>12 DEF Extends
  <2>2. g = f2
    BY <1>8, <1>9, <2>1, SeqEqual
  <2>3. BadEnd(g) /\ Ended(g) = Ended(f)
    BY <1>7, <2>2 DEF BadEnd
  <2> QED BY <1>s, <1>12, <2>3 DEF g, s
<1>13. CASE n # 2
  <2>1. Bad(f2) # {} /\ Len(f2) < Len(g)
    BY <1>7, <1>9, <1>10, <1>13
  <2>2. Rotten(g)
    BY <1>11, <2>1, BadStays
  <2> QED BY <1>s, <1>13, <2>2 DEF g, s
<1> QED BY <1>12, <1>13

\* The line end after an event, when its text holds none.
LEMMA EncodeIs ==
    ASSUME JsonlAssumption, NEW f \in Seq(Token), NEW e \in Events
    PROVE  f \o Encode(e) = Append(f \o Json(e), NewLine)
<1> DEFINE j == Json(e)
           t == NewLine
<1>1. f \in Seq(Token) /\ j \in Seq(Token) /\ t \in Token /\ Encode(e) = Append(j, t)
  BY JsonShape, TokenFacts DEF Encode
<1> HIDE DEF j, t
<1>2. f \o j \in Seq(Token) /\ <<t>> \in Seq(Token)
  BY <1>1, ConcatProperties
<1>3. Append(j, t) = j \o <<t>> /\ Append(f \o j, t) = (f \o j) \o <<t>>
  BY <1>1, <1>2, AppendIsConcat
<1>4. (f \o j) \o <<t>> = f \o (j \o <<t>>)
  BY <1>1, <1>2, ConcatAssociative
<1> QED BY <1>1, <1>3, <1>4 DEF j, t

\* An append that completes.
LEMMA WholeAppend ==
    ASSUME JsonlAssumption, NEW f \in Seq(Token), NEW e \in Events
    PROVE  LET g == f \o Encode(e)
           IN  /\ g \in Seq(Token) /\ Extends(g, f) /\ Len(f) < Len(g)
               /\ Bad(f) # {} => Rotten(g)
               /\ Bad(f) = {} /\ Text[e] = "separator" => Split(g) /\ Rotten(g)
               /\ Bad(f) = {} /\ Text[e] # "separator" /\ Open(f) = <<>> =>
                     Bad(g) = {} /\ Ended(g) = Append(Ended(f), e) /\ Open(g) = <<>>
               /\ Bad(f) = {} /\ Text[e] # "separator" /\ Open(f) # <<>> =>
                     BadEnd(g) /\ Ended(g) = Ended(f)
<1> DEFINE g == f \o Encode(e)
           j == Json(e)
           f1 == f \o j
           n == Len(Encode(e))
<1>1. /\ j \in Seq(Token) /\ Len(j) \in Nat /\ Len(j) >= 2 /\ j[1] = Head1(e)
      /\ (Text[e] # "separator" => j \in Seq(Token \ Breaks))
      /\ Parses(j) /\ EventOf(j) = e
  BY JsonShape, ReadsBack
<1>2. NewLine \in Token /\ NewLine \in Breaks /\ IsHead(Head1(e))
  BY TokenFacts DEF Breaks
<1>3. Encode(e) \in Seq(Token) /\ n = Len(j) + 1 /\ n \in Nat
  <2>1. Encode(e) = Append(j, NewLine)
    BY DEF Encode
  <2> HIDE DEF j
  <2> QED BY <1>1, <1>2, <2>1, AppendProperties
<1>4. g \in Seq(Token) /\ Extends(g, f) /\ Len(f) \in Nat /\ Len(g) = Len(f) + n
  BY <1>3, Glue
<1>5. Len(f) < Len(g)
  BY <1>1, <1>3, <1>4
<1>6. Bad(f) # {} => Rotten(g)
  BY <1>4, <1>5, BadStays
<1>7. ASSUME Bad(f) = {}, Text[e] = "separator"
      PROVE  Split(g) /\ Rotten(g)
  <2>1. n \in 2 .. Len(Encode(e)) /\ n # 2
    BY <1>1, <1>3
  <2>2. SubSeq(Encode(e), 1, n) = Encode(e)
    <3>1. \A s \in Seq(Token) : SubSeq(s, 1, Len(s)) = s
      BY SubSeqFull
    <3> QED BY <1>3, <3>1
  <2>3. /\ Split(f \o SubSeq(Encode(e), 1, n))
        /\ IF n = 2
           THEN /\ BadEnd(f \o SubSeq(Encode(e), 1, n))
                /\ Ended(f \o SubSeq(Encode(e), 1, n)) = Ended(f)
           ELSE Rotten(f \o SubSeq(Encode(e), 1, n))
    <3> HIDE DEF n
    <3> QED BY <1>7, <2>1, SeparatorSpoils
  <2> QED BY <2>1, <2>2, <2>3
<1>8. ASSUME Bad(f) = {}, Text[e] # "separator"
      PROVE  /\ Open(f) = <<>> => Bad(g) = {} /\ Ended(g) = Append(Ended(f), e) /\ Open(g) = <<>>
             /\ Open(f) # <<>> => BadEnd(g) /\ Ended(g) = Ended(f)
  <2>1. g = Append(f1, NewLine)
    BY EncodeIs
  <2>2. j \in Seq(Token \ Breaks)
    BY <1>1, <1>8
  <2> HIDE DEF g, j
  <2>3. Bad(f1) = {} /\ Ended(f1) = Ended(f) /\ Open(f1) = Open(f) \o j
    BY <1>8, <2>2, InsideKeeps, AddInside
  <2>4. f1 \in Seq(Token) /\ Len(f1) \in Nat
    BY <1>1, Glue
  <2> HIDE DEF f1
  <2>5. Open(f) \in Seq(Token) /\ Len(Open(f)) \in Nat
    BY OpenTokens
  <2>6. Len(Open(f1)) = Len(Open(f)) + Len(j)
    BY <1>1, <2>3, <2>5, Glue
  <2>7. Open(f1) # <<>>
    <3>1. Len(Open(f1)) # 0
      BY <1>1, <2>5, <2>6
    <3> QED BY <3>1, EmptySeq
  <2>8. Open(g) = <<>> /\ Len(g) = Len(f1) + 1
    BY <1>2, <2>1, <2>4, AddBreak
  <2>9. CASE Open(f) = <<>>
    <3>1. Open(f1) = j
      BY <1>1, <2>3, <2>9, ConcatEmptySeq
    <3>2. Bad(g) = {} /\ Ended(g) = Append(Ended(f), e)
      BY <1>1, <1>2, <2>1, <2>3, <2>4, <2>7, <3>1, BreakEnds
    <3> QED BY <2>8, <2>9, <3>2
  <2>10. CASE Open(f) # <<>>
    <3>1. Len(Open(f)) # 0
      BY <2>5, <2>10, EmptySeq
    <3>2. PICK k \in Nat : k = Len(Open(f)) + 1
      BY <2>5
    <3>3. Open(f1)[k] = j[1]
      <4>1. 1 \in 1 .. Len(j) /\ k = Len(Open(f)) + 1
        BY <1>1, <3>2
      <4> QED BY <1>1, <2>3, <2>5, <4>1, Glue
    <3>4. k \in 2 .. Len(Open(f1)) /\ IsHead(Open(f1)[k])
      BY <1>1, <1>2, <2>5, <2>6, <3>1, <3>2, <3>3
    <3>5. ~Parses(Open(f1))
      BY <3>4, ReadsBack
    <3>6. Bad(g) = {Len(f1) + 1} /\ Ended(g) = Ended(f)
      BY <1>2, <2>1, <2>3, <2>4, <2>7, <3>5, BreakEnds
    <3> QED BY <2>8, <2>10, <3>6 DEF BadEnd
  <2> QED BY <2>9, <2>10
<1> HIDE DEF g
<1>9. QED BY <1>4, <1>5, <1>6, <1>7, <1>8 DEF g

\* An append that does not complete.
LEMMA TornPart ==
    ASSUME JsonlAssumption, NEW f \in Seq(Token), NEW e \in Events,
           NEW n \in 0 .. Len(Encode(e)) - 1
    PROVE  LET g == f \o SubSeq(Encode(e), 1, n)
           IN  /\ g \in Seq(Token)
               /\ n = 0 => g = f
               /\ n # 0 /\ Bad(f) # {} => Rotten(g)
               /\ Bad(f) = {} =>
                     \/ Bad(g) = {} /\ Ended(g) = Ended(f)
                     \/ Split(g) /\ Rotten(g)
                     \/ Split(g) /\ BadEnd(g) /\ Ended(g) = Ended(f)
<1> DEFINE s == SubSeq(Encode(e), 1, n)
           g == f \o s
<1>1. CASE n = 0
  <2>1. s = <<>>
    BY <1>1, SubSeqEmpty
  <2>2. g = f
    BY <2>1, ConcatEmptySeq
  <2> HIDE DEF g
  <2>3. QED BY <1>1, <2>2 DEF g, s
<1>2. CASE n # 0
  <2>1. /\ Len(Json(e)) \in Nat /\ Len(Encode(e)) = Len(Json(e)) + 1
    <3>1. NewLine \in Token /\ Json(e) \in Seq(Token) /\ Len(Json(e)) \in Nat
      BY JsonShape, TokenFacts
    <3> QED BY <3>1, AppendProperties DEF Encode
  <2>2. n \in 1 .. Len(Encode(e)) /\ n \in 1 .. Len(Json(e))
    BY <1>2, <2>1
  <2>3. /\ s \in Seq(Token) /\ Len(s) = n
        /\ \A i \in 1 .. n : s[i] = Json(e)[i]
    <3>1. /\ SubSeq(Encode(e), 1, n) \in Seq(Token)
          /\ Len(SubSeq(Encode(e), 1, n)) = n
          /\ \A i \in 1 .. n : SubSeq(Encode(e), 1, n)[i] = Encode(e)[i]
          /\ \A i \in 1 .. Len(Json(e)) : Encode(e)[i] = Json(e)[i]
      BY <2>2, Piece
    <3>2. \A i \in 1 .. n : i \in 1 .. Len(Json(e))
      BY <2>1, <2>2
    <3> QED BY <3>1, <3>2
  <2> HIDE DEF s
  <2>4. g \in Seq(Token) /\ Extends(g, f) /\ Len(f) \in Nat /\ Len(g) = Len(f) + n
    BY <2>3, Glue
  <2> HIDE DEF g
  <2>5. Bad(f) # {} => Rotten(g)
    <3>1. Len(f) < Len(g)
      BY <2>2, <2>4
    <3> QED BY <2>4, <3>1, BadStays
  <2>6. ASSUME s \in Seq(Token \ Breaks)
        PROVE  Bad(g) = Bad(f) /\ Ended(g) = Ended(f)
    BY <2>6, InsideKeeps DEF g
  <2>7. CASE Text[e] # "separator"
    <3>1. Json(e) \in Seq(Token \ Breaks)
      BY <2>7, JsonShape
    <3>2. \A i \in 1 .. n : s[i] \in Token \ Breaks
      BY <2>1, <2>2, <2>3, <3>1
    <3>3. s \in Seq(Token \ Breaks)
      BY <2>3, <3>2
    <3> QED BY <1>2, <2>4, <2>5, <2>6, <3>3 DEF g, s
  <2>8. CASE Text[e] = "separator" /\ n = 1
    <3>1. s[1] = Head1(e)
      BY <2>3, <2>8, JsonShape
    <3>2. s[1] \in Token \ Breaks
      BY <3>1, TokenFacts
    <3>3. \A i \in 1 .. n : s[i] \in Token \ Breaks
      BY <2>8, <3>2
    <3>4. s \in Seq(Token \ Breaks)
      BY <2>3, <3>3
    <3> QED BY <1>2, <2>4, <2>5, <2>6, <3>4 DEF g, s
  <2>9. CASE Text[e] = "separator" /\ n # 1
    <3>1. n \in 2 .. Len(Encode(e))
      BY <2>1, <2>2, <2>9
    <3>2. ASSUME Bad(f) = {}
          PROVE  Split(g) /\ IF n = 2 THEN BadEnd(g) /\ Ended(g) = Ended(f) ELSE Rotten(g)
      BY <2>9, <3>1, <3>2, SeparatorSpoils DEF g, s
    <3> QED BY <1>2, <2>4, <2>5, <2>9, <3>2 DEF g, s
  <2> QED BY <2>7, <2>8, <2>9
<1> QED BY <1>1, <1>2

-----------------------------------------------------------------------------
(* What read_jsonl makes of a file *)

LEMMA GreatestIs ==
    ASSUME NEW S, S \subseteq Nat, NEW n \in S, \A k \in S : k <= n
    PROVE  Greatest(S) = n
<1>1. Greatest(S) \in S /\ \A k \in S : k <= Greatest(S)
  BY DEF Greatest
<1>2. Greatest(S) \in Nat /\ n \in Nat /\ Greatest(S) <= n /\ n <= Greatest(S)
  BY <1>1
<1> QED BY <1>2

\* Where the lines of a file stop.
LEMMA Stops ==
    ASSUME NEW f \in Seq(Token)
    PROVE  /\ Open(f) = <<>> <=> (f = <<>> \/ Len(f) \in Ends(f))
           /\ f = <<>> => Ends(f) = {}
<1> DEFINE m == Len(f)
           b == LineStart(f, m + 1)
           E == Before(f, m + 1)
<1>1. m \in Nat /\ Ends(f) \subseteq 1 .. m /\ b \in 1 .. m + 1 /\ (f = <<>> <=> m = 0)
  BY EndsIn, StartFacts, EmptySeq
<1>2. Open(f) = SubSeq(f, b, m)
  BY OpenIs
<1>3. E = Ends(f)
  BY <1>1 DEF Before
<1>4. b = IF E = {} THEN 1 ELSE 1 + Greatest(E)
  BY DEF LineStart
<1> HIDE DEF m, b, E
<1>5. CASE f = <<>>
  <2>1. b = 1 /\ Ends(f) = {}
    BY <1>1, <1>3, <1>4, <1>5
  <2>2. Open(f) = <<>>
    BY <1>1, <1>2, <1>5, <2>1, SubSeqEmpty
  <2> QED BY <1>5, <2>1, <2>2
<1>6. CASE f # <<>> /\ m \in Ends(f)
  <2>1. Greatest(E) = m /\ E # {}
    <3>1. m \in E /\ E \subseteq Nat /\ \A k \in E : k <= m
      BY <1>1, <1>3, <1>6
    <3> QED BY <3>1, GreatestIs
  <2>2. b = m + 1
    BY <1>1, <1>4, <2>1
  <2>3. Open(f) = <<>>
    BY <1>1, <1>2, <2>2, SubSeqEmpty
  <2> QED BY <1>6, <2>3 DEF m
<1>7. CASE f # <<>> /\ m \notin Ends(f)
  <2>1. b <= m
    <3>1. CASE E = {}
      BY <1>1, <1>4, <1>7, <3>1
    <3>2. CASE E # {}
      <4>1. \E j \in E : \A k \in E : k <= j
        BY <1>1, <1>3, <3>2, GreatestBelow
      <4>2. Greatest(E) \in E
        BY <4>1 DEF Greatest
      <4>3. Greatest(E) \in 1 .. m /\ Greatest(E) # m
        BY <1>1, <1>3, <1>7, <4>2
      <4> QED BY <1>1, <1>4, <3>2, <4>3
    <3> QED BY <3>1, <3>2
  <2>2. Len(SubSeq(f, b, m)) = m + 1 - b
    BY <1>1, SubSeqProperties DEF m
  <2>3. Len(SubSeq(f, b, m)) # 0
    BY <1>1, <2>1, <2>2
  <2>4. Open(f) # <<>>
    BY <1>2, <2>3, EmptySeq
  <2> QED BY <1>7, <2>4 DEF m
<1> QED BY <1>5, <1>6, <1>7

\* read_jsonl raises for a malformed line exactly when one is followed by
\* something, and gives the events of the lines that were ended, and of the
\* open line when it holds one.
LEMMA Reading ==
    ASSUME JsonlAssumption, text \in Seq(Token)
    PROVE  /\ Corrupt <=> Rotten(text)
           /\ Entries = IF Parses(Open(text))
                            THEN Append(Ended(text), EventOf(Open(text)))
                            ELSE Ended(text)
<1> DEFINE m == Len(text)
           stops == LineStops
           good == {i \in stops : Parses(LineOf(text, i))}
<1>1. LineEnds = Ends(text)
  BY DEF LineEnds, Ends, Breaks
<1>2. \A i : Line(i) = LineOf(text, i)
  BY <1>1 DEF Line, LineOf, LineStart, Before, Greatest
<1>3. stops = IF text = <<>> \/ m \in Ends(text) THEN Ends(text) ELSE Ends(text) \cup {m + 1}
  BY <1>1 DEF LineStops
<1>4. Entries = EventsAt(good, text)
  <2> DEFINE G == {i \in LineStops : Parses(Line(i))}
  <2>1. G = good
    BY <1>2
  <2> HIDE DEF good
  <2>2. Entries = [n \in 1 .. Cardinality(G) |-> EventOf(Line(Nth(G, n)))]
    <3> DEFINE nth(n) == CHOOSE i \in G : Cardinality({j \in G : j <= i}) = n
    <3>1. Entries = [n \in 1 .. Cardinality(G) |-> EventOf(Line(nth(n)))]
      BY DEF Entries
    <3> HIDE DEF G
    <3>2. \A i : Cardinality({j \in G : j <= i}) = Rank(G, i)
      BY DEF Rank
    <3>3. \A n : nth(n) = Nth(G, n)
      BY <3>2 DEF Nth
    <3> HIDE DEF nth
    <3> QED BY <3>1, <3>3
  <2> HIDE DEF G
  <2> QED BY <1>2, <2>1, <2>2 DEF EventsAt
<1>5. Corrupt <=> \E i \in stops : /\ LineOf(text, i) # <<>> /\ ~Parses(LineOf(text, i))
                                       /\ i # FinalStop
  BY <1>2 DEF Corrupt
<1>6. m \in Nat /\ Ends(text) \subseteq 1 .. m /\ Done(text) \subseteq 1 .. m
  BY EndsIn
<1>7. Open(text) = LineOf(text, m + 1)
  BY DEF Open
<1>8. ~Parses(<<>>)
  BY ReadsBack
<1>f. FinalStop = Greatest(stops)
  BY DEF FinalStop, Greatest
<1>n. PICK n \in Nat : n = m + 1 /\ m < n
  BY <1>6
<1> HIDE DEF m, stops
<1>9. CASE Open(text) = <<>>
  <2>1. stops = Ends(text) /\ (text = <<>> => Ends(text) = {}) /\ (text = <<>> \/ m \in Ends(text))
    BY <1>3, <1>9, Stops DEF m
  <2>2. good = Done(text)
    BY <2>1 DEF Done
  <2>3. ASSUME m \in Ends(text)
        PROVE  FinalStop = m
    <3>1. m \in stops /\ stops \subseteq Nat /\ \A k \in stops : k <= m
      BY <1>6, <2>1, <2>3
    <3> QED BY <1>f, <3>1, GreatestIs
  <2>4. Corrupt <=> Rotten(text)
    <3>1. \A i \in Ends(text) : m \in Ends(text)
      BY <2>1
    <3> QED BY <1>5, <2>1, <2>3, <3>1 DEF Rotten, Bad, m
  <2> QED BY <1>4, <1>8, <1>9, <2>2, <2>4 DEF Ended
<1>10. CASE Open(text) # <<>>
  <2>1. stops = Ends(text) \cup {n} /\ m \notin Ends(text)
    BY <1>3, <1>10, <1>n, Stops DEF m
  <2>2. FinalStop = n
    <3>1. n \in stops /\ stops \subseteq Nat /\ \A k \in stops : k <= n
      BY <1>6, <1>n, <2>1
    <3> QED BY <1>f, <3>1, GreatestIs
  <2>3. Corrupt <=> Rotten(text)
    <3>1. \A i \in Ends(text) : i # n /\ i # m
      BY <1>6, <1>n, <2>1
    <3> QED BY <1>5, <2>1, <2>2, <3>1 DEF Rotten, Bad, m
  <2>4. CASE Parses(Open(text))
    <3>1. good = Done(text) \cup {n}
      BY <1>7, <1>n, <2>1, <2>4 DEF Done
    <3>2. Grows(Done(text), good, n) /\ SameLines(Done(text), text, text)
      BY <1>6, <1>n, <3>1 DEF Grows, SameLines
    <3> HIDE DEF good
    <3>3. EventsAt(good, text) = Append(EventsAt(Done(text), text), EventOf(LineOf(text, n)))
      BY <3>2, OneMoreEvent
    <3> QED BY <1>4, <1>7, <1>n, <2>3, <2>4, <3>3 DEF Ended
  <2>5. CASE ~Parses(Open(text))
    <3>1. good = Done(text)
      BY <1>7, <1>n, <2>1, <2>5 DEF Done
    <3> QED BY <1>4, <2>3, <2>5, <3>1 DEF Ended
  <2> QED BY <2>4, <2>5
<1> QED BY <1>9, <1>10

-----------------------------------------------------------------------------
(* What holds of the file however many appends were torn *)

\* The lines that were ended hold what was appended; or a malformed line is
\* the last, and at most the event that was appended to it is lost; or a
\* malformed line is followed by something.
FileInv ==
    /\ text \in Seq(Token)
    /\ \/ Rotten(text)
       \/ Sound(text, acked) /\ (Parses(Open(text)) => last = "torn")
       \/ BadEnd(text) /\ (Ended(text) = acked \/ \E e \in Events : acked = Append(Ended(text), e))

LEMMA EmptyFile ==
    /\ <<>> \in Seq(Token) /\ Bad(<<>>) = {} /\ Ended(<<>>) = <<>> /\ Open(<<>>) = <<>>
<1>1. <<>> \in Seq(Token)
  OBVIOUS
<1>2. Ends(<<>>) = {} /\ Open(<<>>) = <<>>
  BY <1>1, Stops
<1>3. Bad(<<>>) = {} /\ Done(<<>>) = {}
  BY <1>2 DEF Bad, Done
<1>4. Cardinality({}) = 0
  BY FS_EmptySet
<1>5. Ended(<<>>) = <<>>
  <2>1. Ended(<<>>) = [n \in 1 .. 0 |-> EventOf(LineOf(<<>>, Nth({}, n)))]
    BY <1>3, <1>4 DEF Ended, EventsAt
  <2> QED BY <2>1
<1> QED BY <1>1, <1>2, <1>3, <1>5

LEMMA FileInit ==
    ASSUME JsonlAssumption, LogInit
    PROVE  FileInv
<1>1. ~Parses(<<>>)
  BY ReadsBack
<1> QED BY <1>1, EmptyFile DEF FileInv, Sound, LogInit

LEMMA FileStep ==
    ASSUME JsonlAssumption, FileInv, [LogNext]_logVars
    PROVE  FileInv'
<1>1. text \in Seq(Token) /\ ~Parses(<<>>)
  BY ReadsBack DEF FileInv
<1>2. Rotten(text) => Bad(text) # {}
  BY DEF Rotten
<1>3. BadEnd(text) => Bad(text) # {}
  BY DEF BadEnd
<1>4. ASSUME NEW e \in Events, AppendJsonl(e)
      PROVE  FileInv'
  <2> DEFINE g == text \o Encode(e)
  <2>1. text' = g /\ acked' = Append(acked, e) /\ last' = "ok"
    BY <1>4 DEF AppendJsonl
  <2>2. /\ g \in Seq(Token)
        /\ Bad(text) # {} => Rotten(g)
        /\ Bad(text) = {} /\ Text[e] = "separator" => Rotten(g)
        /\ Bad(text) = {} /\ Text[e] # "separator" /\ Open(text) = <<>> =>
              Bad(g) = {} /\ Ended(g) = Append(Ended(text), e) /\ Open(g) = <<>>
        /\ Bad(text) = {} /\ Text[e] # "separator" /\ Open(text) # <<>> =>
              BadEnd(g) /\ Ended(g) = Ended(text)
    BY <1>1, WholeAppend
  <2> HIDE DEF g
  <2>3. CASE Rotten(g)
    BY <2>1, <2>2, <2>3 DEF FileInv
  <2>4. CASE ~Rotten(g)
    <3>1. Bad(text) = {} /\ Text[e] # "separator" /\ Ended(text) = acked
      BY <1>2, <1>3, <2>2, <2>4 DEF FileInv, Sound
    <3>2. CASE Open(text) = <<>>
      <4>1. Bad(g) = {} /\ Ended(g) = acked' /\ Open(g) = <<>>
        BY <2>1, <2>2, <3>1, <3>2
      <4> QED BY <1>1, <2>1, <2>2, <4>1 DEF FileInv, Sound
    <3>3. CASE Open(text) # <<>>
      <4>1. BadEnd(g) /\ acked' = Append(Ended(g), e)
        BY <2>1, <2>2, <3>1, <3>3
      <4> QED BY <2>1, <2>2, <4>1 DEF FileInv
    <3> QED BY <3>2, <3>3
  <2> QED BY <2>3, <2>4
<1>5. ASSUME NEW e \in Events, TornAppend(e)
      PROVE  FileInv'
  <2>1. PICK n \in 0 .. Len(Encode(e)) - 1 : text' = text \o SubSeq(Encode(e), 1, n)
    BY <1>5 DEF TornAppend
  <2>2. acked' = acked /\ last' = "torn"
    BY <1>5 DEF TornAppend
  <2>3. /\ text' \in Seq(Token)
        /\ n = 0 => text' = text
        /\ n # 0 /\ Bad(text) # {} => Rotten(text')
        /\ Bad(text) = {} =>
              \/ Bad(text') = {} /\ Ended(text') = Ended(text)
              \/ Rotten(text')
              \/ BadEnd(text') /\ Ended(text') = Ended(text)
    BY <1>1, <2>1, TornPart
  <2>4. CASE Bad(text) = {}
    <3>1. Ended(text) = acked
      BY <1>2, <1>3, <2>4 DEF FileInv, Sound
    <3> QED BY <2>2, <2>3, <2>4, <3>1 DEF FileInv, Sound
  <2>5. CASE Bad(text) # {} /\ n # 0
    BY <2>3, <2>5 DEF FileInv
  <2>6. CASE n = 0
    BY <2>2, <2>3, <2>6 DEF FileInv
  <2> QED BY <2>4, <2>5, <2>6
<1>6. CASE UNCHANGED logVars
  BY <1>6 DEF FileInv, logVars
<1> QED BY <1>4, <1>5, <1>6 DEF LogNext

LEMMA FileReads ==
    ASSUME JsonlAssumption, FileInv
    PROVE  HoleOnlyAtEnd
<1> SUFFICES ASSUME Readable
             PROVE  Entries = acked \/ WithTorn \/ \E e \in Events : acked = Append(Entries, e)
  BY DEF HoleOnlyAtEnd
<1>1. ~Rotten(text)
  BY Reading DEF FileInv, Readable
<1>2. Entries = IF Parses(Open(text))
                    THEN Append(Ended(text), EventOf(Open(text)))
                    ELSE Ended(text)
  BY Reading DEF FileInv
<1>3. CASE Sound(text, acked) /\ (Parses(Open(text)) => last = "torn")
  <2>1. CASE Parses(Open(text))
    <3>1. EventOf(Open(text)) \in Events
      BY <2>1 DEF Parses, EventOf
    <3> QED BY <1>2, <1>3, <2>1, <3>1 DEF Sound, WithTorn
  <2>2. CASE ~Parses(Open(text))
    BY <1>2, <1>3, <2>2 DEF Sound
  <2> QED BY <2>1, <2>2
<1>4. CASE BadEnd(text) /\ (Ended(text) = acked \/ \E e \in Events : acked = Append(Ended(text), e))
  <2>1. Entries = Ended(text)
    BY <1>2, <1>4, ReadsBack DEF BadEnd
  <2> QED BY <1>4, <2>1
<1> QED BY <1>1, <1>3, <1>4 DEF FileInv

\* However many appends were torn, and wherever, for every kind of text: a
\* log that read_jsonl reads without an exception lacks nothing but, at most,
\* its last event.
THEOREM LogHoleOnlyAtEnd == LogSpec => []HoleOnlyAtEnd
<1>1. LogInit => FileInv
  BY FileInit, JsonlAssumption
<1>2. FileInv /\ [LogNext]_logVars => FileInv'
  BY FileStep, JsonlAssumption
<1>3. FileInv => HoleOnlyAtEnd
  BY FileReads, JsonlAssumption
<1> QED BY <1>1, <1>2, <1>3, PTL DEF LogSpec

-----------------------------------------------------------------------------
(* Without a line separator in the file, up to the first torn append *)

\* No character is cut apart.
Uncut(f) == \A i \in DOMAIN f : f[i] = LeadByte => i < Len(f) /\ f[i + 1] = NextByte

LEMMA UncutGrows ==
    ASSUME JsonlAssumption, NEW f \in Seq(Token), NEW e \in Events, Uncut(f)
    PROVE  Uncut(f \o Encode(e))
<1> DEFINE s == Encode(e)
           j == Json(e)
           g == f \o s
           l == LeadByte
           x == NextByte
<1>1. l # x /\ Head1(e) # l /\ Tail1(e) # l /\ Sep # l /\ NewLine # l
  BY TokenFacts DEF Breaks, LeadByte, NewLine, Sep
<1>2. j \in Seq(Token) /\ NewLine \in Token
  BY JsonShape, TokenFacts
<1>3. /\ s \in Seq(Token) /\ Len(j) \in Nat /\ Len(s) = Len(j) + 1
      /\ \A i \in 1 .. Len(j) : s[i] = j[i]
      /\ s[Len(j) + 1] = NewLine
  <2>1. s = Append(j, NewLine)
    BY DEF Encode
  <2> HIDE DEF s, j
  <2> QED BY <1>2, <2>1, AppendProperties
<1>4. \A i \in 1 .. Len(j) : j[i] = l => i < Len(j) /\ j[i + 1] = x
  <2> HIDE DEF j, l, x
  <2>1. CASE j = <<Head1(e), Sep, Tail1(e)>>
    BY <1>1, <2>1
  <2>2. CASE j = <<Head1(e), Tail1(e)>>
    BY <1>1, <2>2
  <2>3. CASE j = <<Head1(e), l, x, Tail1(e)>>
    BY <1>1, <2>3
  <2> QED BY <2>1, <2>2, <2>3, JsonIs DEF j, l, x
<1> HIDE DEF j, l, x
<1>5. ASSUME NEW i \in 1 .. Len(s), s[i] = l
      PROVE  i < Len(s) /\ s[i + 1] = x
  <2>1. i # Len(j) + 1
    BY <1>1, <1>3, <1>5
  <2>2. i \in 1 .. Len(j) /\ j[i] = l
    BY <1>3, <1>5, <2>1
  <2>3. i < Len(j) /\ j[i + 1] = x /\ i + 1 \in 1 .. Len(j)
    BY <1>3, <1>4, <2>2
  <2> QED BY <1>3, <2>3
<1> HIDE DEF s
<1>6. /\ g \in Seq(Token) /\ Len(f) \in Nat /\ Len(s) \in Nat /\ Len(g) = Len(f) + Len(s)
      /\ \A i \in 1 .. Len(f) : g[i] = f[i]
      /\ \A i \in 1 .. Len(s) : \A k : k = Len(f) + i => g[k] = s[i]
  BY <1>3, Glue DEF Extends
<1> HIDE DEF g
<1>7. ASSUME NEW i \in 1 .. Len(g), g[i] = l
      PROVE  i < Len(g) /\ g[i + 1] = x
  <2>1. CASE i \in 1 .. Len(f)
    <3>1. f[i] = l /\ i \in DOMAIN f
      BY <1>6, <1>7, <2>1
    <3>2. i < Len(f) /\ f[i + 1] = x /\ i + 1 \in 1 .. Len(f)
      BY <1>6, <2>1, <3>1 DEF Uncut, l, x
    <3> QED BY <1>6, <3>2
  <2>2. CASE i \notin 1 .. Len(f)
    <3>1. PICK n \in 1 .. Len(s) : i = Len(f) + n
      <4>1. i - Len(f) \in 1 .. Len(s) /\ i = Len(f) + (i - Len(f))
        BY <1>6, <2>2
      <4> QED BY <4>1
    <3>2. s[n] = l
      BY <1>6, <1>7, <3>1
    <3>3. n < Len(s) /\ s[n + 1] = x /\ n + 1 \in 1 .. Len(s)
      BY <1>5, <1>6, <3>2
    <3>4. i + 1 = Len(f) + (n + 1) /\ i < Len(g)
      BY <1>6, <3>1, <3>3
    <3> QED BY <1>6, <3>3, <3>4
  <2> QED BY <2>1, <2>2
<1>8. DOMAIN g = 1 .. Len(g)
  BY <1>6
<1> QED BY <1>7, <1>8 DEF Uncut, g, s, l, x

ReadInv ==
    /\ text \in Seq(Token) /\ torn \in Nat
    /\ torn = 0 => Uncut(text)
    /\ torn = 0 /\ ~Split(text) => Sound(text, acked) /\ Open(text) = <<>>
    /\ torn = 1 /\ last = "torn" /\ ~Split(text) => Sound(text, acked)

LEMMA ReadInit ==
    ASSUME LogInit
    PROVE  ReadInv
<1>1. Uncut(<<>>)
  BY DEF Uncut
<1> QED BY <1>1, EmptyFile DEF ReadInv, Sound, LogInit

LEMMA ReadStep ==
    ASSUME JsonlAssumption, ReadInv, [LogNext]_logVars
    PROVE  ReadInv'
<1>1. text \in Seq(Token) /\ torn \in Nat
  BY DEF ReadInv
<1>2. ASSUME NEW e \in Events, AppendJsonl(e)
      PROVE  ReadInv'
  <2> DEFINE g == text \o Encode(e)
  <2>1. text' = g /\ acked' = Append(acked, e) /\ last' = "ok" /\ torn' = torn
    BY <1>2 DEF AppendJsonl
  <2>2. /\ g \in Seq(Token)
        /\ Bad(text) = {} /\ Text[e] = "separator" => Split(g)
        /\ Bad(text) = {} /\ Text[e] # "separator" /\ Open(text) = <<>> =>
              Bad(g) = {} /\ Ended(g) = Append(Ended(text), e) /\ Open(g) = <<>>
    BY <1>1, WholeAppend
  <2>3. (Uncut(text) => Uncut(g)) /\ (Split(text) => Split(g))
    <3>1. Encode(e) \in Seq(Token)
      BY JsonShape, TokenFacts, AppendProperties DEF Encode
    <3> QED BY <1>1, <3>1, UncutGrows, SplitStays
  <2> HIDE DEF g
  <2>4. torn = 0 /\ ~Split(g) => Sound(g, acked') /\ Open(g) = <<>>
    BY <2>1, <2>2, <2>3 DEF ReadInv, Sound
  <2> QED BY <1>1, <2>1, <2>2, <2>3, <2>4 DEF ReadInv
<1>3. ASSUME NEW e \in Events, TornAppend(e)
      PROVE  ReadInv'
  <2>1. PICK n \in 0 .. Len(Encode(e)) - 1 : text' = text \o SubSeq(Encode(e), 1, n)
    BY <1>3 DEF TornAppend
  <2>2. acked' = acked /\ torn' = torn + 1
    BY <1>3 DEF TornAppend
  <2>3. /\ text' \in Seq(Token)
        /\ Bad(text) = {} => Split(text') \/ (Bad(text') = {} /\ Ended(text') = Ended(text))
    <3> DEFINE g == text \o SubSeq(Encode(e), 1, n)
    <3>1. /\ g \in Seq(Token)
          /\ Bad(text) = {} =>
                \/ Bad(g) = {} /\ Ended(g) = Ended(text)
                \/ Split(g) /\ Rotten(g)
                \/ Split(g) /\ BadEnd(g) /\ Ended(g) = Ended(text)
      BY <1>1, TornPart
    <3> HIDE DEF g
    <3>2. text' = g
      BY <2>1 DEF g
    <3> QED BY <3>1, <3>2
  <2>s. Split(text) => Split(text')
    <3>1. Encode(e) \in Seq(Token)
      BY JsonShape, TokenFacts, AppendProperties DEF Encode
    <3>2. SubSeq(Encode(e), 1, n) \in Seq(Token)
      BY <3>1
    <3> QED BY <1>1, <2>1, <3>2, SplitStays
  <2>4. torn = 0 /\ ~Split(text') => Sound(text', acked')
    BY <2>2, <2>3, <2>s DEF ReadInv, Sound
  <2>5. torn' \in Nat /\ torn' # 0 /\ (torn' = 1 => torn = 0)
    BY <1>1, <2>2
  <2> QED BY <2>3, <2>4, <2>5 DEF ReadInv
<1>4. CASE UNCHANGED logVars
  BY <1>4 DEF ReadInv, logVars
<1> QED BY <1>2, <1>3, <1>4 DEF LogNext

LEMMA ReadReads ==
    ASSUME JsonlAssumption, ReadInv
    PROVE  ReadsWhatWasAppended
<1>1. /\ Corrupt <=> Rotten(text)
      /\ Entries = IF Parses(Open(text))
                       THEN Append(Ended(text), EventOf(Open(text)))
                       ELSE Ended(text)
  BY Reading DEF ReadInv
<1>2. ASSUME Sound(text, acked), ~Undecodable
      PROVE  Readable
  BY <1>1, <1>2 DEF Sound, Rotten, Readable
<1>s. Separated <=> Split(text)
  BY DEF Separated, Split
<1> SUFFICES ASSUME ~Split(text), torn = 0 \/ (torn = 1 /\ last = "torn" /\ ~Undecodable)
             PROVE  Readable /\ (Entries = acked \/ WithTorn)
  BY <1>s DEF ReadsWhatWasAppended
<1>3. CASE torn = 0
  <2>1. Sound(text, acked) /\ Open(text) = <<>> /\ Uncut(text)
    BY <1>3 DEF ReadInv
  <2>2. ~Undecodable
    BY <2>1 DEF Undecodable, Uncut
  <2>3. Entries = acked
    BY <1>1, <2>1, ReadsBack DEF Sound
  <2> QED BY <1>2, <2>1, <2>2, <2>3
<1>4. CASE torn = 1 /\ last = "torn" /\ ~Undecodable
  <2>1. Sound(text, acked)
    BY <1>4 DEF ReadInv
  <2>2. CASE Parses(Open(text))
    <3>1. EventOf(Open(text)) \in Events
      BY <2>2 DEF Parses, EventOf
    <3>2. WithTorn
      BY <1>1, <1>4, <2>1, <2>2, <3>1 DEF Sound, WithTorn
    <3> QED BY <1>2, <1>4, <2>1, <3>2
  <2>3. CASE ~Parses(Open(text))
    BY <1>1, <1>2, <1>4, <2>1, <2>3 DEF Sound
  <2> QED BY <2>2, <2>3
<1> QED BY <1>3, <1>4

\* As long as no append was torn, or the last one alone was and no character
\* is cut apart, read_jsonl gives back what append_jsonl was given, and at
\* most the torn event, unless a text with a line separator was written.
THEOREM LogReadsWhatWasAppended == LogSpec => []ReadsWhatWasAppended
<1>1. LogInit => ReadInv
  BY ReadInit, JsonlAssumption
<1>2. ReadInv /\ [LogNext]_logVars => ReadInv'
  BY ReadStep, JsonlAssumption
<1>3. ReadInv => ReadsWhatWasAppended
  BY ReadReads, JsonlAssumption
<1> QED BY <1>1, <1>2, <1>3, PTL DEF LogSpec
==============================================================================
