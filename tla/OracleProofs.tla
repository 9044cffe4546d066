----------------------------- MODULE OracleProofs -----------------------------
(***************************************************************************)
(* The flags of a task and the oracle's ledger of them, for any number of  *)
(* commands, kills, planted events, merges and runs.                       *)
(*                                                                         *)
(* Why it holds: logs only grow, except for a worktree that is cut anew    *)
(* from main, and what the first event of an id says is settled for good.  *)
(* The log lock keeps what a command read true until it appends.           *)
(***************************************************************************)
EXTENDS Oracle, WellFoundedInduction, TLAPS

-----------------------------------------------------------------------------
(* Numbers *)

Less == {p \in Nat \X Nat : p[1] < p[2]}

LEMMA LeastNumber ==
  ASSUME NEW S, S \subseteq Nat, S # {}
  PROVE  \E n \in S : \A m \in S : n <= m
<1>1. IsWellFoundedOn(Less, Nat)
  BY NatLessThanWellFounded DEF OpToRel, Less
<1>2. PICK n \in S : \A m \in S : <<m, n>> \notin Less
  BY <1>1, WFMin
<1>3. ASSUME NEW m \in S
      PROVE  n <= m
  <2>1. m \in Nat /\ n \in Nat /\ <<m, n>> \notin Less
    BY <1>2
  <2> QED BY <2>1 DEF Less
<1> QED BY <1>3

LEMMA LeastFacts ==
  ASSUME NEW S, S \subseteq Nat, S # {}
  PROVE  Least(S) \in S /\ \A m \in S : Least(S) <= m
BY LeastNumber DEF Least

LEMMA GreatestNumber ==
  ASSUME NEW top \in Nat, NEW S, S \subseteq Nat, S # {}, \A m \in S : m <= top
  PROVE  \E n \in S : \A m \in S : m <= n
<1> DEFINE bounds == {k \in Nat : \A m \in S : m <= k}
<1>1. PICK n \in bounds : \A k \in bounds : n <= k
  <2>1. top \in bounds
    OBVIOUS
  <2> QED BY <2>1, LeastNumber
<1>2. n \in S
  <2> SUFFICES ASSUME n \notin S PROVE FALSE
    OBVIOUS
  <2>1. PICK m \in S : m \in Nat /\ m <= n /\ m # n
    BY <1>1
  <2>2. n - 1 \in Nat /\ \A k \in S : k <= n - 1
    BY <1>1, <2>1
  <2>3. n <= n - 1
    BY <1>1, <2>2
  <2> QED BY <1>1, <2>3
<1> QED BY <1>1, <1>2

LEMMA Parity ==
  \A n \in Nat : (2 * n) % 2 = 0 /\ (2 * n + 2) % 2 = 0 /\ (2 * n + 1) % 2 = 1
OBVIOUS

-----------------------------------------------------------------------------
(* What a log says of an id *)

First(entries, i) == Least(Raised(entries, i))
KindOf(entries, i) == entries[First(entries, i)].kind
KeyOf(entries, i) == entries[First(entries, i)].key

Resolutions(entries, i) ==
  {m \in DOMAIN entries :
     m > First(entries, i) /\ entries[m].action = "flag-resolved" /\ entries[m].id = i}

LEMMA DerivedFlag ==
  ASSUME NEW entries, NEW i \in flag_ids(entries)
  PROVE  LET d == derive_flags(entries)[i]
             R == Resolutions(entries, i)
         IN  /\ d.kind = KindOf(entries, i) /\ d.key = KeyOf(entries, i)
             /\ d.status = IF R = {} THEN "open" ELSE entries[Least(R)].kind
             /\ d.by = IF R = {} THEN 0 ELSE entries[Least(R)].key
BY DEF derive_flags, KindOf, KeyOf, First, Resolutions

LEMMA LogFacts ==
  ASSUME NEW entries \in Seq(FlagEvent)
  PROVE  /\ Len(entries) \in Nat /\ DOMAIN entries = 1 .. Len(entries)
         /\ \A n \in DOMAIN entries : n \in Nat /\ entries[n] \in FlagEvent
OBVIOUS

LEMMA EventFacts ==
  ASSUME NEW e \in FlagEvent
  PROVE  e.id \in Nat /\ e.id # 0 /\ e.key \in Nat
<1>1. Ids \subseteq Nat \ {0} /\ Keys \subseteq Nat
  BY FlagsAssumption DEF Ids, Keys
<1> QED BY <1>1 DEF FlagEvent

LEMMA FirstFacts ==
  ASSUME NEW entries \in Seq(FlagEvent), NEW i \in flag_ids(entries)
  PROVE  /\ First(entries, i) \in DOMAIN entries
         /\ entries[First(entries, i)].action = "flag" /\ entries[First(entries, i)].id = i
         /\ \A n \in DOMAIN entries :
               entries[n].action = "flag" /\ entries[n].id = i => First(entries, i) <= n
<1>1. Raised(entries, i) # {} /\ Raised(entries, i) \subseteq Nat
  BY LogFacts DEF flag_ids, Raised
<1>2. First(entries, i) \in Raised(entries, i)
      /\ \A n \in Raised(entries, i) : First(entries, i) <= n
  BY <1>1, LeastFacts DEF First
<1> QED BY <1>2 DEF Raised

LEMMA FlagIds ==
  ASSUME NEW entries, NEW i
  PROVE  i \in flag_ids(entries)
            <=> \E n \in DOMAIN entries : entries[n].action = "flag" /\ entries[n].id = i
BY DEF flag_ids

LEMMA ResolutionFacts ==
  ASSUME NEW entries \in Seq(FlagEvent), NEW i, Resolutions(entries, i) # {}
  PROVE  /\ Least(Resolutions(entries, i)) \in Resolutions(entries, i)
         /\ \A m \in Resolutions(entries, i) : Least(Resolutions(entries, i)) <= m
<1>1. Resolutions(entries, i) \subseteq Nat
  BY LogFacts DEF Resolutions
<1> QED BY <1>1, LeastFacts

\* One log is the beginning of another.
Begins(entries, longer) ==
  Len(entries) <= Len(longer) /\ \A n \in DOMAIN entries : longer[n] = entries[n]

\* What a log says of an id, once it says it, stays.
LEMMA SettledFirst ==
  ASSUME NEW entries \in Seq(FlagEvent), NEW longer \in Seq(FlagEvent),
         Begins(entries, longer), NEW i \in flag_ids(entries)
  PROVE  /\ i \in flag_ids(longer) /\ First(longer, i) = First(entries, i)
         /\ KindOf(longer, i) = KindOf(entries, i) /\ KeyOf(longer, i) = KeyOf(entries, i)
<1> DEFINE f == First(entries, i)
           g == First(longer, i)
<1>1. f \in DOMAIN entries /\ entries[f].action = "flag" /\ entries[f].id = i
  BY FirstFacts
<1>2. DOMAIN entries \subseteq DOMAIN longer /\ (\A n \in DOMAIN entries : longer[n] = entries[n])
  BY LogFacts DEF Begins
<1>3. f \in DOMAIN longer /\ longer[f] = entries[f]
  BY <1>1, <1>2
<1>4. i \in flag_ids(longer)
  BY <1>1, <1>3, FlagIds
<1>5. g \in DOMAIN longer /\ longer[g].action = "flag" /\ longer[g].id = i /\ g <= f
  BY <1>1, <1>3, <1>4, FirstFacts
<1>6. g \in DOMAIN entries /\ longer[g] = entries[g]
  BY <1>1, <1>2, <1>5, LogFacts
<1>7. f <= g
  BY <1>5, <1>6, FirstFacts
<1>8. f \in Nat /\ g \in Nat
  BY <1>1, <1>5, LogFacts
<1>9. f = g
  BY <1>5, <1>7, <1>8
<1> QED BY <1>3, <1>4, <1>9 DEF KindOf, KeyOf

LEMMA SettledResolution ==
  ASSUME NEW entries \in Seq(FlagEvent), NEW longer \in Seq(FlagEvent),
         Begins(entries, longer), NEW i \in flag_ids(entries), Resolutions(entries, i) # {}
  PROVE  /\ Resolutions(longer, i) # {}
         /\ longer[Least(Resolutions(longer, i))] = entries[Least(Resolutions(entries, i))]
<1> DEFINE r == Least(Resolutions(entries, i))
           s == Least(Resolutions(longer, i))
<1>0. First(longer, i) = First(entries, i)
  BY SettledFirst
<1>1. r \in Resolutions(entries, i) /\ \A m \in Resolutions(entries, i) : r <= m
  BY ResolutionFacts
<1>2. DOMAIN entries \subseteq DOMAIN longer /\ (\A n \in DOMAIN entries : longer[n] = entries[n])
  BY LogFacts DEF Begins
<1>3. r \in Resolutions(longer, i) /\ r \in DOMAIN entries
  BY <1>0, <1>1, <1>2 DEF Resolutions
<1>4. s \in Resolutions(longer, i) /\ s <= r
  BY <1>3, ResolutionFacts
<1>5. s \in DOMAIN entries
  BY <1>3, <1>4, LogFacts DEF Resolutions
<1>6. s \in Resolutions(entries, i)
  BY <1>0, <1>2, <1>4, <1>5 DEF Resolutions
<1>7. r \in Nat /\ s \in Nat /\ r <= s
  BY <1>1, <1>3, <1>5, <1>6, LogFacts
<1>8. r = s
  BY <1>4, <1>7
<1> QED BY <1>2, <1>3, <1>8

\* One more event.
LEMMA OneMore ==
  ASSUME NEW entries \in Seq(FlagEvent), NEW e \in FlagEvent
  PROVE  /\ Append(entries, e) \in Seq(FlagEvent) /\ Begins(entries, Append(entries, e))
         /\ DOMAIN Append(entries, e) = DOMAIN entries \cup {Len(entries) + 1}
         /\ Len(entries) + 1 \notin DOMAIN entries
         /\ Append(entries, e)[Len(entries) + 1] = e
         /\ \A n \in DOMAIN entries : Append(entries, e)[n] = entries[n] /\ n < Len(entries) + 1
BY DEF Begins

LEMMA IdsOneMore ==
  ASSUME NEW entries \in Seq(FlagEvent), NEW e \in FlagEvent
  PROVE  flag_ids(Append(entries, e)) =
            flag_ids(entries) \cup (IF e.action = "flag" THEN {e.id} ELSE {})
<1> SUFFICES ASSUME NEW i
             PROVE  i \in flag_ids(Append(entries, e))
                       <=> i \in flag_ids(entries) \/ (e.action = "flag" /\ i = e.id)
  BY Zenon
<1> DEFINE is(event) == event.action = "flag" /\ event.id = i
<1>1. /\ i \in flag_ids(entries) <=> \E n \in DOMAIN entries : is(entries[n])
      /\ i \in flag_ids(Append(entries, e)) <=>
            \E n \in DOMAIN Append(entries, e) : is(Append(entries, e)[n])
  BY FlagIds
<1> HIDE DEF is
<1>2. (\E n \in DOMAIN Append(entries, e) : is(Append(entries, e)[n]))
         <=> (\E n \in DOMAIN entries : is(entries[n])) \/ is(e)
  BY OneMore
<1>3. is(e) <=> e.action = "flag" /\ i = e.id
  BY DEF is
<1> QED BY <1>1, <1>2, <1>3

LEMMA NewFlag ==
  ASSUME NEW entries \in Seq(FlagEvent), NEW e \in FlagEvent,
         e.action = "flag", e.id \notin flag_ids(entries)
  PROVE  /\ First(Append(entries, e), e.id) = Len(entries) + 1
         /\ KindOf(Append(entries, e), e.id) = e.kind /\ KeyOf(Append(entries, e), e.id) = e.key
<1>1. Append(entries, e) \in Seq(FlagEvent) /\ e.id \in flag_ids(Append(entries, e))
  BY OneMore, IdsOneMore
<1> DEFINE f == First(Append(entries, e), e.id)
<1>2. f \in DOMAIN Append(entries, e) /\ Append(entries, e)[f].action = "flag"
      /\ Append(entries, e)[f].id = e.id
  BY <1>1, FirstFacts
<1>3. f \notin DOMAIN entries
  BY <1>2, OneMore, FlagIds
<1>4. f = Len(entries) + 1
  BY <1>2, <1>3, OneMore
<1> HIDE DEF f
<1> QED BY <1>4, OneMore DEF KindOf, KeyOf, f

LEMMA ResolutionsOneMore ==
  ASSUME NEW entries \in Seq(FlagEvent), NEW e \in FlagEvent, NEW i \in flag_ids(entries)
  PROVE  Resolutions(Append(entries, e), i) =
            Resolutions(entries, i) \cup
               (IF e.action = "flag-resolved" /\ e.id = i THEN {Len(entries) + 1} ELSE {})
<1>1. First(Append(entries, e), i) = First(entries, i) /\ First(entries, i) \in DOMAIN entries
  <2>1. Append(entries, e) \in Seq(FlagEvent) /\ Begins(entries, Append(entries, e))
    BY OneMore
  <2>2. First(Append(entries, e), i) = First(entries, i)
    BY <2>1, SettledFirst
  <2> QED BY <2>2, FirstFacts
<1>2. Len(entries) + 1 > First(entries, i)
  BY <1>1, LogFacts
<1> SUFFICES ASSUME NEW m
             PROVE  m \in Resolutions(Append(entries, e), i)
                       <=> \/ m \in Resolutions(entries, i)
                           \/ e.action = "flag-resolved" /\ e.id = i /\ m = Len(entries) + 1
  BY Zenon
<1> QED BY <1>1, <1>2, OneMore DEF Resolutions

-----------------------------------------------------------------------------
(* What every log satisfies: ids and Director's keys that were given out,  *)
(* escapes with a Director's key, or the planted 0, and no resolution of   *)
(* an escape by the loop node.                                             *)

LogSound(entries, lastId, lastKey) ==
  \A n \in DOMAIN entries :
    /\ entries[n].id <= lastId
    /\ entries[n].key % 2 = 0 => entries[n].key <= lastKey
    /\ entries[n].action = "flag" /\ entries[n].kind = ORACLE_ESCAPE => entries[n].key % 2 = 0
    /\ entries[n].action = "flag-resolved" /\ entries[n].key % 2 # 0 =>
         /\ entries[n].id \in flag_ids(entries)
         /\ KindOf(entries, entries[n].id) # ORACLE_ESCAPE

LEMMA SoundLater ==
  ASSUME NEW entries \in Seq(FlagEvent), NEW i \in Nat, NEW j \in Nat, NEW k \in Nat, NEW l \in Nat,
         LogSound(entries, i, k), i <= j, k <= l
  PROVE  LogSound(entries, j, l)
<1> SUFFICES ASSUME NEW n \in DOMAIN entries
             PROVE  entries[n].id <= j
                    /\ (entries[n].key % 2 = 0 => entries[n].key <= l)
  BY DEF LogSound
<1>1. entries[n].id \in Nat /\ entries[n].key \in Nat
  BY LogFacts, EventFacts
<1>2. entries[n].id <= i /\ (entries[n].key % 2 = 0 => entries[n].key <= k)
  BY DEF LogSound
<1> QED BY <1>1, <1>2

LEMMA SoundOneMore ==
  ASSUME NEW entries \in Seq(FlagEvent), NEW e \in FlagEvent, NEW lastId, NEW lastKey,
         LogSound(entries, lastId, lastKey),
         e.id <= lastId, e.key % 2 = 0 => e.key <= lastKey,
         e.action = "flag" /\ e.kind = ORACLE_ESCAPE => e.key % 2 = 0,
         e.action = "flag-resolved" /\ e.key % 2 # 0 =>
            e.id \in flag_ids(entries) /\ KindOf(entries, e.id) # ORACLE_ESCAPE
  PROVE  LogSound(Append(entries, e), lastId, lastKey)
<1>1. PICK new : new = Append(entries, e)
  OBVIOUS
<1>2. \A i \in flag_ids(entries) : i \in flag_ids(new) /\ KindOf(new, i) = KindOf(entries, i)
  BY <1>1, OneMore, SettledFirst
<1>3. \A n \in DOMAIN new : (n \in DOMAIN entries /\ new[n] = entries[n]) \/ new[n] = e
  BY <1>1, OneMore
<1>4. ASSUME NEW n \in DOMAIN entries
      PROVE  /\ entries[n].id <= lastId
             /\ entries[n].key % 2 = 0 => entries[n].key <= lastKey
             /\ entries[n].action = "flag" /\ entries[n].kind = ORACLE_ESCAPE =>
                   entries[n].key % 2 = 0
             /\ entries[n].action = "flag-resolved" /\ entries[n].key % 2 # 0 =>
                  /\ entries[n].id \in flag_ids(new)
                  /\ KindOf(new, entries[n].id) # ORACLE_ESCAPE
  BY <1>2 DEF LogSound
<1>5. e.action = "flag-resolved" /\ e.key % 2 # 0 =>
         e.id \in flag_ids(new) /\ KindOf(new, e.id) # ORACLE_ESCAPE
  BY <1>2
<1>6. LogSound(new, lastId, lastKey)
  BY <1>3, <1>4, <1>5 DEF LogSound
<1> QED BY <1>1, <1>6

\* The next id is new, and one more than an id that was given out, at most.
LEMMA NextIdFacts ==
  ASSUME NEW entries \in Seq(FlagEvent), NEW lastId \in Nat, NEW lastKey,
         LogSound(entries, lastId, lastKey)
  PROVE  /\ next_id(entries) \in 1 .. lastId + 1
         /\ \A i \in flag_ids(entries) : i < next_id(entries)
<1>1. \A i \in flag_ids(entries) : i \in Nat /\ i <= lastId
  BY LogFacts, EventFacts DEF LogSound, flag_ids
<1>2. CASE flag_ids(entries) = {}
  BY <1>2 DEF next_id
<1>3. CASE flag_ids(entries) # {}
  <2> DEFINE top == CHOOSE i \in flag_ids(entries) : \A j \in flag_ids(entries) : j <= i
  <2>1. \E i \in flag_ids(entries) : \A j \in flag_ids(entries) : j <= i
    BY <1>1, <1>3, GreatestNumber
  <2>2. top \in flag_ids(entries) /\ \A j \in flag_ids(entries) : j <= top
    BY <2>1
  <2>3. next_id(entries) = 1 + top
    BY <1>3 DEF next_id
  <2> HIDE DEF top
  <2> QED BY <1>1, <2>2, <2>3
<1> QED BY <1>2, <1>3

-----------------------------------------------------------------------------
(* The invariant of the flag commands                                      *)

LastId == jobs["wt"] + jobs["main"] + 2 * plants
LastKey == 2 * jobs["main"]

CommandType ==
  [pc : {"idle", "append", "anchor"}, job : {"none", "raise"} \cup FLAG_RESOLUTIONS,
   id : Ids \cup {0}, kind : FLAG_KINDS \cup {"none"}, key : Keys]

AckType == [at : Checkouts, job : {"raise"} \cup FLAG_RESOLUTIONS, id : Ids, key : Keys]

Types ==
  /\ log \in [Checkouts -> Seq(FlagEvent)] /\ pushed \in Seq(FlagEvent)
  /\ cmd \in [Writers -> CommandType]
  /\ acked \in SUBSET AckType
  /\ jobs \in [Checkouts -> Nat] /\ jobs["wt"] <= WorkerJobs /\ jobs["main"] <= DirectorJobs
  /\ plants \in Nat /\ plants <= MaxPlants

LogsSound ==
  /\ LogSound(log["wt"], LastId, LastKey) /\ LogSound(log["main"], LastId, LastKey)
  /\ LogSound(pushed, LastId, LastKey)

OneInSection ==
  \A v, w \in Writers : At(v) = At(w) /\ InSection(v) /\ InSection(w) => v = w

\* What a command in its section read is still true of the log.
RaiseSound(w) ==
  InSection(w) /\ cmd[w].job = "raise" =>
    /\ cmd[w].id # 0 /\ cmd[w].id \notin flag_ids(log[At(w)])
    /\ cmd[w].kind = IF w \in Workers THEN "note" ELSE ORACLE_ESCAPE

ResolveSound(w) ==
  InSection(w) /\ cmd[w].job # "raise" =>
    /\ cmd[w].job \in FLAG_RESOLUTIONS /\ cmd[w].kind = "none"
    /\ cmd[w].id \in flag_ids(log[At(w)]) /\ Resolutions(log[At(w)], cmd[w].id) = {}
    /\ KindOf(log[At(w)], cmd[w].id) = ORACLE_ESCAPE => w \in Directors

\* An escape between its two appends is in main's log.
AnchorSound(w) ==
  cmd[w].pc = "anchor" =>
    /\ w \in Directors /\ cmd[w].job = "raise"
    /\ cmd[w].id \in flag_ids(log["main"]) /\ KindOf(log["main"], cmd[w].id) = ORACLE_ESCAPE
    /\ KeyOf(log["main"], cmd[w].id) = cmd[w].key

NumbersSound(w) ==
  cmd[w].pc # "idle" =>
    /\ cmd[w].id <= LastId /\ cmd[w].key # 0
    /\ cmd[w].key % 2 = (IF w \in Workers THEN 1 ELSE 0)
    /\ w \in Directors => cmd[w].key <= LastKey

CommandSound(w) == RaiseSound(w) /\ ResolveSound(w) /\ AnchorSound(w) /\ NumbersSound(w)

\* What a command reported is what the log of its checkout says.
AckStands(a, entries) ==
  /\ a.id \in flag_ids(entries)
  /\ a.job = "raise" => KeyOf(entries, a.id) = a.key
  /\ a.job # "raise" =>
       /\ Resolutions(entries, a.id) # {}
       /\ entries[Least(Resolutions(entries, a.id))].kind = a.job
       /\ entries[Least(Resolutions(entries, a.id))].key = a.key

FlagsInv ==
  /\ Types /\ LogsSound /\ OneInSection
  /\ \A w \in Writers : CommandSound(w)
  /\ \A a \in acked : AckStands(a, log[a.at])

LEMMA TypeFacts ==
  ASSUME Types
  PROVE  /\ log["wt"] \in Seq(FlagEvent) /\ log["main"] \in Seq(FlagEvent)
         /\ \A w \in Writers : At(w) \in Checkouts /\ log[At(w)] \in Seq(FlagEvent)
         /\ \A w \in Workers : w \in Writers /\ At(w) = "wt"
         /\ \A w \in Directors : w \in Writers /\ w \notin Workers /\ At(w) = "main"
         /\ jobs["wt"] \in Nat /\ jobs["main"] \in Nat /\ plants \in Nat
         /\ LastId \in Nat /\ LastKey \in Nat
         /\ \A w \in Writers : cmd[w] \in CommandType
<1>1. "wt" \in Checkouts /\ "main" \in Checkouts
  BY DEF Checkouts
<1>2. jobs["wt"] \in Nat /\ jobs["main"] \in Nat /\ plants \in Nat
  BY <1>1 DEF Types
<1>3. LastId \in Nat /\ LastKey \in Nat
  BY <1>2 DEF LastId, LastKey
<1> QED BY <1>1, <1>2, <1>3, FlagsAssumption DEF Types, At, Writers

LEMMA AckLater ==
  ASSUME NEW a, NEW entries \in Seq(FlagEvent), NEW longer \in Seq(FlagEvent),
         Begins(entries, longer), AckStands(a, entries)
  PROVE  AckStands(a, longer)
BY SettledFirst, SettledResolution DEF AckStands

LEMMA FlagsStart == Init => FlagsInv
<1> SUFFICES ASSUME Init PROVE FlagsInv
  OBVIOUS
<1> USE DEF Init, FlagsInit
<1>1. /\ log = [c \in Checkouts |-> <<>>] /\ pushed = <<>> /\ cmd = [w \in Writers |-> Idle]
      /\ acked = {} /\ jobs = [c \in Checkouts |-> 0] /\ plants = 0
  OBVIOUS
<1>2. Idle \in CommandType
  <2>1. 0 \in Keys
    BY FlagsAssumption DEF Keys
  <2> QED BY <2>1 DEF Idle, CommandType
<1>3. Types
  BY <1>1, <1>2, FlagsAssumption DEF Types, Checkouts
<1>4. LogsSound
  BY <1>1 DEF LogsSound, LogSound, Checkouts
<1>5. \A w \in Writers : cmd[w].pc = "idle"
  BY <1>1 DEF Idle
<1> QED
  BY <1>1, <1>3, <1>4, <1>5
     DEF FlagsInv, OneInSection, CommandSound, RaiseSound, ResolveSound, AnchorSound,
         NumbersSound, InSection

-----------------------------------------------------------------------------
(* The steps of the commands                                               *)

\* Counts of commands and plants stay counts, and so do the greatest numbers.
LEMMA NextNumbers ==
  ASSUME jobs' \in [Checkouts -> Nat], plants' \in Nat
  PROVE  LastId' \in Nat /\ LastKey' \in Nat
<1>1. jobs'["wt"] \in Nat /\ jobs'["main"] \in Nat
  BY DEF Checkouts
<1> QED BY <1>1 DEF LastId, LastKey

\* The numbers of a command.
LEMMA CommandNumbers ==
  ASSUME NEW c \in CommandType
  PROVE  c.id \in Nat /\ c.key \in Nat
BY FlagsAssumption DEF CommandType, Ids, Keys

\* While a checkout has commands left, so has the range of the ids.
LEMMA NextIdFits ==
  ASSUME jobs["wt"] \in Nat, jobs["main"] \in Nat, plants \in Nat, plants <= MaxPlants,
         jobs["wt"] + jobs["main"] < WorkerJobs + DirectorJobs
  PROVE  LastId + 1 \in Ids
BY FlagsAssumption DEF LastId, Ids

\* A command enters its section with what it read there.
LEMMA EnterKeeps ==
  ASSUME FlagsInv, NEW w \in Writers, Enter(w), NEW c \in CommandType,
         cmd' = [cmd EXCEPT ![w] = c], c.pc = "append",
         c.job = "raise" =>
            /\ c.id # 0 /\ c.id \notin flag_ids(log[At(w)])
            /\ c.kind = IF w \in Workers THEN "note" ELSE ORACLE_ESCAPE,
         c.job # "raise" =>
            /\ c.job \in FLAG_RESOLUTIONS /\ c.kind = "none"
            /\ c.id \in flag_ids(log[At(w)]) /\ Resolutions(log[At(w)], c.id) = {}
            /\ KindOf(log[At(w)], c.id) = ORACLE_ESCAPE => w \in Directors,
         c.id <= LastId + 1, c.key # 0,
         c.key % 2 = (IF w \in Workers THEN 1 ELSE 0),
         w \in Directors => c.key <= LastKey + 2
  PROVE  FlagsInv'
<1>0. /\ Types /\ LogsSound /\ OneInSection
      /\ (\A v \in Writers : CommandSound(v)) /\ \A a \in acked : AckStands(a, log[a.at])
  BY DEF FlagsInv
<1> USE TypeFacts, <1>0
<1>1. /\ log' = log /\ pushed' = pushed /\ acked' = acked /\ plants' = plants
      /\ jobs' = [jobs EXCEPT ![At(w)] = @ + 1] /\ jobs[At(w)] < MaxJobs[At(w)]
      /\ \A v \in Writers : At(v) = At(w) => ~InSection(v)
  BY DEF Enter, LockFree
<1>2. /\ cmd'[w] = c /\ \A v \in Writers : v # w => cmd'[v] = cmd[v]
      /\ cmd' \in [Writers -> CommandType]
  BY DEF Types
<1>3. /\ jobs' \in [Checkouts -> Nat] /\ jobs'["wt"] <= WorkerJobs /\ jobs'["main"] <= DirectorJobs
      /\ LastId' = LastId + 1 /\ LastKey <= LastKey'
      /\ w \in Directors => LastKey' = LastKey + 2
  <2>1. At(w) \in {"wt", "main"} /\ Checkouts = {"wt", "main"}
    BY DEF At, Checkouts
  <2>2. jobs \in [Checkouts -> Nat] /\ jobs["wt"] <= WorkerJobs /\ jobs["main"] <= DirectorJobs
        /\ WorkerJobs \in Nat /\ DirectorJobs \in Nat
    BY FlagsAssumption DEF Types
  <2>3. /\ LastId' = jobs'["wt"] + jobs'["main"] + 2 * plants /\ LastKey' = 2 * jobs'["main"]
        /\ LastId = jobs["wt"] + jobs["main"] + 2 * plants /\ LastKey = 2 * jobs["main"]
    BY <1>1 DEF LastId, LastKey
  <2>4. jobs["wt"] \in Nat /\ jobs["main"] \in Nat /\ plants \in Nat
    OBVIOUS
  <2>5. jobs' \in [Checkouts -> Nat]
    BY <1>1, <2>1, <2>2
  <2>6. CASE At(w) = "wt"
    <3>1. jobs'["wt"] = jobs["wt"] + 1 /\ jobs'["main"] = jobs["main"]
      BY <1>1, <2>1, <2>2, <2>6
    <3>2. jobs["wt"] < WorkerJobs
      BY <1>1, <2>1, <2>6 DEF MaxJobs
    <3>3. w \notin Directors
      BY <2>6
    <3>4. /\ jobs'["wt"] <= WorkerJobs /\ jobs'["main"] <= DirectorJobs
          /\ LastId' = LastId + 1 /\ LastKey <= LastKey'
      <4> HIDE TypeFacts, <1>0
      <4> QED BY <2>2, <2>3, <2>4, <3>1, <3>2
    <3> QED BY <2>5, <3>3, <3>4
  <2>7. CASE At(w) = "main"
    <3>1. jobs'["main"] = jobs["main"] + 1 /\ jobs'["wt"] = jobs["wt"]
      BY <1>1, <2>1, <2>2, <2>7
    <3>2. jobs["main"] < DirectorJobs
      BY <1>1, <2>1, <2>7 DEF MaxJobs
    <3>3. /\ jobs'["wt"] <= WorkerJobs /\ jobs'["main"] <= DirectorJobs
          /\ LastId' = LastId + 1 /\ LastKey <= LastKey' /\ LastKey' = LastKey + 2
      <4> HIDE TypeFacts, <1>0
      <4>1. jobs["wt"] <= WorkerJobs /\ DirectorJobs \in Nat
        BY <2>2
      <4> QED BY <2>3, <2>4, <3>1, <3>2, <4>1
    <3> QED BY <2>5, <3>3
  <2> QED BY <2>1, <2>6, <2>7
<1>4. Types'
  BY <1>1, <1>2, <1>3 DEF Types
<1>5. LastId' \in Nat /\ LastKey' \in Nat
  <2>1. plants' \in Nat
    BY <1>1 DEF Types
  <2> QED BY <1>3, <2>1, NextNumbers
<1>6. LogsSound'
  <2>1. LastId <= LastId' /\ LastId \in Nat /\ LastKey \in Nat /\ pushed \in Seq(FlagEvent)
    BY <1>3 DEF Types
  <2>2. \A L \in Seq(FlagEvent) : LogSound(L, LastId, LastKey) => LogSound(L, LastId', LastKey')
    BY <1>3, <1>5, <2>1, SoundLater
  <2> QED BY <1>1, <2>1, <2>2 DEF LogsSound
<1>7. OneInSection'
  BY <1>1, <1>2 DEF OneInSection, InSection, At
<1>8. ASSUME NEW v \in Writers
      PROVE  CommandSound(v)'
  <2>1. CASE v = w
    <3>1. At(v) = At(w) /\ (w \in Directors => w \notin Workers)
      BY <2>1
    <3>2. RaiseSound(v)' /\ ResolveSound(v)'
      BY <1>1, <1>2, <2>1 DEF RaiseSound, ResolveSound, InSection, At
    <3>3. AnchorSound(v)'
      BY <1>2, <2>1 DEF AnchorSound
    <3>4. NumbersSound(v)'
      BY <1>2, <1>3, <2>1 DEF NumbersSound
    <3> QED BY <3>2, <3>3, <3>4 DEF CommandSound
  <2>2. CASE v # w
    <3>1. cmd'[v] = cmd[v] /\ CommandSound(v) /\ cmd[v] \in CommandType
      BY <1>2, <2>2
    <3>2. RaiseSound(v)' /\ ResolveSound(v)' /\ AnchorSound(v)'
      <4>1. RaiseSound(v) /\ ResolveSound(v) /\ AnchorSound(v)
        BY <3>1 DEF CommandSound
      <4>2. RaiseSound(v)' /\ ResolveSound(v)'
        BY <1>1, <3>1, <4>1 DEF RaiseSound, ResolveSound, InSection, At
      <4>3. AnchorSound(v)'
        BY <1>1, <3>1, <4>1 DEF AnchorSound
      <4> QED BY <4>2, <4>3
    <3>3. cmd[v].id \in Nat /\ cmd[v].key \in Nat
      BY <3>1, CommandNumbers
    <3>4. NumbersSound(v)'
      <4>1. /\ NumbersSound(v) /\ LastId \in Nat /\ LastKey \in Nat
            /\ LastId <= LastId' /\ LastKey <= LastKey' /\ LastId' \in Nat /\ LastKey' \in Nat
        BY <1>3, <1>5, <3>1 DEF CommandSound
      <4> HIDE <1>0, TypeFacts
      <4> QED BY <3>1, <3>3, <4>1 DEF NumbersSound
    <3> QED BY <3>2, <3>4 DEF CommandSound
  <2> QED BY <2>1, <2>2
<1>9. \A a \in acked' : AckStands(a, log'[a.at])
  BY <1>1
<1> QED BY <1>4, <1>6, <1>7, <1>8, <1>9 DEF FlagsInv

LEMMA KeyNumbers ==
  ASSUME Types, NEW w \in Writers, jobs[At(w)] < MaxJobs[At(w)]
  PROVE  /\ FreshKey(w) \in Keys /\ FreshKey(w) # 0
         /\ FreshKey(w) % 2 = (IF w \in Workers THEN 1 ELSE 0)
         /\ w \in Directors => FreshKey(w) = LastKey + 2
         /\ LastId + 1 \in Ids
<1> USE TypeFacts
<1>0. Checkouts = {"wt", "main"} /\ WorkerJobs \in Nat /\ DirectorJobs \in Nat /\ MaxPlants \in Nat
  BY FlagsAssumption DEF Checkouts
<1>1. plants <= MaxPlants /\ jobs["wt"] <= WorkerJobs /\ jobs["main"] <= DirectorJobs
  BY DEF Types
<1>2. LastId + 1 \in Ids
  <2>1. jobs["wt"] \in Nat /\ jobs["main"] \in Nat /\ plants \in Nat
    OBVIOUS
  <2>2. jobs["wt"] < WorkerJobs \/ jobs["main"] < DirectorJobs
    BY <1>0 DEF At, MaxJobs
  <2>3. jobs["wt"] + jobs["main"] < WorkerJobs + DirectorJobs
    BY <1>0, <1>1, <2>1, <2>2
  <2> QED BY <1>1, <2>1, <2>3, NextIdFits
<1>3. CASE w \in Workers
  <2>1. FreshKey(w) = 2 * jobs["wt"] + 1 /\ jobs["wt"] < WorkerJobs
    BY <1>0, <1>3 DEF FreshKey, At, MaxJobs
  <2>2. FreshKey(w) % 2 = 1
    BY <2>1, Parity
  <2>3. w \notin Directors
    BY <1>3
  <2>4. FreshKey(w) \in Keys /\ FreshKey(w) # 0
    BY <1>0, <2>1 DEF Keys
  <2> QED BY <1>2, <1>3, <2>2, <2>3, <2>4
<1>4. CASE w \notin Workers
  <2>1. FreshKey(w) = 2 * jobs["main"] + 2 /\ jobs["main"] < DirectorJobs
    BY <1>0, <1>4 DEF FreshKey, At, MaxJobs
  <2>2. FreshKey(w) % 2 = 0
    BY <2>1, Parity
  <2>3. FreshKey(w) \in Keys /\ FreshKey(w) # 0
    BY <1>0, <2>1 DEF Keys
  <2> QED BY <1>2, <1>4, <2>1, <2>2, <2>3 DEF LastKey
<1> QED BY <1>3, <1>4

LEMMA RaiseKeeps ==
  ASSUME FlagsInv, NEW w \in Writers, NEW k \in Keys, RaiseFlag(w, k), k # 0,
         k % 2 = (IF w \in Workers THEN 1 ELSE 0), w \in Directors => k <= LastKey + 2
  PROVE  FlagsInv'
<1>1. Types /\ LogsSound
  BY DEF FlagsInv
<1> DEFINE L == log[At(w)]
           kind == IF w \in Workers THEN "note" ELSE ORACLE_ESCAPE
<1>2. L \in Seq(FlagEvent) /\ LogSound(L, LastId, LastKey)
  BY <1>1, TypeFacts DEF LogsSound, At
<1>3. /\ next_id(L) \in 1 .. LastId + 1 /\ \A i \in flag_ids(L) : i < next_id(L)
      /\ LastId \in Nat
  BY <1>1, <1>2, TypeFacts, NextIdFacts
<1>4. next_id(L) \notin flag_ids(L)
  BY <1>3
<1>5. LastId + 1 \in Ids
  BY <1>1, KeyNumbers DEF RaiseFlag, Enter
<1>6. next_id(L) \in Ids /\ next_id(L) # 0
  BY <1>3, <1>5, FlagsAssumption DEF Ids
<1>7. PICK c : c = [pc |-> "append", job |-> "raise", id |-> next_id(L), key |-> k, kind |-> kind]
  OBVIOUS
<1>8. c \in CommandType /\ c.pc = "append" /\ c.job = "raise" /\ c.id = next_id(L) /\ c.key = k
      /\ c.kind = kind
  BY <1>6, <1>7 DEF CommandType, FLAG_KINDS
<1>9. Enter(w) /\ cmd' = [cmd EXCEPT ![w] = c]
  BY <1>7 DEF RaiseFlag
<1>10. c.id <= LastId + 1
  BY <1>3, <1>8
<1> HIDE DEF L, kind
<1> QED BY <1>4, <1>6, <1>8, <1>9, <1>10, EnterKeeps DEF L, kind

LEMMA ResolveKeeps ==
  ASSUME FlagsInv, NEW w \in Writers, NEW i, NEW r \in FLAG_RESOLUTIONS, ResolveFlag(w, i, r)
  PROVE  FlagsInv'
<1>1. Types /\ LogsSound
  BY DEF FlagsInv
<1>2. log[At(w)] \in Seq(FlagEvent) /\ LogSound(log[At(w)], LastId, LastKey) /\ LastId \in Nat
      /\ LastKey \in Nat
  BY <1>1, TypeFacts DEF LogsSound, At
<1>3. /\ i \in flag_ids(log[At(w)]) /\ derive_flags(log[At(w)])[i].status = "open"
      /\ derive_flags(log[At(w)])[i].kind = ORACLE_ESCAPE => w \in Directors
  BY DEF ResolveFlag, resolvable, open_flags
<1>4. \E n \in DOMAIN log[At(w)] : log[At(w)][n].id = i
  BY <1>3, FlagIds
<1>5. i \in Ids /\ i <= LastId /\ i \in Nat /\ i # 0
  <2>1. PICK n \in DOMAIN log[At(w)] : log[At(w)][n].id = i
    BY <1>4
  <2>2. log[At(w)][n] \in FlagEvent
    BY <1>2, LogFacts
  <2> QED BY <1>2, <2>1, <2>2, EventFacts DEF LogSound, FlagEvent
<1>6. Resolutions(log[At(w)], i) = {}
  <2> SUFFICES ASSUME Resolutions(log[At(w)], i) # {} PROVE FALSE
    OBVIOUS
  <2>1. PICK m \in Resolutions(log[At(w)], i) : m = Least(Resolutions(log[At(w)], i))
    BY <1>2, ResolutionFacts
  <2>2. log[At(w)][m].kind = "open"
    BY <1>3, <2>1, DerivedFlag
  <2>3. log[At(w)][m] \in FlagEvent
    BY <1>2, LogFacts DEF Resolutions
  <2> QED BY <2>2, <2>3 DEF FlagEvent, FLAG_KINDS, FLAG_RESOLUTIONS, ORACLE_ESCAPE
<1>7. KindOf(log[At(w)], i) = ORACLE_ESCAPE => w \in Directors
  BY <1>3, DerivedFlag
<1>8. /\ FreshKey(w) \in Keys /\ FreshKey(w) # 0
      /\ FreshKey(w) % 2 = (IF w \in Workers THEN 1 ELSE 0)
      /\ w \in Directors => FreshKey(w) = LastKey + 2
  BY <1>1, KeyNumbers DEF ResolveFlag, Enter
<1>9. PICK c : c = [pc |-> "append", job |-> r, id |-> i, key |-> FreshKey(w), kind |-> "none"]
  OBVIOUS
<1>10. c \in CommandType /\ c.pc = "append" /\ c.job = r /\ c.id = i /\ c.key = FreshKey(w)
       /\ c.kind = "none"
  BY <1>5, <1>8, <1>9 DEF CommandType
<1>11. Enter(w) /\ cmd' = [cmd EXCEPT ![w] = c]
  BY <1>9 DEF ResolveFlag
<1>12. c.job # "raise" /\ c.id <= LastId + 1 /\ (w \in Directors => c.key <= LastKey + 2)
  BY <1>2, <1>5, <1>8, <1>10 DEF FLAG_RESOLUTIONS
<1> QED BY <1>3, <1>6, <1>7, <1>8, <1>10, <1>11, <1>12, EnterKeeps

\* A command that is not on a log that changed is still right about it.
LEMMA BystanderKeeps ==
  ASSUME Types, Types', NEW v \in Writers, CommandSound(v), cmd'[v] = cmd[v],
         InSection(v) => log'[At(v)] = log[At(v)],
         Begins(log["main"], log'["main"]), LastId <= LastId', LastKey <= LastKey'
  PROVE  CommandSound(v)'
<1>1. /\ cmd[v] \in CommandType /\ LastId \in Nat /\ LastKey \in Nat
      /\ log["main"] \in Seq(FlagEvent)
  BY TypeFacts
<1>2. LastId' \in Nat /\ LastKey' \in Nat /\ log'["main"] \in Seq(FlagEvent)
  <2>1. "wt" \in Checkouts /\ "main" \in Checkouts
    BY DEF Checkouts
  <2>2. jobs'["wt"] \in Nat /\ jobs'["main"] \in Nat /\ plants' \in Nat
        /\ log'["main"] \in Seq(FlagEvent)
    BY <2>1 DEF Types
  <2>3. LastId' = jobs'["wt"] + jobs'["main"] + 2 * plants' /\ LastKey' = 2 * jobs'["main"]
    BY DEF LastId, LastKey
  <2> QED BY <2>2, <2>3
<1>3. cmd[v].id \in Nat /\ cmd[v].key \in Nat
  BY <1>1, FlagsAssumption DEF CommandType, Ids, Keys
<1>4. RaiseSound(v)' /\ ResolveSound(v)'
  BY DEF CommandSound, RaiseSound, ResolveSound, InSection, At
<1>5. AnchorSound(v)'
  BY <1>1, <1>2, SettledFirst DEF CommandSound, AnchorSound
<1>6. NumbersSound(v)'
  BY <1>1, <1>2, <1>3 DEF CommandSound, NumbersSound
<1> QED BY <1>4, <1>5, <1>6 DEF CommandSound

LEMMA BeginsSelf == \A entries : Len(entries) \in Nat => Begins(entries, entries)
BY DEF Begins

LEMMA IdleTyped == Idle \in CommandType /\ Idle.pc = "idle"
<1>1. 0 \in Keys
  BY FlagsAssumption DEF Keys
<1> QED BY <1>1 DEF Idle, CommandType

\* A command ends: its process returned, or was killed.
LEMMA EndKeeps ==
  ASSUME FlagsInv, NEW w \in Writers, cmd' = [cmd EXCEPT ![w] = Idle],
         UNCHANGED <<log, pushed, acked, jobs, plants>>
  PROVE  FlagsInv'
<1>0. /\ Types /\ LogsSound /\ OneInSection
      /\ (\A v \in Writers : CommandSound(v)) /\ \A a \in acked : AckStands(a, log[a.at])
  BY DEF FlagsInv
<1>1. cmd'[w] = Idle /\ (\A v \in Writers : v # w => cmd'[v] = cmd[v])
      /\ cmd' \in [Writers -> CommandType]
  BY <1>0, IdleTyped DEF Types
<1>2. Types'
  BY <1>0, <1>1 DEF Types
<1>3. LastId' = LastId /\ LastKey' = LastKey /\ LastId \in Nat /\ LastKey \in Nat
  BY <1>0, TypeFacts DEF LastId, LastKey
<1>4. LogsSound'
  BY <1>0, <1>3 DEF LogsSound
<1>5. OneInSection'
  BY <1>0, <1>1, IdleTyped DEF OneInSection, InSection, At
<1>6. ASSUME NEW v \in Writers PROVE CommandSound(v)'
  <2>1. CASE v = w
    BY <1>1, <2>1, IdleTyped
       DEF CommandSound, RaiseSound, ResolveSound, AnchorSound, NumbersSound, InSection
  <2>2. CASE v # w
    <3>1. log["main"] \in Seq(FlagEvent)
      BY <1>0, TypeFacts
    <3>2. Begins(log["main"], log'["main"])
      BY <3>1, BeginsSelf
    <3>3. LastId <= LastId' /\ LastKey <= LastKey'
      BY <1>3
    <3> QED BY <1>0, <1>1, <1>2, <2>2, <3>2, <3>3, BystanderKeeps
  <2> QED BY <2>1, <2>2
<1> QED BY <1>0, <1>2, <1>4, <1>5, <1>6 DEF FlagsInv

\* A command appends its event.
LEMMA AppendKeeps ==
  ASSUME FlagsInv, NEW w \in Writers, AppendEvent(w)
  PROVE  FlagsInv'
<1>0. /\ Types /\ LogsSound /\ OneInSection
      /\ (\A v \in Writers : CommandSound(v)) /\ \A a \in acked : AckStands(a, log[a.at])
  BY DEF FlagsInv
<1>1. PICK L, c, e, ack :
        /\ L = log[At(w)] /\ c = cmd[w]
        /\ e = IF c.job = "raise" THEN Flag(c.id, c.kind, c.key) ELSE FlagResolved(c.id, c.job, c.key)
        /\ ack = [at |-> At(w), job |-> c.job, id |-> c.id, key |-> c.key]
  OBVIOUS
<1>2. /\ L \in Seq(FlagEvent) /\ c \in CommandType /\ At(w) \in Checkouts /\ LastId \in Nat
      /\ LastKey \in Nat /\ log["main"] \in Seq(FlagEvent) /\ LogSound(L, LastId, LastKey)
  BY <1>0, <1>1, TypeFacts DEF LogsSound, At
<1>3. /\ c.pc = "append" /\ log' = [log EXCEPT ![At(w)] = Append(L, e)]
      /\ acked' = acked \cup {ack}
      /\ cmd' = [cmd EXCEPT ![w] = IF c.kind = ORACLE_ESCAPE THEN [c EXCEPT !.pc = "anchor"] ELSE Idle]
      /\ pushed' = pushed /\ jobs' = jobs /\ plants' = plants
  BY <1>1 DEF AppendEvent
<1>4. CommandSound(w) /\ InSection(w)
  BY <1>0, <1>1, <1>3 DEF InSection
<1>5. /\ c.id \in Ids /\ c.id # 0 /\ c.id <= LastId /\ c.key # 0 /\ c.key \in Keys
      /\ c.key % 2 = (IF w \in Workers THEN 1 ELSE 0) /\ (w \in Directors => c.key <= LastKey)
      /\ c.job \in {"raise"} \cup FLAG_RESOLUTIONS
  <2>1. CASE c.job = "raise"
    BY <1>1, <1>2, <1>3, <1>4, <2>1
       DEF CommandSound, RaiseSound, NumbersSound, CommandType
  <2>2. CASE c.job # "raise"
    <3>1. c.id \in flag_ids(L) /\ c.job \in FLAG_RESOLUTIONS
      BY <1>1, <1>4, <2>2 DEF CommandSound, ResolveSound
    <3>2. PICK n \in DOMAIN L : L[n].id = c.id
      BY <3>1, FlagIds
    <3>3. c.id \in Ids /\ c.id # 0
      <4>1. L[n] \in FlagEvent
        BY <1>2, LogFacts
      <4> QED BY <3>2, <4>1, EventFacts DEF FlagEvent
    <3> QED BY <1>1, <1>2, <1>3, <1>4, <3>1, <3>3 DEF CommandSound, NumbersSound, CommandType
  <2> QED BY <2>1, <2>2
<1>6. ack.id = c.id /\ ack.job = c.job /\ ack.key = c.key /\ ack.at = At(w) /\ ack \in AckType
  BY <1>1, <1>2, <1>5 DEF AckType
<1>7. /\ e \in FlagEvent /\ LogSound(Append(L, e), LastId, LastKey)
      /\ AckStands(ack, Append(L, e))
      /\ c.kind = ORACLE_ESCAPE =>
           /\ w \in Directors /\ c.job = "raise" /\ c.id \in flag_ids(Append(L, e))
           /\ KindOf(Append(L, e), c.id) = ORACLE_ESCAPE /\ KeyOf(Append(L, e), c.id) = c.key
  <2>1. CASE c.job = "raise"
    <3>1. /\ c.id \notin flag_ids(L)
          /\ c.kind = IF w \in Workers THEN "note" ELSE ORACLE_ESCAPE
      BY <1>1, <1>4, <2>1 DEF CommandSound, RaiseSound
    <3>2. e.action = "flag" /\ e.id = c.id /\ e.kind = c.kind /\ e.key = c.key /\ e \in FlagEvent
      BY <1>1, <1>5, <2>1, <3>1 DEF Flag, FlagEvent, FLAG_KINDS
    <3>3. LogSound(Append(L, e), LastId, LastKey)
      <4>1. e.key % 2 = 0 => e.key <= LastKey
        BY <1>5, <3>2 DEF Writers
      <4>2. e.kind = ORACLE_ESCAPE => e.key % 2 = 0
        BY <1>5, <3>1, <3>2 DEF ORACLE_ESCAPE
      <4> QED BY <1>2, <1>5, <3>2, <4>1, <4>2, SoundOneMore
    <3>4. /\ c.id \in flag_ids(Append(L, e)) /\ KindOf(Append(L, e), c.id) = c.kind
          /\ KeyOf(Append(L, e), c.id) = c.key
      BY <1>2, <3>1, <3>2, NewFlag, IdsOneMore
    <3>5. AckStands(ack, Append(L, e))
      BY <1>6, <2>1, <3>4 DEF AckStands
    <3> QED BY <2>1, <3>1, <3>2, <3>3, <3>4, <3>5 DEF ORACLE_ESCAPE, Writers
  <2>2. CASE c.job # "raise"
    <3>1. /\ c.job \in FLAG_RESOLUTIONS /\ c.kind = "none"
          /\ c.id \in flag_ids(L) /\ Resolutions(L, c.id) = {}
          /\ KindOf(L, c.id) = ORACLE_ESCAPE => w \in Directors
      BY <1>1, <1>4, <2>2 DEF CommandSound, ResolveSound
    <3>2. /\ e.action = "flag-resolved" /\ e.id = c.id /\ e.kind = c.job /\ e.key = c.key
          /\ e \in FlagEvent
      BY <1>1, <1>5, <2>2, <3>1 DEF FlagResolved, FlagEvent
    <3>3. LogSound(Append(L, e), LastId, LastKey)
      <4>1. e.key % 2 = 0 => e.key <= LastKey
        BY <1>5, <3>2 DEF Writers
      <4>2. e.key % 2 # 0 => e.id \in flag_ids(L) /\ KindOf(L, e.id) # ORACLE_ESCAPE
        BY <1>5, <3>1, <3>2, TypeFacts, <1>0
      <4> QED BY <1>2, <1>5, <3>2, <4>1, <4>2, SoundOneMore
    <3>4. Resolutions(Append(L, e), c.id) = {Len(L) + 1}
      BY <1>2, <3>1, <3>2, ResolutionsOneMore
    <3>5. Least({Len(L) + 1}) = Len(L) + 1
      <4>1. Len(L) + 1 \in Nat
        BY <1>2, LogFacts
      <4> QED BY <4>1, LeastFacts
    <3>6. c.id \in flag_ids(Append(L, e)) /\ Append(L, e)[Len(L) + 1] = e
      BY <1>2, <3>1, <3>2, IdsOneMore, OneMore
    <3>7. AckStands(ack, Append(L, e))
      BY <1>6, <2>2, <3>2, <3>4, <3>5, <3>6 DEF AckStands
    <3> QED BY <3>1, <3>2, <3>3, <3>7 DEF ORACLE_ESCAPE
  <2> QED BY <2>1, <2>2
<1>8. PICK M : M = Append(L, e)
  OBVIOUS
<1>9. /\ M \in Seq(FlagEvent) /\ Begins(L, M) /\ log' = [log EXCEPT ![At(w)] = M]
      /\ LogSound(M, LastId, LastKey) /\ AckStands(ack, M)
  BY <1>2, <1>3, <1>7, <1>8, OneMore
<1>10. /\ log'[At(w)] = M /\ \A k \in Checkouts : k # At(w) => log'[k] = log[k]
       /\ log' \in [Checkouts -> Seq(FlagEvent)]
  BY <1>0, <1>2, <1>9 DEF Types
<1>11. \A k \in Checkouts :
          log[k] \in Seq(FlagEvent) /\ log'[k] \in Seq(FlagEvent) /\ Begins(log[k], log'[k])
  BY <1>0, <1>1, <1>9, <1>10, BeginsSelf, LogFacts DEF Types
<1>12. /\ cmd' \in [Writers -> CommandType] /\ \A v \in Writers : v # w => cmd'[v] = cmd[v]
       /\ cmd'[w] = IF c.kind = ORACLE_ESCAPE THEN [c EXCEPT !.pc = "anchor"] ELSE Idle
  <2>1. [c EXCEPT !.pc = "anchor"] \in CommandType
    BY <1>2 DEF CommandType
  <2> QED BY <1>0, <1>3, <2>1, IdleTyped DEF Types
<1>13. Types'
  <2>1. acked' \in SUBSET AckType
    BY <1>0, <1>3, <1>6 DEF Types
  <2> QED BY <1>0, <1>3, <1>10, <1>12, <2>1 DEF Types
<1>14. LastId' = LastId /\ LastKey' = LastKey
  BY <1>3 DEF LastId, LastKey
<1>15. LogsSound'
  <2>1. At(w) \in {"wt", "main"} /\ Checkouts = {"wt", "main"}
    BY DEF At, Checkouts
  <2>2. LogSound(log'["wt"], LastId, LastKey) /\ LogSound(log'["main"], LastId, LastKey)
    BY <1>0, <1>9, <1>10, <2>1 DEF LogsSound
  <2> QED BY <1>0, <1>3, <1>14, <2>2 DEF LogsSound
<1>16. cmd'[w].pc # "append"
  <2>1. [c EXCEPT !.pc = "anchor"].pc = "anchor"
    BY <1>2 DEF CommandType
  <2> QED BY <1>12, <2>1, IdleTyped
<1>17. OneInSection'
  BY <1>0, <1>12, <1>16 DEF OneInSection, InSection, At
<1>18. ASSUME NEW v \in Writers PROVE CommandSound(v)'
  <2>1. CASE v = w
    <3>1. CASE c.kind = ORACLE_ESCAPE
      <4>1. PICK d : d = [c EXCEPT !.pc = "anchor"]
        OBVIOUS
      <4>2. d.pc = "anchor" /\ d.id = c.id /\ d.key = c.key /\ d.job = c.job /\ cmd'[v] = d
        BY <1>2, <1>12, <2>1, <3>1, <4>1 DEF CommandType
      <4>3. w \in Directors /\ At(w) = "main"
        BY <1>0, <1>7, <3>1, TypeFacts
      <4>4. AnchorSound(v)'
        BY <1>7, <1>8, <1>10, <2>1, <3>1, <4>2, <4>3 DEF AnchorSound
      <4>5. NumbersSound(v)'
        BY <1>5, <1>14, <2>1, <4>2 DEF NumbersSound
      <4> QED
        BY <1>16, <2>1, <4>4, <4>5 DEF CommandSound, RaiseSound, ResolveSound, InSection
    <3>2. CASE c.kind # ORACLE_ESCAPE
      BY <1>12, <2>1, <3>2, IdleTyped
         DEF CommandSound, RaiseSound, ResolveSound, AnchorSound, NumbersSound, InSection
    <3> QED BY <3>1, <3>2
  <2>2. CASE v # w
    <3>1. InSection(v) => At(v) # At(w)
      BY <1>0, <1>4, <2>2 DEF OneInSection
    <3>2. InSection(v) => log'[At(v)] = log[At(v)]
      BY <1>10, <3>1 DEF At, Checkouts
    <3>3. Begins(log["main"], log'["main"]) /\ LastId <= LastId' /\ LastKey <= LastKey'
      BY <1>2, <1>11, <1>14 DEF Checkouts
    <3> QED BY <1>0, <1>12, <1>13, <2>2, <3>2, <3>3, BystanderKeeps
  <2> QED BY <2>1, <2>2
<1>19. ASSUME NEW a \in acked' PROVE AckStands(a, log'[a.at])
  <2>1. CASE a = ack
    BY <1>6, <1>9, <1>10, <2>1
  <2>2. CASE a \in acked
    <3>1. a.at \in Checkouts
      BY <1>0, <2>2 DEF Types, AckType
    <3> QED BY <1>0, <1>11, <2>2, <3>1, AckLater
  <2> QED BY <1>3, <2>1, <2>2
<1> QED BY <1>13, <1>15, <1>17, <1>18, <1>19 DEF FlagsInv

-----------------------------------------------------------------------------
(* The steps of the worktree and of main                                   *)

\* A loop that ends pushes the worktree's log.
LEMMA LoopEndsKeeps == FlagsInv /\ LoopEnds => FlagsInv'
<1> SUFFICES ASSUME FlagsInv, LoopEnds PROVE FlagsInv'
  OBVIOUS
<1>1. /\ pushed' = log["wt"] /\ log' = log /\ cmd' = cmd /\ acked' = acked /\ jobs' = jobs
      /\ plants' = plants
  BY DEF LoopEnds
<1>2. Types /\ log["wt"] \in Seq(FlagEvent)
  BY TypeFacts DEF FlagsInv
<1>3. Types'
  BY <1>1, <1>2 DEF Types
<1>4. LastId' = LastId /\ LastKey' = LastKey
  BY <1>1 DEF LastId, LastKey
<1>5. LogsSound'
  BY <1>1, <1>4 DEF FlagsInv, LogsSound
<1>6. OneInSection'
  BY <1>1 DEF FlagsInv, OneInSection, InSection, At
<1>7. ASSUME NEW v \in Writers PROVE CommandSound(v)'
  <2>1. CommandSound(v)
    BY DEF FlagsInv
  <2> QED
    BY <1>1, <1>4, <2>1
       DEF CommandSound, RaiseSound, ResolveSound, AnchorSound, NumbersSound, InSection, At
<1>8. \A a \in acked' : AckStands(a, log'[a.at])
  BY <1>1 DEF FlagsInv
<1> QED BY <1>3, <1>5, <1>6, <1>7, <1>8 DEF FlagsInv

\* An agent writes a flag event of its own making.
LEMMA PlantKeeps == FlagsInv /\ Plant => FlagsInv'
<1> SUFFICES ASSUME FlagsInv, Plant PROVE FlagsInv'
  OBVIOUS
<1>0. /\ Types /\ LogsSound /\ OneInSection
      /\ (\A v \in Writers : CommandSound(v)) /\ \A a \in acked : AckStands(a, log[a.at])
  BY DEF FlagsInv
<1>1. PICK L, e : L = log["wt"] /\ e \in Forged(L) /\ log' = [log EXCEPT !["wt"] = Append(L, e)]
  BY DEF Plant
<1>2. /\ plants < MaxPlants /\ plants' = plants + 1 /\ (\A w \in Workers : ~InSection(w))
      /\ log' = [log EXCEPT !["wt"] = Append(L, e)]
      /\ pushed' = pushed /\ cmd' = cmd /\ acked' = acked /\ jobs' = jobs
  BY <1>1 DEF Plant
<1>3. /\ L \in Seq(FlagEvent) /\ LogSound(L, LastId, LastKey) /\ LastId \in Nat /\ LastKey \in Nat
      /\ pushed \in Seq(FlagEvent) /\ log["main"] \in Seq(FlagEvent) /\ plants \in Nat
      /\ jobs["wt"] \in Nat /\ jobs["main"] \in Nat
  BY <1>0, <1>1, TypeFacts DEF LogsSound, Types
<1>4. /\ LastId' = jobs["wt"] + jobs["main"] + 2 * (plants + 1) /\ LastKey' = LastKey
      /\ LastId = jobs["wt"] + jobs["main"] + 2 * plants
  BY <1>2 DEF LastId, LastKey
<1>5. LastId' = LastId + 2 /\ LastId' \in Nat /\ LastKey' \in Nat
  <2>1. jobs["wt"] \in Nat /\ jobs["main"] \in Nat /\ plants \in Nat /\ LastKey \in Nat
    BY <1>3
  <2> QED BY <1>4, <2>1
<1>6. next_id(L) \in 1 .. LastId + 1
  BY <1>3, NextIdFacts
<1>7. /\ WorkerJobs \in Nat /\ DirectorJobs \in Nat /\ MaxPlants \in Nat
      /\ jobs["wt"] <= WorkerJobs /\ jobs["main"] <= DirectorJobs
  BY <1>0, FlagsAssumption DEF Types
<1>8. /\ 1 + next_id(L) \in Ids /\ 1 + next_id(L) <= LastId'
      /\ next_id(L) \in Ids /\ next_id(L) <= LastId'
  <2>1. 1 + next_id(L) <= LastId + 2 /\ next_id(L) \in Nat /\ next_id(L) >= 1
    BY <1>3, <1>6
  <2>2. LastId + 2 <= WorkerJobs + DirectorJobs + 2 * MaxPlants
    <3>1. /\ jobs["wt"] \in Nat /\ jobs["main"] \in Nat /\ plants \in Nat
          /\ plants + 1 <= MaxPlants /\ LastId = jobs["wt"] + jobs["main"] + 2 * plants
      BY <1>2, <1>3, <1>4, <1>7
    <3> QED BY <1>7, <3>1
  <2> QED BY <1>3, <1>5, <1>7, <2>1, <2>2 DEF Ids
<1>9. /\ e \in FlagEvent /\ e.key = 0 /\ e.id <= LastId'
  <2>1. 0 \in Keys
    BY FlagsAssumption DEF Keys
  <2>2. \A i \in flag_ids(L) : i \in Ids /\ i <= LastId'
    <3>1. ASSUME NEW i \in flag_ids(L) PROVE i \in Ids /\ i \in Nat /\ i <= LastId
      <4>1. PICK n \in DOMAIN L : L[n].id = i
        BY FlagIds
      <4>2. L[n] \in FlagEvent /\ L[n].id <= LastId
        BY <1>3, LogFacts DEF LogSound
      <4> QED BY <4>1, <4>2, EventFacts DEF FlagEvent
    <3> QED BY <1>3, <1>5, <3>1
  <2>3. CASE e = Flag(1 + next_id(L), ORACLE_ESCAPE, 0)
    BY <1>8, <2>1, <2>3 DEF Flag, FlagEvent, FLAG_KINDS
  <2>4. CASE e # Flag(1 + next_id(L), ORACLE_ESCAPE, 0)
    <3>1. PICK i \in flag_ids(L) \cup {next_id(L)}, r \in FLAG_RESOLUTIONS : e = FlagResolved(i, r, 0)
      BY <1>1, <2>4 DEF Forged
    <3>2. i \in Ids /\ i <= LastId'
      BY <1>8, <2>2, <3>1
    <3> QED BY <2>1, <3>1, <3>2 DEF FlagResolved, FlagEvent
  <2> QED BY <2>3, <2>4
<1>10. \A entries \in Seq(FlagEvent) :
          LogSound(entries, LastId, LastKey) => LogSound(entries, LastId', LastKey')
  <2>1. LastId <= LastId' /\ LastKey <= LastKey'
    BY <1>3, <1>4, <1>5
  <2> QED BY <1>3, <1>5, <2>1, SoundLater
<1>11. PICK M : M = Append(L, e)
  OBVIOUS
<1>12. M \in Seq(FlagEvent) /\ Begins(L, M) /\ LogSound(M, LastId', LastKey')
  <2>1. LogSound(L, LastId', LastKey')
    BY <1>3, <1>10
  <2>2. e.key % 2 = 0 /\ e.key <= LastKey'
    BY <1>5, <1>9
  <2>3. LogSound(Append(L, e), LastId', LastKey')
    BY <1>3, <1>9, <2>1, <2>2, SoundOneMore
  <2> QED BY <1>3, <1>9, <1>11, <2>3, OneMore
<1>13. /\ log'["wt"] = M /\ log'["main"] = log["main"] /\ log' \in [Checkouts -> Seq(FlagEvent)]
  BY <1>0, <1>2, <1>11, <1>12 DEF Types, Checkouts
<1>14. Types'
  <2>1. plants' \in Nat /\ plants' <= MaxPlants
    BY <1>2, <1>3, <1>7
  <2> QED BY <1>0, <1>2, <1>13, <2>1 DEF Types
<1>15. LogsSound'
  BY <1>0, <1>2, <1>3, <1>10, <1>12, <1>13 DEF LogsSound
<1>16. OneInSection'
  BY <1>0, <1>2 DEF OneInSection, InSection, At
<1>17. ASSUME NEW v \in Writers PROVE CommandSound(v)'
  <2>1. InSection(v) => log'[At(v)] = log[At(v)]
    BY <1>2, <1>13 DEF At
  <2>2. Begins(log["main"], log'["main"]) /\ LastId <= LastId' /\ LastKey <= LastKey' /\ cmd'[v] = cmd[v]
    <3>1. Begins(log["main"], log'["main"])
      BY <1>3, <1>13, BeginsSelf
    <3>2. LastId \in Nat /\ LastKey \in Nat /\ cmd'[v] = cmd[v]
      BY <1>2, <1>3
    <3>3. LastId <= LastId' /\ LastKey <= LastKey'
      BY <1>4, <1>5, <3>2
    <3> QED BY <3>1, <3>2, <3>3
  <2> QED BY <1>0, <1>14, <2>1, <2>2, BystanderKeeps
<1>18. ASSUME NEW a \in acked' PROVE AckStands(a, log'[a.at])
  <2>1. a.at \in {"wt", "main"} /\ AckStands(a, log[a.at])
    BY <1>0, <1>2 DEF Types, AckType, Checkouts
  <2>2. CASE a.at = "wt"
    BY <1>1, <1>3, <1>12, <1>13, <2>1, <2>2, AckLater
  <2>3. CASE a.at = "main"
    BY <1>13, <2>1, <2>3
  <2> QED BY <2>1, <2>2, <2>3
<1> QED BY <1>14, <1>15, <1>16, <1>17, <1>18 DEF FlagsInv

\* The Director merges the branch: main's log is the pushed one, which continues it.
LEMMA ContinuesBegins ==
  ASSUME Types, Continues
  PROVE  Begins(log["main"], pushed)
<1>1. log["main"] \in Seq(FlagEvent) /\ pushed \in Seq(FlagEvent)
  BY TypeFacts DEF Types
<1>2. PICK L : L = log["main"]
  OBVIOUS
<1>3. Len(L) <= Len(pushed) /\ SubSeq(pushed, 1, Len(L)) = L
  BY <1>2 DEF Continues
<1>4. ASSUME NEW n \in DOMAIN L PROVE pushed[n] = L[n]
  <2>1. n \in 1 .. Len(L)
    BY <1>1, <1>2
  <2>2. SubSeq(pushed, 1, Len(L))[n] = pushed[n]
    BY <1>1, <1>2, <1>3, <2>1
  <2> QED BY <1>3, <2>2
<1> QED BY <1>2, <1>3, <1>4 DEF Begins

LEMMA MergeTaskKeeps == FlagsInv /\ MergeTask => FlagsInv'
<1> SUFFICES ASSUME FlagsInv, MergeTask PROVE FlagsInv'
  OBVIOUS
<1>0. /\ Types /\ LogsSound /\ OneInSection
      /\ (\A v \in Writers : CommandSound(v)) /\ \A a \in acked : AckStands(a, log[a.at])
  BY DEF FlagsInv
<1>1. /\ log' = [log EXCEPT !["main"] = pushed] /\ (\A w \in Directors : cmd[w].pc = "idle")
      /\ pushed' = pushed /\ cmd' = cmd /\ acked' = acked /\ jobs' = jobs /\ plants' = plants
  BY DEF MergeTask
<1>2. Begins(log["main"], pushed) /\ log["main"] \in Seq(FlagEvent) /\ pushed \in Seq(FlagEvent)
      /\ LastId \in Nat /\ LastKey \in Nat
  BY <1>0, TypeFacts, ContinuesBegins DEF Types, MergeTask
<1>3. /\ log'["main"] = pushed /\ log'["wt"] = log["wt"] /\ log' \in [Checkouts -> Seq(FlagEvent)]
  BY <1>0, <1>1, <1>2 DEF Types, Checkouts
<1>4. LastId' = LastId /\ LastKey' = LastKey
  BY <1>1 DEF LastId, LastKey
<1>5. Types'
  BY <1>0, <1>1, <1>3 DEF Types
<1>6. LogsSound'
  BY <1>0, <1>1, <1>3, <1>4 DEF LogsSound
<1>7. OneInSection'
  BY <1>0, <1>1 DEF OneInSection, InSection, At
<1>8. ASSUME NEW v \in Writers PROVE CommandSound(v)'
  <2>1. InSection(v) => log'[At(v)] = log[At(v)]
    BY <1>1, <1>3 DEF InSection, At, Writers
  <2> QED BY <1>0, <1>1, <1>2, <1>3, <1>4, <1>5, <2>1, BystanderKeeps
<1>9. ASSUME NEW a \in acked' PROVE AckStands(a, log'[a.at])
  <2>1. a.at \in {"wt", "main"} /\ AckStands(a, log[a.at])
    BY <1>0, <1>1 DEF Types, AckType, Checkouts
  <2>2. CASE a.at = "main"
    BY <1>2, <1>3, <2>1, <2>2, AckLater
  <2>3. CASE a.at = "wt"
    BY <1>3, <2>1, <2>3
  <2> QED BY <2>1, <2>2, <2>3
<1> QED BY <1>5, <1>6, <1>7, <1>8, <1>9 DEF FlagsInv

\* A rework's worktree starts with main's log; only what main says is still promised.
LEMMA ReworkKeeps == FlagsInv /\ Rework => FlagsInv'
<1> SUFFICES ASSUME FlagsInv, Rework PROVE FlagsInv'
  OBVIOUS
<1>0. /\ Types /\ LogsSound /\ OneInSection
      /\ (\A v \in Writers : CommandSound(v)) /\ \A a \in acked : AckStands(a, log[a.at])
  BY DEF FlagsInv
<1>1. /\ log' = [log EXCEPT !["wt"] = log["main"]] /\ pushed' = <<>>
      /\ (\A w \in Workers : cmd[w].pc = "idle") /\ acked' = {a \in acked : a.at = "main"}
      /\ cmd' = cmd /\ jobs' = jobs /\ plants' = plants
  BY DEF Rework
<1>2. log["main"] \in Seq(FlagEvent) /\ LastId \in Nat /\ LastKey \in Nat
  BY <1>0, TypeFacts
<1>3. /\ log'["main"] = log["main"] /\ log'["wt"] = log["main"]
      /\ log' \in [Checkouts -> Seq(FlagEvent)]
  BY <1>0, <1>1, <1>2 DEF Types, Checkouts
<1>4. LastId' = LastId /\ LastKey' = LastKey
  BY <1>1 DEF LastId, LastKey
<1>5. Types'
  BY <1>0, <1>1, <1>3 DEF Types
<1>6. LogsSound'
  <2>1. LogSound(pushed', LastId, LastKey)
    BY <1>1 DEF LogSound
  <2> QED BY <1>0, <1>3, <1>4, <2>1 DEF LogsSound
<1>7. OneInSection'
  BY <1>0, <1>1 DEF OneInSection, InSection, At
<1>8. ASSUME NEW v \in Writers PROVE CommandSound(v)'
  <2>1. InSection(v) => log'[At(v)] = log[At(v)]
    BY <1>1, <1>3 DEF InSection, At
  <2>2. Begins(log["main"], log'["main"]) /\ LastId <= LastId' /\ LastKey <= LastKey'
    BY <1>2, <1>3, <1>4, BeginsSelf
  <2> QED BY <1>0, <1>1, <1>5, <2>1, <2>2, BystanderKeeps
<1>9. \A a \in acked' : AckStands(a, log'[a.at])
  BY <1>0, <1>1, <1>3
<1> QED BY <1>5, <1>6, <1>7, <1>8, <1>9 DEF FlagsInv

LEMMA FlagsStay == FlagsInv /\ UNCHANGED flagVars => FlagsInv'
<1> SUFFICES ASSUME FlagsInv, UNCHANGED flagVars PROVE FlagsInv'
  OBVIOUS
<1>1. /\ log' = log /\ pushed' = pushed /\ cmd' = cmd /\ acked' = acked /\ jobs' = jobs
      /\ plants' = plants
  BY DEF flagVars
<1>2. Types' /\ LastId' = LastId /\ LastKey' = LastKey
  BY <1>1 DEF FlagsInv, Types, LastId, LastKey
<1>3. LogsSound' /\ OneInSection'
  BY <1>1, <1>2 DEF FlagsInv, LogsSound, OneInSection, InSection, At
<1>4. ASSUME NEW v \in Writers PROVE CommandSound(v)'
  <2>1. CommandSound(v)
    BY DEF FlagsInv
  <2> QED
    BY <1>1, <1>2, <2>1
       DEF CommandSound, RaiseSound, ResolveSound, AnchorSound, NumbersSound, InSection, At
<1>5. \A a \in acked' : AckStands(a, log'[a.at])
  BY <1>1 DEF FlagsInv
<1> QED BY <1>2, <1>3, <1>4, <1>5 DEF FlagsInv

\* What an escape command types: a finding of its own, or one whose flag the
\* ledger does not count.
LEMMA EscapeFacts ==
  ASSUME FlagsInv, NEW w \in Directors, Escape(w)
  PROVE  \E k \in Keys :
           /\ RaiseFlag(w, k) /\ k # 0 /\ k % 2 = 0 /\ k <= LastKey + 2
           /\ \A v \in Directors : cmd[v].key # k
           /\ \/ k = LastKey + 2
              \/ \A j \in iter_escapes : derive_flags(log["main"])[j].key # k
<1> DEFINE flags == derive_flags(log["main"])
           escapes == {i \in DOMAIN flags : flags[i].kind = ORACLE_ESCAPE /\ flags[i].key # 0}
           keys(S) == {flags[i].key : i \in S}
<1>0. Types /\ LogsSound /\ w \in Writers /\ At(w) = "main" /\ w \notin Workers
  BY TypeFacts DEF FlagsInv
<1>1. log["main"] \in Seq(FlagEvent) /\ LogSound(log["main"], LastId, LastKey) /\ LastKey \in Nat
  BY <1>0, TypeFacts DEF LogsSound
<1>2. PICK k \in {FreshKey(w)} \cup (keys(escapes) \ keys(iter_escapes)) :
        (\A v \in Directors : cmd[v].key # k) /\ RaiseFlag(w, k)
  BY Zenon DEF Escape
<1>3. CASE k = FreshKey(w)
  <2>1. jobs[At(w)] < MaxJobs[At(w)]
    BY <1>2 DEF RaiseFlag, Enter
  <2>2. k \in Keys /\ k # 0 /\ k % 2 = 0 /\ k = LastKey + 2
    BY <1>0, <1>3, <2>1, KeyNumbers
  <2> QED BY <1>1, <1>2, <2>2
<1>4. CASE k \in keys(escapes) \ keys(iter_escapes)
  <2>1. PICK i \in escapes : k = flags[i].key
    BY <1>4
  <2>2. i \in flag_ids(log["main"]) /\ flags[i].kind = ORACLE_ESCAPE /\ k # 0
    BY <2>1 DEF derive_flags
  <2>3. PICK e : e = log["main"][First(log["main"], i)]
    OBVIOUS
  <2>4. e.kind = ORACLE_ESCAPE /\ e.key = k
    BY <2>1, <2>2, <2>3, DerivedFlag DEF KindOf, KeyOf
  <2>5. First(log["main"], i) \in DOMAIN log["main"] /\ e.action = "flag" /\ e \in FlagEvent
    BY <1>1, <2>2, <2>3, FirstFacts, LogFacts
  <2>6. k \in Keys /\ k % 2 = 0 /\ k <= LastKey
    BY <1>1, <2>3, <2>4, <2>5 DEF LogSound, FlagEvent
  <2>7. k \in Nat
    BY <2>4, <2>5, EventFacts
  <2>8. k <= LastKey + 2
    BY <1>1, <2>6, <2>7
  <2>9. \A j \in iter_escapes : flags[j].key # k
    BY <1>4
  <2> QED BY <1>2, <2>2, <2>6, <2>8, <2>9
<1> QED BY <1>2, <1>3, <1>4

LEMMA FlagsStep == FlagsInv /\ [Next]_vars => FlagsInv'
<1> SUFFICES ASSUME FlagsInv, [Next]_vars PROVE FlagsInv'
  OBVIOUS
<1>1. ASSUME NEW w \in Writers, AppendEvent(w) PROVE FlagsInv'
  BY <1>1, AppendKeeps
<1>2. ASSUME NEW w \in Writers, KillCommand(w) PROVE FlagsInv'
  BY <1>2, EndKeeps DEF KillCommand
<1>3. ASSUME NEW w \in Workers, RaiseFlag(w, FreshKey(w)) PROVE FlagsInv'
  <2>1. Types /\ w \in Writers /\ w \notin Directors
    BY FlagsAssumption DEF FlagsInv, Writers
  <2>2. FreshKey(w) \in Keys /\ FreshKey(w) # 0 /\ FreshKey(w) % 2 = 1
    BY <1>3, <2>1, KeyNumbers DEF RaiseFlag, Enter
  <2> QED BY <1>3, <2>1, <2>2, RaiseKeeps
<1>4. ASSUME NEW w \in Writers, NEW i, NEW r \in FLAG_RESOLUTIONS, ResolveFlag(w, i, r)
      PROVE FlagsInv'
  BY <1>4, ResolveKeeps
<1>5. ASSUME NEW w \in Directors, Escape(w) PROVE FlagsInv'
  <2>1. PICK k \in Keys : RaiseFlag(w, k) /\ k # 0 /\ k % 2 = 0 /\ k <= LastKey + 2
    BY <1>5, EscapeFacts
  <2>2. w \in Writers /\ w \notin Workers
    BY FlagsAssumption DEF Writers
  <2> QED BY <2>1, <2>2, RaiseKeeps
<1>6. ASSUME NEW w \in Directors, AppendEscape(w) PROVE FlagsInv'
  BY <1>6, EndKeeps DEF AppendEscape, Writers
<1>7. CASE LoopEnds
  BY <1>7, LoopEndsKeeps
<1>8. CASE Plant
  BY <1>8, PlantKeeps
<1>9. CASE MergeTask
  BY <1>9, MergeTaskKeeps
<1>10. CASE Rework
  BY <1>10, ReworkKeeps
<1>11. CASE MergeOther \/ RecordStart \/ RecordAppend \/ UNCHANGED vars
  <2>1. UNCHANGED flagVars
    BY <1>11 DEF MergeOther, RecordStart, RecordAppend, vars
  <2> QED BY <2>1, FlagsStay
<1> QED
  BY <1>1, <1>2, <1>3, <1>4, <1>5, <1>6, <1>7, <1>8, <1>9, <1>10, <1>11
     DEF Next, FlagsNext, Command

-----------------------------------------------------------------------------
(* What the Director closed                                                *)

\* A resolution under a Director's key is one that a command reported on main.
Reported(entries, done) ==
  \A n \in DOMAIN entries :
    entries[n].action = "flag-resolved" /\ entries[n].key % 2 = 0 /\ entries[n].key # 0 =>
      [at |-> "main", job |-> entries[n].kind, id |-> entries[n].id, key |-> entries[n].key] \in done

AllReported ==
  Reported(log["wt"], acked) /\ Reported(log["main"], acked) /\ Reported(pushed, acked)

LEMMA AllReportedStart == Init => AllReported
BY DEF Init, FlagsInit, AllReported, Reported, Checkouts

\* What is reported on main stays so.
LEMMA ReportedLater ==
  ASSUME NEW entries, NEW done, NEW later, Reported(entries, done),
         \A a \in done : a.at = "main" => a \in later
  PROVE  Reported(entries, later)
BY DEF Reported

LEMMA ReportedOneMore ==
  ASSUME NEW entries \in Seq(FlagEvent), NEW e \in FlagEvent, NEW done, Reported(entries, done),
         e.action = "flag-resolved" /\ e.key % 2 = 0 /\ e.key # 0 =>
           [at |-> "main", job |-> e.kind, id |-> e.id, key |-> e.key] \in done
  PROVE  Reported(Append(entries, e), done)
<1>1. PICK new : new = Append(entries, e)
  OBVIOUS
<1>2. \A n \in DOMAIN new : (n \in DOMAIN entries /\ new[n] = entries[n]) \/ new[n] = e
  BY <1>1, OneMore
<1>3. Reported(new, done)
  BY <1>2 DEF Reported
<1> QED BY <1>1, <1>3

\* A command's event is the one it reports.
LEMMA AppendReports ==
  ASSUME FlagsInv, AllReported, NEW w \in Writers, AppendEvent(w)
  PROVE  AllReported'
<1>1. PICK L, c, e, ack :
        /\ L = log[At(w)] /\ c = cmd[w]
        /\ e = IF c.job = "raise" THEN Flag(c.id, c.kind, c.key) ELSE FlagResolved(c.id, c.job, c.key)
        /\ ack = [at |-> At(w), job |-> c.job, id |-> c.id, key |-> c.key]
  OBVIOUS
<1>2. /\ Types /\ L \in Seq(FlagEvent) /\ At(w) \in {"wt", "main"} /\ CommandSound(w)
  BY <1>1, TypeFacts DEF FlagsInv, At
<1>3. /\ c.pc = "append" /\ log' = [log EXCEPT ![At(w)] = Append(L, e)]
      /\ acked' = acked \cup {ack} /\ pushed' = pushed
  BY <1>1 DEF AppendEvent
<1>4. log'["wt"] = (IF At(w) = "wt" THEN Append(L, e) ELSE log["wt"])
      /\ log'["main"] = (IF At(w) = "main" THEN Append(L, e) ELSE log["main"])
  BY <1>2, <1>3 DEF Types, Checkouts
<1>5. Reported(log["wt"], acked') /\ Reported(log["main"], acked') /\ Reported(pushed, acked')
  BY <1>3, ReportedLater DEF AllReported
<1>6. e.action = "flag-resolved" /\ e.key % 2 = 0 =>
        [at |-> "main", job |-> e.kind, id |-> e.id, key |-> e.key] = ack
  <2> SUFFICES ASSUME e.action = "flag-resolved", e.key % 2 = 0
               PROVE  [at |-> "main", job |-> e.kind, id |-> e.id, key |-> e.key] = ack
    OBVIOUS
  <2>1. c.job # "raise"
    BY <1>1 DEF Flag
  <2>2. e.kind = c.job /\ e.id = c.id /\ e.key = c.key
    BY <1>1, <2>1 DEF FlagResolved
  <2>3. c.key % 2 = (IF w \in Workers THEN 1 ELSE 0)
    BY <1>1, <1>2, <1>3 DEF CommandSound, NumbersSound
  <2>4. At(w) = "main"
    BY <2>2, <2>3 DEF At
  <2> QED BY <1>1, <2>2, <2>4
<1>7. Reported(L, acked') /\ Reported(Append(L, e), acked')
  <2>1. Reported(L, acked')
    BY <1>1, <1>2, <1>5
  <2>2. e \in FlagEvent
    <3>1. c \in CommandType
      BY <1>1, <1>2, TypeFacts
    <3>2. c.id \in Ids
      <4>1. CASE c.job = "raise"
        <5>1. c.id # 0
          BY <1>1, <1>2, <1>3, <4>1 DEF CommandSound, RaiseSound, InSection
        <5> QED BY <3>1, <5>1 DEF CommandType
      <4>2. CASE c.job # "raise"
        <5>1. c.id \in flag_ids(L)
          BY <1>1, <1>2, <1>3, <4>2 DEF CommandSound, ResolveSound, InSection
        <5>2. PICK n \in DOMAIN L : L[n].id = c.id
          BY <5>1, FlagIds
        <5>3. L[n] \in FlagEvent
          BY <1>2, LogFacts
        <5> QED BY <5>2, <5>3 DEF FlagEvent
      <4> QED BY <4>1, <4>2
    <3>3. CASE c.job = "raise"
      <4>1. c.kind \in FLAG_KINDS
        BY <1>1, <1>2, <1>3, <3>3 DEF CommandSound, RaiseSound, InSection, FLAG_KINDS
      <4>2. e = Flag(c.id, c.kind, c.key)
        BY <1>1, <3>3
      <4> QED BY <3>1, <3>2, <4>1, <4>2 DEF Flag, FlagEvent, CommandType
    <3>4. CASE c.job # "raise"
      <4>1. c.job \in FLAG_RESOLUTIONS
        BY <1>1, <1>2, <1>3, <3>4 DEF CommandSound, ResolveSound, InSection
      <4>2. e = FlagResolved(c.id, c.job, c.key)
        BY <1>1, <3>4
      <4> QED BY <3>1, <3>2, <4>1, <4>2 DEF FlagResolved, FlagEvent, CommandType
    <3> QED BY <3>3, <3>4
  <2>3. e.action = "flag-resolved" /\ e.key % 2 = 0 /\ e.key # 0 =>
          [at |-> "main", job |-> e.kind, id |-> e.id, key |-> e.key] \in acked'
    BY <1>3, <1>6
  <2> QED BY <1>2, <2>1, <2>2, <2>3, ReportedOneMore
<1> QED BY <1>3, <1>4, <1>5, <1>7 DEF AllReported

LEMMA AllReportedStep == FlagsInv /\ AllReported /\ [Next]_vars => AllReported'
<1> SUFFICES ASSUME FlagsInv, AllReported, [Next]_vars PROVE AllReported'
  OBVIOUS
<1>0. Types /\ log["wt"] \in Seq(FlagEvent) /\ log \in [Checkouts -> Seq(FlagEvent)]
  BY TypeFacts DEF FlagsInv, Types
<1>1. ASSUME NEW w \in Writers, AppendEvent(w) PROVE AllReported'
  BY <1>1, AppendReports
<1>2. ASSUME NEW w \in Writers, KillCommand(w) \/ \E i, r : ResolveFlag(w, i, r)
                                \/ \E k : RaiseFlag(w, k)
      PROVE  AllReported'
  BY <1>2 DEF KillCommand, ResolveFlag, RaiseFlag, Enter, AllReported
<1>3. ASSUME NEW w \in Directors, Escape(w) PROVE AllReported'
  <2>1. \E k \in Keys : RaiseFlag(w, k)
    BY <1>3, EscapeFacts
  <2> QED BY <2>1 DEF RaiseFlag, Enter, AllReported
<1>4. ASSUME NEW w \in Directors, AppendEscape(w) PROVE AllReported'
  BY <1>4 DEF AppendEscape, AllReported
<1>5. CASE LoopEnds
  BY <1>5 DEF LoopEnds, AllReported
<1>6. CASE Plant
  <2>1. PICK e \in Forged(log["wt"]) : log' = [log EXCEPT !["wt"] = Append(log["wt"], e)]
    BY <1>6 DEF Plant
  <2>2. log'["wt"] = Append(log["wt"], e) /\ log'["main"] = log["main"]
        /\ pushed' = pushed /\ acked' = acked
    BY <1>0, <1>6, <2>1 DEF Plant, Checkouts
  <2>3. e.key = 0
    BY <2>1 DEF Forged, Flag, FlagResolved
  <2>4. Reported(Append(log["wt"], e), acked)
    <3>1. PICK L : L = log["wt"]
      OBVIOUS
    <3>2. L \in Seq(FlagEvent \cup {e}) /\ Reported(L, acked)
      BY <1>0, <3>1 DEF AllReported
    <3>3. PICK new : new = Append(L, e)
      OBVIOUS
    <3>4. \A n \in DOMAIN new : (n \in DOMAIN L /\ new[n] = L[n]) \/ new[n] = e
      BY <3>2, <3>3
    <3>5. Reported(new, acked)
      BY <2>3, <3>2, <3>4 DEF Reported
    <3> QED BY <3>1, <3>3, <3>5
  <2> QED BY <2>2, <2>4 DEF AllReported
<1>7. CASE MergeTask
  <2>1. log'["wt"] = log["wt"] /\ log'["main"] = pushed /\ pushed' = pushed /\ acked' = acked
    BY <1>0, <1>7 DEF MergeTask, Checkouts
  <2> QED BY <2>1 DEF AllReported
<1>8. CASE Rework
  <2>1. /\ log'["wt"] = log["main"] /\ log'["main"] = log["main"] /\ pushed' = <<>>
        /\ acked' = {a \in acked : a.at = "main"}
    BY <1>0, <1>8 DEF Rework, Checkouts
  <2>2. Reported(log["main"], acked')
    BY <2>1, ReportedLater DEF AllReported
  <2>3. Reported(pushed', acked')
    BY <2>1 DEF Reported
  <2> QED BY <2>1, <2>2, <2>3 DEF AllReported
<1>9. CASE MergeOther \/ RecordStart \/ RecordAppend \/ UNCHANGED vars
  <2>1. UNCHANGED flagVars
    BY <1>9 DEF MergeOther, RecordStart, RecordAppend, vars
  <2> QED BY <2>1 DEF flagVars, AllReported
<1> QED
  BY <1>1, <1>2, <1>3, <1>4, <1>5, <1>6, <1>7, <1>8, <1>9
     DEF Next, FlagsNext, Command, Writers

-----------------------------------------------------------------------------
(* Main's merges, the run log and the session                              *)

EscapeRaised == [action : {"escape-raised"}, flag : Ids]
OracleRun ==
  [action : {"oracle-run"}, from : Nat, to : Nat, reviewed : SUBSET Nat, skipped : SUBSET Nat,
   findings : SUBSET Ids]
Entry == EscapeRaised \cup OracleRun

RunTypes ==
  /\ main \in Seq(Merge)
  /\ runlog \in Seq(Entry)
  /\ session \in [pc : {"none", "append"}, to : Nat]

LEMMA RunsFacts ==
  ASSUME RunTypes
  PROVE  /\ Len(runlog) \in Nat /\ DOMAIN runlog = 1 .. Len(runlog) /\ Runs \subseteq DOMAIN runlog
         /\ Len(main) \in Nat /\ DOMAIN main = 1 .. Len(main)
         /\ \A n \in DOMAIN runlog : runlog[n] \in Entry
         /\ \A n \in Runs : runlog[n] \in OracleRun
         /\ \A i \in authentic_ids : i \in Ids
<1>1. /\ Len(runlog) \in Nat /\ DOMAIN runlog = 1 .. Len(runlog) /\ Runs \subseteq DOMAIN runlog
      /\ Len(main) \in Nat /\ DOMAIN main = 1 .. Len(main)
      /\ \A n \in DOMAIN runlog : runlog[n] \in Entry
  BY DEF RunTypes, Runs
<1>2. \A r \in Entry : (r.action = "oracle-run" => r \in OracleRun)
                       /\ (r.action = "escape-raised" => r \in EscapeRaised)
  BY DEF Entry, EscapeRaised, OracleRun
<1>3. \A n \in Runs : runlog[n] \in OracleRun
  BY <1>1, <1>2 DEF Runs
<1>4. \A i \in authentic_ids : i \in Ids
  BY <1>1, <1>2 DEF authentic_ids, EscapeRaised
<1> QED BY <1>1, <1>3, <1>4

LEMMA WatermarkIs ==
  ASSUME RunTypes
  PROVE  /\ Runs = {} => watermark = NoMark
         /\ Runs # {} => \E n \in Runs : watermark = runlog[n].to
         /\ watermark = NoMark \/ watermark \in Nat
<1>1. Runs = {} => watermark = NoMark
  BY DEF watermark
<1>2. ASSUME Runs # {} PROVE \E n \in Runs : watermark = runlog[n].to
  <2>1. Runs \subseteq Nat /\ Len(runlog) \in Nat /\ \A n \in Runs : n <= Len(runlog)
    BY RunsFacts
  <2>2. \E n \in Runs : \A m \in Runs : m <= n
    BY <1>2, <2>1, GreatestNumber
  <2> QED BY <1>2, <2>2 DEF watermark
<1>3. \A n \in Runs : runlog[n].to \in Nat
  BY RunsFacts DEF OracleRun
<1> QED BY <1>1, <1>2, <1>3

LEMMA EntryAppended ==
  ASSUME RunTypes, NEW e \in Entry, runlog' = Append(runlog, e)
  PROVE  /\ runlog' \in Seq(Entry) /\ DOMAIN runlog' = DOMAIN runlog \cup {Len(runlog) + 1}
         /\ (\A n \in DOMAIN runlog : runlog'[n] = runlog[n]) /\ runlog'[Len(runlog) + 1] = e
         /\ Runs' = Runs \cup (IF e.action = "oracle-run" THEN {Len(runlog) + 1} ELSE {})
         /\ watermark' = (IF e.action = "oracle-run" THEN e.to ELSE watermark)
         /\ authentic_ids' =
              authentic_ids \cup (IF e.action = "escape-raised" THEN {e.flag} ELSE {})
<1>1. /\ runlog \in Seq(Entry) /\ runlog' \in Seq(Entry)
      /\ DOMAIN runlog' = DOMAIN runlog \cup {Len(runlog) + 1}
      /\ (\A n \in DOMAIN runlog : runlog'[n] = runlog[n]) /\ runlog'[Len(runlog) + 1] = e
  BY DEF RunTypes
<1>2. /\ Len(runlog) \in Nat /\ Runs \subseteq DOMAIN runlog /\ DOMAIN runlog = 1 .. Len(runlog)
      /\ Len(runlog) + 1 \notin DOMAIN runlog
  BY RunsFacts
<1>3. Runs' = Runs \cup (IF e.action = "oracle-run" THEN {Len(runlog) + 1} ELSE {})
  BY <1>1, <1>2 DEF Runs
<1>4. watermark' = IF e.action = "oracle-run" THEN e.to ELSE watermark
  <2>1. CASE e.action = "oracle-run"
    <3> DEFINE last == CHOOSE n \in Runs' : \A m \in Runs' : m <= n
    <3>1. Len(runlog) + 1 \in Runs' /\ \A m \in Runs' : m \in Nat /\ m <= Len(runlog) + 1
      BY <1>2, <1>3, <2>1
    <3>2. last \in Runs' /\ \A m \in Runs' : m <= last
      BY <3>1
    <3>3. last = Len(runlog) + 1
      <4> HIDE DEF last
      <4> QED BY <1>2, <3>1, <3>2
    <3>4. watermark' = runlog'[last].to
      BY <3>1 DEF watermark
    <3> HIDE DEF last
    <3> QED BY <1>1, <2>1, <3>3, <3>4
  <2>2. CASE e.action # "oracle-run"
    <3>1. Runs' = Runs
      BY <1>3, <2>2
    <3>2. CASE Runs = {}
      BY <2>2, <3>1, <3>2 DEF watermark
    <3>3. CASE Runs # {}
      <4> DEFINE last == CHOOSE n \in Runs : \A m \in Runs : m <= n
      <4>1. Runs \subseteq Nat /\ \A n \in Runs : n <= Len(runlog)
        BY <1>2
      <4>2. \E n \in Runs : \A m \in Runs : m <= n
        BY <1>2, <3>3, <4>1, GreatestNumber
      <4>3. last \in Runs
        BY <4>2
      <4>4. watermark = runlog[last].to /\ watermark' = runlog'[last].to
        BY <3>1, <3>3 DEF watermark
      <4> QED BY <1>1, <1>2, <2>2, <4>3, <4>4
    <3> QED BY <3>2, <3>3
  <2> QED BY <2>1, <2>2
<1>5. authentic_ids' = authentic_ids \cup (IF e.action = "escape-raised" THEN {e.flag} ELSE {})
  <2> SUFFICES ASSUME NEW i
               PROVE  i \in authentic_ids' <=>
                        i \in authentic_ids \/ (e.action = "escape-raised" /\ i = e.flag)
    BY Zenon
  <2>1. i \in authentic_ids <=>
          \E n \in DOMAIN runlog : runlog[n].action = "escape-raised" /\ i = runlog[n].flag
    BY DEF authentic_ids
  <2>2. i \in authentic_ids' <=>
          \E n \in DOMAIN runlog' : runlog'[n].action = "escape-raised" /\ i = runlog'[n].flag
    BY DEF authentic_ids
  <2> QED BY <1>1, <2>1, <2>2
<1> QED BY <1>1, <1>3, <1>4, <1>5

LEMMA RunlogStays ==
  ASSUME runlog' = runlog
  PROVE  Runs' = Runs /\ watermark' = watermark /\ authentic_ids' = authentic_ids
BY DEF Runs, watermark, authentic_ids

LEMMA StartFacts ==
  ASSUME RunTypes, NEW from \in Starts
  PROVE  from \in Nat
<1>1. PICK since \in {NoMark} \cup 0 .. Len(main) : from = from_sha(since) /\ from # NoMark
  BY DEF Starts
<1>2. CASE since = NoMark
  BY <1>1, <1>2, WatermarkIs DEF from_sha
<1>3. CASE since # NoMark
  <2>1. from = since /\ since \in 0 .. Len(main)
    BY <1>1, <1>3 DEF from_sha
  <2> QED BY <2>1, RunsFacts
<1> QED BY <1>2, <1>3

\* What a session records.
LEMMA RecordFacts ==
  ASSUME RunTypes, NEW from \in Nat, NEW to \in Nat
  PROVE  LET r == RunRecord(from, to)
         IN  /\ r \in OracleRun /\ r.action = "oracle-run" /\ r \in Entry
             /\ r.from = from /\ r.to = to
             /\ r.reviewed = Reviewed(from, session.to)
             /\ r.skipped = Skipped(from, session.to)
             /\ r.findings = RunFindings(r.reviewed)
<1>1. session.to \in Nat
  BY DEF RunTypes
<1>2. merged_in(from, session.to) \subseteq Nat
  BY <1>1 DEF merged_in
<1>3. /\ Reviewed(from, session.to) \subseteq Nat
      /\ Skipped(from, session.to) \subseteq Nat
  BY <1>2 DEF Reviewed, Skipped
<1>4. \A reviewed : RunFindings(reviewed) \subseteq Ids
  <2>1. iter_escapes \subseteq Ids
    BY RunsFacts DEF iter_escapes
  <2> QED BY <2>1 DEF RunFindings
<1> HIDE DEF Reviewed, Skipped, RunFindings
<1> QED BY <1>1, <1>3, <1>4 DEF RunRecord, OracleRun, Entry

LEMMA AnchorEntry ==
  ASSUME FlagsInv, NEW w \in Directors, AppendEscape(w)
  PROVE  [action |-> "escape-raised", flag |-> cmd[w].id] \in Entry
<1>1. Types /\ log["main"] \in Seq(FlagEvent) /\ CommandSound(w) /\ cmd[w].pc = "anchor"
  BY TypeFacts DEF FlagsInv, Writers, AppendEscape
<1>2. cmd[w].id \in flag_ids(log["main"])
  BY <1>1 DEF CommandSound, AnchorSound
<1>3. cmd[w].id \in Ids
  <2>1. PICK n \in DOMAIN log["main"] : log["main"][n].id = cmd[w].id
    BY <1>2, FlagIds
  <2> QED BY <1>1, <2>1, LogFacts DEF FlagEvent
<1> QED BY <1>3 DEF Entry, EscapeRaised

LEMMA RunTypesStart == Init => RunTypes
BY DEF Init, RunTypes, NoSession

LEMMA RunTypesStep == FlagsInv /\ RunTypes /\ [Next]_vars => RunTypes'
<1> SUFFICES ASSUME FlagsInv, RunTypes, [Next]_vars PROVE RunTypes'
  OBVIOUS
<1>1. CASE (FlagsNext /\ UNCHANGED <<main, runlog, session>>) \/ Rework \/ UNCHANGED vars
  BY <1>1 DEF RunTypes, Rework, vars
<1>2. CASE MergeTask \/ MergeOther
  <2>1. PICK m \in Merge : main' = Append(main, m)
    <3>1. \A b \in TaskBuckets \cup OtherBuckets, t \in {Task, Other} :
             [task |-> t, bucket |-> b] \in Merge
      BY OracleAssumption DEF Merge
    <3> QED BY <1>2, <3>1 DEF MergeTask, MergeOther
  <2> QED BY <1>2, <2>1 DEF RunTypes, MergeTask, MergeOther
<1>3. ASSUME NEW w \in Directors, Escape(w) PROVE RunTypes'
  BY <1>3 DEF RunTypes, Escape
<1>4. ASSUME NEW w \in Directors, AppendEscape(w) PROVE RunTypes'
  BY <1>4, AnchorEntry, EntryAppended DEF RunTypes, AppendEscape
<1>5. CASE RecordStart
  <2>1. PICK to \in 1 .. Len(main) : session' = [pc |-> "append", to |-> to]
    BY <1>5 DEF RecordStart
  <2>2. to \in Nat
    BY <2>1, RunsFacts
  <2> QED BY <1>5, <2>1, <2>2 DEF RunTypes, RecordStart
<1>6. CASE RecordAppend
  <2>1. PICK from \in Starts : runlog' = Append(runlog, RunRecord(from, session.to))
    BY <1>6 DEF RecordAppend
  <2>2. session.to \in Nat /\ session' = NoSession /\ main' = main /\ from \in Nat
    BY <1>6, StartFacts DEF RunTypes, RecordAppend
  <2>3. runlog' \in Seq(Entry)
    BY <2>1, <2>2, RecordFacts, EntryAppended
  <2> QED BY <2>2, <2>3 DEF RunTypes, NoSession
<1> QED BY <1>1, <1>2, <1>3, <1>4, <1>5, <1>6 DEF Next

-----------------------------------------------------------------------------
(* The ledger                                                              *)

Escaping(w) == cmd[w].pc # "idle" /\ cmd[w].job = "raise"

\* What the run log vouches for is an escape on main, each about a finding of
\* its own that no command under way is about.
Counted ==
  /\ \A i \in authentic_ids :
       /\ i \in flag_ids(log["main"]) /\ KindOf(log["main"], i) = ORACLE_ESCAPE
       /\ KeyOf(log["main"], i) # 0
  /\ \A i, j \in authentic_ids : KeyOf(log["main"], i) = KeyOf(log["main"], j) => i = j
  /\ \A w \in Directors : Escaping(w) =>
       /\ \A i \in authentic_ids : KeyOf(log["main"], i) # cmd[w].key
       /\ \A v \in Directors : Escaping(v) /\ cmd[v].key = cmd[w].key => v = w

LEMMA LedgerIs ==
  ASSUME Counted
  PROVE  /\ iter_escapes = authentic_ids
         /\ \A i \in authentic_ids :
              /\ i \in flag_ids(log["main"])
              /\ derive_flags(log["main"])[i].key = KeyOf(log["main"], i)
<1>1. \A i \in authentic_ids : i \in flag_ids(log["main"]) /\ KindOf(log["main"], i) = ORACLE_ESCAPE
  BY DEF Counted
<1>2. \A i \in authentic_ids :
        /\ derive_flags(log["main"])[i].kind = ORACLE_ESCAPE
        /\ derive_flags(log["main"])[i].key = KeyOf(log["main"], i)
  BY <1>1, DerivedFlag
<1>3. DOMAIN derive_flags(log["main"]) = flag_ids(log["main"])
  BY DEF derive_flags
<1>4. iter_escapes = {i \in authentic_ids \cap DOMAIN derive_flags(log["main"]) :
                        derive_flags(log["main"])[i].kind = ORACLE_ESCAPE}
  BY DEF iter_escapes
<1> HIDE DEF iter_escapes
<1> QED BY <1>1, <1>2, <1>3, <1>4

\* No new escape is typed or counted.
LEMMA CountedStays ==
  ASSUME FlagsInv, FlagsInv', Counted, Begins(log["main"], log'["main"]),
         authentic_ids' = authentic_ids,
         \A w \in Directors : Escaping(w)' => Escaping(w) /\ cmd'[w].key = cmd[w].key
  PROVE  Counted'
<1>1. log["main"] \in Seq(FlagEvent) /\ log'["main"] \in Seq(FlagEvent)
  <2>1. log' \in [Checkouts -> Seq(FlagEvent)] /\ log \in [Checkouts -> Seq(FlagEvent)]
    BY DEF FlagsInv, Types
  <2> QED BY <2>1 DEF Checkouts
<1>2. \A i \in authentic_ids :
        /\ i \in flag_ids(log["main"]) /\ i \in flag_ids(log'["main"])
        /\ KindOf(log'["main"], i) = KindOf(log["main"], i)
        /\ KeyOf(log'["main"], i) = KeyOf(log["main"], i)
  BY <1>1, SettledFirst DEF Counted
<1> QED BY <1>2 DEF Counted

\* The second half of an escape command vouches for the flag it raised.
LEMMA AppendEscapeCounts ==
  ASSUME FlagsInv, RunTypes, Counted, NEW w \in Directors, AppendEscape(w)
  PROVE  Counted'
<1>1. /\ cmd[w].pc = "anchor" /\ cmd' = [cmd EXCEPT ![w] = Idle] /\ log' = log
      /\ runlog' = Append(runlog, [action |-> "escape-raised", flag |-> cmd[w].id])
  BY DEF AppendEscape
<1>2. Types /\ w \in Writers /\ CommandSound(w)
  BY DEF FlagsInv, Writers
<1>3. /\ cmd[w].job = "raise" /\ cmd[w].id \in flag_ids(log["main"]) /\ cmd[w].key # 0
      /\ KindOf(log["main"], cmd[w].id) = ORACLE_ESCAPE
      /\ KeyOf(log["main"], cmd[w].id) = cmd[w].key
  BY <1>1, <1>2 DEF CommandSound, AnchorSound, NumbersSound
<1>4. Escaping(w)
  BY <1>1, <1>3 DEF Escaping
<1>5. authentic_ids' \subseteq authentic_ids \cup {cmd[w].id}
  <2>1. PICK e : e = [action |-> "escape-raised", flag |-> cmd[w].id]
    OBVIOUS
  <2>2. e \in Entry /\ e.flag = cmd[w].id
    BY <2>1, AnchorEntry
  <2> QED BY <1>1, <2>1, <2>2, EntryAppended
<1>6. /\ ~Escaping(w)' /\ \A v \in Directors : v # w => cmd'[v] = cmd[v]
  BY <1>1, <1>2, IdleTyped DEF Types, Escaping, Writers
<1>7. \A v \in Directors : Escaping(v)' => v # w /\ Escaping(v) /\ cmd'[v] = cmd[v]
  BY <1>6 DEF Escaping
<1>8. \A i \in authentic_ids' :
        /\ i \in flag_ids(log["main"]) /\ KindOf(log["main"], i) = ORACLE_ESCAPE
        /\ KeyOf(log["main"], i) # 0
  BY <1>3, <1>5 DEF Counted
<1>9. \A i, j \in authentic_ids' : KeyOf(log["main"], i) = KeyOf(log["main"], j) => i = j
  BY <1>3, <1>4, <1>5 DEF Counted
<1>10. ASSUME NEW v \in Directors, Escaping(v)'
       PROVE  /\ \A i \in authentic_ids' : KeyOf(log["main"], i) # cmd'[v].key
              /\ \A u \in Directors : Escaping(u)' /\ cmd'[u].key = cmd'[v].key => u = v
  <2>1. cmd[v].key # cmd[w].key
    BY <1>4, <1>7, <1>10 DEF Counted
  <2>2. \A i \in authentic_ids' : KeyOf(log["main"], i) # cmd'[v].key
    BY <1>3, <1>5, <1>7, <1>10, <2>1 DEF Counted
  <2>3. \A u \in Directors : Escaping(u)' /\ cmd'[u].key = cmd'[v].key => u = v
    BY <1>7, <1>10 DEF Counted
  <2> QED BY <2>2, <2>3
<1> QED BY <1>1, <1>8, <1>9, <1>10 DEF Counted

\* The first half types a finding that is neither counted nor being typed.
LEMMA EscapeCounts ==
  ASSUME FlagsInv, Counted, NEW w \in Directors, Escape(w)
  PROVE  Counted'
<1>1. PICK k \in Keys :
        /\ RaiseFlag(w, k) /\ \A v \in Directors : cmd[v].key # k
        /\ \/ k = LastKey + 2
           \/ \A j \in iter_escapes : derive_flags(log["main"])[j].key # k
  BY EscapeFacts
<1>2. /\ Types /\ LogsSound /\ w \in Writers /\ log["main"] \in Seq(FlagEvent) /\ LastKey \in Nat
  BY TypeFacts DEF FlagsInv
<1>3. \A i \in authentic_ids : KeyOf(log["main"], i) # k
  <2>1. CASE k = LastKey + 2
    <3> SUFFICES ASSUME NEW i \in authentic_ids PROVE KeyOf(log["main"], i) # k
      OBVIOUS
    <3>1. i \in flag_ids(log["main"]) /\ KindOf(log["main"], i) = ORACLE_ESCAPE
      BY DEF Counted
    <3>2. PICK e : e = log["main"][First(log["main"], i)]
      OBVIOUS
    <3>3. /\ First(log["main"], i) \in DOMAIN log["main"] /\ e.action = "flag" /\ e \in FlagEvent
          /\ e.kind = ORACLE_ESCAPE /\ e.key = KeyOf(log["main"], i)
      BY <1>2, <3>1, <3>2, FirstFacts, LogFacts DEF KindOf, KeyOf
    <3>4. e.key <= LastKey
      BY <1>2, <3>2, <3>3 DEF LogsSound, LogSound
    <3>5. e.key \in Nat
      BY <3>3, EventFacts
    <3> QED BY <1>2, <2>1, <3>3, <3>4, <3>5
  <2>2. CASE \A j \in iter_escapes : derive_flags(log["main"])[j].key # k
    BY <2>2, LedgerIs
  <2> QED BY <1>1, <2>1, <2>2
<1>4. log' = log /\ authentic_ids' = authentic_ids
  BY <1>1 DEF RaiseFlag, Enter, Escape, authentic_ids
<1>5. cmd'[w].key = k /\ \A v \in Directors : v # w => cmd'[v] = cmd[v]
  BY <1>1, <1>2 DEF RaiseFlag, Types, Writers
<1>6. ASSUME NEW v \in Directors, Escaping(v)'
      PROVE  /\ \A i \in authentic_ids : KeyOf(log["main"], i) # cmd'[v].key
             /\ \A u \in Directors : Escaping(u)' /\ cmd'[u].key = cmd'[v].key => u = v
  <2>1. CASE v = w
    BY <1>1, <1>3, <1>5, <2>1
  <2>2. CASE v # w
    <3>1. Escaping(v) /\ cmd'[v] = cmd[v] /\ cmd[v].key # k
      BY <1>1, <1>5, <1>6, <2>2 DEF Escaping
    <3>2. \A u \in Directors : Escaping(u)' /\ cmd'[u].key = cmd'[v].key => u # w /\ Escaping(u)
      BY <1>5, <3>1 DEF Escaping
    <3> QED BY <1>5, <3>1, <3>2 DEF Counted
  <2> QED BY <2>1, <2>2
<1> QED BY <1>4, <1>6 DEF Counted

LEMMA BeginsAppend ==
  ASSUME NEW entries \in Seq(FlagEvent), NEW e
  PROVE  Begins(entries, Append(entries, e))
BY entries \in Seq(FlagEvent \cup {e}) DEF Begins

LEMMA FlagsNextCounts ==
  ASSUME FlagsInv, FlagsInv', Counted, FlagsNext, runlog' = runlog
  PROVE  Counted'
<1>1. /\ Types /\ log["main"] \in Seq(FlagEvent) /\ Directors \subseteq Writers
      /\ authentic_ids' = authentic_ids /\ \A w \in Writers : cmd[w] \in CommandType
  BY TypeFacts DEF FlagsInv, Writers, authentic_ids
<1>2. Begins(log["main"], log["main"])
  BY <1>1, BeginsSelf
<1>3. ASSUME NEW w \in Writers, AppendEvent(w) PROVE Counted'
  <2>1. PICK e : log' = [log EXCEPT ![At(w)] = Append(log[At(w)], e)]
    BY <1>3 DEF AppendEvent
  <2>2. Begins(log["main"], log'["main"])
    <3>1. Begins(log["main"], Append(log["main"], e))
      BY <1>1, BeginsAppend
    <3> QED BY <1>1, <1>2, <2>1, <3>1 DEF Types, At, Checkouts
  <2>3. /\ \A v \in Writers : v # w => cmd'[v] = cmd[v]
        /\ cmd'[w] = IF cmd[w].kind = ORACLE_ESCAPE THEN [cmd[w] EXCEPT !.pc = "anchor"] ELSE Idle
    BY <1>1, <1>3 DEF AppendEvent, Types
  <2>4. /\ [cmd[w] EXCEPT !.pc = "anchor"].key = cmd[w].key
        /\ [cmd[w] EXCEPT !.pc = "anchor"].job = cmd[w].job /\ cmd[w].pc = "append"
    BY <1>1, <1>3 DEF CommandType, AppendEvent
  <2>5. \A v \in Directors : Escaping(v)' => Escaping(v) /\ cmd'[v].key = cmd[v].key
    BY <1>1, <2>3, <2>4, IdleTyped DEF Escaping
  <2> QED BY <1>1, <2>2, <2>5, CountedStays
<1>4. ASSUME NEW w \in Writers, KillCommand(w) PROVE Counted'
  <2>1. /\ log' = log /\ cmd'[w] = Idle /\ \A v \in Writers : v # w => cmd'[v] = cmd[v]
    BY <1>1, <1>4 DEF KillCommand, Types
  <2>2. \A v \in Directors : Escaping(v)' => Escaping(v) /\ cmd'[v].key = cmd[v].key
    BY <1>1, <2>1, IdleTyped DEF Escaping
  <2> QED BY <1>1, <1>2, <2>1, <2>2, CountedStays
<1>5. ASSUME NEW w \in Workers, RaiseFlag(w, FreshKey(w)) PROVE Counted'
  <2>1. w \notin Directors
    BY FlagsAssumption
  <2>2. /\ log' = log /\ \A v \in Directors : cmd'[v] = cmd[v]
    BY <1>1, <1>5, <2>1 DEF RaiseFlag, Enter, Types
  <2>3. \A v \in Directors : Escaping(v)' => Escaping(v) /\ cmd'[v].key = cmd[v].key
    BY <2>2 DEF Escaping
  <2> QED BY <1>1, <1>2, <2>2, <2>3, CountedStays
<1>6. ASSUME NEW w \in Writers, NEW i, NEW r \in FLAG_RESOLUTIONS, ResolveFlag(w, i, r)
      PROVE Counted'
  <2>1. /\ log' = log /\ cmd'[w].job = r /\ \A v \in Writers : v # w => cmd'[v] = cmd[v]
    BY <1>1, <1>6 DEF ResolveFlag, Enter, Types
  <2>2. r # "raise"
    BY DEF FLAG_RESOLUTIONS
  <2>3. \A v \in Directors : Escaping(v)' => Escaping(v) /\ cmd'[v].key = cmd[v].key
    BY <1>1, <2>1, <2>2 DEF Escaping
  <2> QED BY <1>1, <1>2, <2>1, <2>3, CountedStays
<1>7. CASE LoopEnds
  <2>1. log' = log /\ cmd' = cmd
    BY <1>7 DEF LoopEnds
  <2> QED BY <1>1, <1>2, <2>1, CountedStays DEF Escaping
<1>8. CASE Plant
  <2>1. log'["main"] = log["main"] /\ cmd' = cmd
    BY <1>1, <1>8 DEF Plant, Types, Checkouts
  <2> QED BY <1>1, <1>2, <2>1, CountedStays DEF Escaping
<1> QED
  BY <1>3, <1>4, <1>5, <1>6, <1>7, <1>8 DEF FlagsNext, Command

LEMMA CountedStep == FlagsInv /\ FlagsInv' /\ RunTypes /\ Counted /\ [Next]_vars => Counted'
<1> SUFFICES ASSUME FlagsInv, FlagsInv', RunTypes, Counted, [Next]_vars PROVE Counted'
  OBVIOUS
<1>1. Types /\ log["main"] \in Seq(FlagEvent)
  BY TypeFacts DEF FlagsInv
<1>2. Begins(log["main"], log["main"])
  BY <1>1, BeginsSelf
<1>3. CASE FlagsNext /\ UNCHANGED <<main, runlog, session>>
  BY <1>3, FlagsNextCounts
<1>4. ASSUME NEW w \in Directors, Escape(w) PROVE Counted'
  BY <1>4, EscapeCounts
<1>5. ASSUME NEW w \in Directors, AppendEscape(w) PROVE Counted'
  BY <1>5, AppendEscapeCounts
<1>6. CASE MergeTask
  <2>1. cmd' = cmd /\ runlog' = runlog /\ log' = [log EXCEPT !["main"] = pushed]
    BY <1>6 DEF MergeTask
  <2>2. Begins(log["main"], log'["main"])
    BY <1>1, <1>6, <2>1, ContinuesBegins DEF MergeTask, Types, Checkouts
  <2>3. authentic_ids' = authentic_ids
    BY <2>1 DEF authentic_ids
  <2> QED BY <2>1, <2>2, <2>3, CountedStays DEF Escaping
<1>7. CASE MergeOther \/ Rework \/ RecordStart \/ UNCHANGED vars
  <2>1. cmd' = cmd /\ runlog' = runlog /\ log'["main"] = log["main"]
    BY <1>1, <1>7 DEF MergeOther, Rework, RecordStart, vars, flagVars, Types, Checkouts
  <2>2. authentic_ids' = authentic_ids
    BY <2>1 DEF authentic_ids
  <2> QED BY <1>2, <2>1, <2>2, CountedStays DEF Escaping
<1>8. CASE RecordAppend
  <2>1. cmd' = cmd /\ log' = log
    BY <1>8 DEF RecordAppend, flagVars
  <2>2. PICK from \in Starts : runlog' = Append(runlog, RunRecord(from, session.to))
    BY <1>8 DEF RecordAppend
  <2>3. session.to \in Nat /\ from \in Nat
    BY StartFacts DEF RunTypes
  <2>4. PICK r \in Entry : r = RunRecord(from, session.to) /\ r.action = "oracle-run"
    BY <2>3, RecordFacts
  <2>5. authentic_ids' = authentic_ids \cup (IF r.action = "escape-raised" THEN {r.flag} ELSE {})
    BY <2>2, <2>4, EntryAppended
  <2> QED BY <1>2, <2>1, <2>4, <2>5, CountedStays DEF Escaping
<1> QED BY <1>3, <1>4, <1>5, <1>6, <1>7, <1>8 DEF Next

-----------------------------------------------------------------------------
(* The runs                                                                *)

\* A run reviewed merges of main, skipped low-risk ones alone, and claims
\* findings of this task's merges.
RunSound(r) ==
  /\ r.to <= Len(main) /\ r.reviewed \subseteq DOMAIN main
  /\ \A i \in r.skipped : i \in DOMAIN main /\ main[i].bucket = "L1"
  /\ r.findings # {} => \E i \in r.reviewed : main[i].task = Task

\* The range of a session lies on main.
SessionSound == session.pc = "append" => session.to <= Len(main)

\* Each product merge up to a run's end was some run's, or stepped over.
Taken(i) == SteppedOver(i) \/ \E m \in Runs : i \in runlog[m].reviewed \cup runlog[m].skipped

RunsCover ==
  \A n \in Runs : \A i \in 1 .. runlog[n].to : main[i].bucket # "none" => Taken(i)

RunsInv ==
  /\ \A n \in Runs : RunSound(runlog[n])
  /\ SessionSound /\ RunsCover /\ FindingsOnce

LEMMA RunsStart == Init => RunsInv
<1> SUFFICES ASSUME Init PROVE RunsInv
  OBVIOUS
<1>1. runlog = <<>> /\ session.pc = "none"
  BY DEF Init, NoSession
<1>2. Runs = {}
  BY <1>1 DEF Runs
<1> QED BY <1>1, <1>2 DEF RunsInv, SessionSound, RunsCover, FindingsOnce

\* Main takes a merge, or none.
LEMMA MainGrows ==
  ASSUME RunTypes, RunTypes', RunsInv, Begins(main, main'), runlog' = runlog, session' = session
  PROVE  RunsInv'
<1>1. Runs' = Runs /\ \A n \in Runs : runlog[n] \in OracleRun
  BY RunlogStays, RunsFacts
<1>2. /\ Len(main) \in Nat /\ Len(main') \in Nat /\ Len(main) <= Len(main')
      /\ DOMAIN main = 1 .. Len(main) /\ DOMAIN main' = 1 .. Len(main')
      /\ \A i \in DOMAIN main : main'[i] = main[i]
  BY DEF RunTypes, Begins
<1>3. DOMAIN main \subseteq DOMAIN main'
  BY <1>2
<1>4. ASSUME NEW n \in Runs PROVE RunSound(runlog[n])'
  <2>1. RunSound(runlog[n]) /\ runlog[n].to \in Nat /\ runlog' = runlog
    BY <1>1 DEF RunsInv, OracleRun
  <2> QED BY <1>2, <1>3, <2>1 DEF RunSound
<1>5. session.to \in Nat
  BY DEF RunTypes
<1>6. SessionSound'
  BY <1>1, <1>2, <1>5 DEF RunsInv, SessionSound
<1>7. \A i : Taken(i)' <=> Taken(i)
  BY <1>1 DEF Taken, SteppedOver
<1>8. RunsCover'
  <2> SUFFICES ASSUME NEW n \in Runs, NEW i \in 1 .. runlog[n].to, main'[i].bucket # "none"
               PROVE  Taken(i)'
    BY <1>1 DEF RunsCover
  <2>1. runlog[n].to \in Nat /\ runlog[n].to <= Len(main)
    BY <1>1 DEF RunsInv, RunSound, OracleRun
  <2>2. i \in DOMAIN main
    BY <1>2, <2>1
  <2>3. Taken(i)
    BY <1>2, <2>2 DEF RunsInv, RunsCover
  <2> QED BY <1>7, <2>3
<1>9. FindingsOnce'
  <2>1. ASSUME NEW n \in Runs, runlog[n].findings # {}
        PROVE  \E i \in runlog[n].reviewed : main'[i].task = Task
    BY <1>2, <2>1 DEF RunsInv, RunSound
  <2> QED BY <1>1, <2>1 DEF RunsInv, FindingsOnce
<1> QED BY <1>1, <1>4, <1>6, <1>8, <1>9 DEF RunsInv

\* The ledger takes an escape: no run changes.
LEMMA EscapeLedgered ==
  ASSUME RunTypes, RunsInv, NEW e \in Entry, e.action = "escape-raised",
         runlog' = Append(runlog, e), main' = main, session' = session
  PROVE  RunsInv'
<1>1. Runs' = Runs /\ \A n \in Runs : runlog'[n] = runlog[n]
  <2>1. Runs \subseteq DOMAIN runlog
    BY RunsFacts
  <2> QED BY <2>1, EntryAppended
<1>2. ASSUME NEW n \in Runs PROVE RunSound(runlog[n])'
  BY <1>1 DEF RunsInv, RunSound
<1>3. \A i : Taken(i)' <=> Taken(i)
  BY <1>1 DEF Taken, SteppedOver
<1>4. RunsCover'
  BY <1>1, <1>3 DEF RunsInv, RunsCover
<1>5. SessionSound' /\ FindingsOnce'
  BY <1>1 DEF RunsInv, SessionSound, FindingsOnce
<1> QED BY <1>1, <1>2, <1>4, <1>5 DEF RunsInv

LEMMA RecordStartRuns == RunTypes /\ RunsInv /\ RecordStart => RunsInv'
<1> SUFFICES ASSUME RunTypes, RunsInv, RecordStart PROVE RunsInv'
  OBVIOUS
<1>1. PICK to \in 1 .. Len(main) : session' = [pc |-> "append", to |-> to]
  BY DEF RecordStart
<1>2. main' = main /\ runlog' = runlog /\ Runs' = Runs
  BY RunlogStays DEF RecordStart
<1>3. SessionSound'
  BY <1>1, <1>2, RunsFacts DEF SessionSound
<1>4. \A i : Taken(i)' <=> Taken(i)
  BY <1>2 DEF Taken, SteppedOver
<1> QED BY <1>2, <1>3, <1>4 DEF RunsInv, RunSound, RunsCover, FindingsOnce

\* A run is recorded: it reviewed or skipped every product merge of its range,
\* stepped over the ones before it that no run had reached, and takes the
\* findings no run has.
LEMMA RecordAppendRuns == RunTypes /\ RunsInv /\ RecordAppend => RunsInv'
<1> SUFFICES ASSUME RunTypes, RunsInv, RecordAppend PROVE RunsInv'
  OBVIOUS
<1>1. PICK from \in Starts : runlog' = Append(runlog, RunRecord(from, session.to))
  BY DEF RecordAppend
<1>2. PICK r, new : r = RunRecord(from, session.to) /\ new = Len(runlog) + 1
  OBVIOUS
<1>3. /\ session.pc = "append" /\ from \in Nat /\ session.to \in Nat
      /\ runlog' = Append(runlog, r) /\ main' = main /\ session' = NoSession
  BY <1>1, <1>2, StartFacts DEF RecordAppend, RunTypes
<1>4. /\ r \in OracleRun /\ r \in Entry /\ r.action = "oracle-run" /\ r.from = from
      /\ r.to = session.to /\ r.reviewed = Reviewed(from, session.to)
      /\ r.skipped = Skipped(from, session.to) /\ r.findings = RunFindings(r.reviewed)
  BY <1>2, <1>3, RecordFacts
<1>5. /\ Runs' = Runs \cup {new} /\ runlog'[new] = r
      /\ new \notin Runs /\ \A n \in Runs : runlog'[n] = runlog[n] /\ n \in Nat /\ n < new
      /\ new \in Nat
  <2>1. Runs \subseteq DOMAIN runlog /\ DOMAIN runlog = 1 .. Len(runlog) /\ Len(runlog) \in Nat
    BY RunsFacts
  <2> QED BY <1>2, <1>3, <1>4, <2>1, EntryAppended
<1>6. session.to <= Len(main) /\ Len(main) \in Nat /\ DOMAIN main = 1 .. Len(main)
  BY <1>3, RunsFacts DEF RunsInv, SessionSound
<1>7. merged_in(from, session.to) \subseteq DOMAIN main
  BY <1>3, <1>6 DEF merged_in
<1>8. /\ r.reviewed \subseteq merged_in(from, session.to)
      /\ r.skipped = merged_in(from, session.to) \ r.reviewed
      /\ \A i \in r.skipped : main[i].bucket = "L1"
  <2>1. \A i \in merged_in(from, session.to) : i \notin r.reviewed => main[i].bucket = "L1"
    BY <1>4 DEF Reviewed
  <2> QED BY <1>4, <2>1 DEF Reviewed, Skipped
<1>9. /\ r.findings # {} => \E i \in r.reviewed : main[i].task = Task
      /\ \A n \in Runs : r.findings \cap runlog[n].findings = {}
  BY <1>4 DEF RunFindings, RecordedFindings
<1>10. ASSUME NEW n \in Runs' PROVE RunSound(runlog[n])'
  <2>1. CASE n = new
    BY <1>3, <1>4, <1>5, <1>6, <1>7, <1>8, <1>9, <2>1 DEF RunSound
  <2>2. CASE n \in Runs
    BY <1>3, <1>5, <2>2 DEF RunsInv, RunSound
  <2> QED BY <1>5, <2>1, <2>2
<1>11. SessionSound'
  BY <1>3 DEF SessionSound, NoSession
<1>12. ASSUME NEW i, Taken(i) PROVE Taken(i)'
  <2>1. CASE SteppedOver(i)
    <3>1. PICK n \in Runs : i <= runlog[n].from /\ \A m \in Runs : m < n => runlog[m].to < i
      BY <2>1 DEF SteppedOver
    <3>2. ~(new < n)
      BY <1>5, <3>1
    <3>3. n \in Runs' /\ i <= runlog'[n].from /\ \A m \in Runs' : m < n => runlog'[m].to < i
      BY <1>5, <3>1, <3>2
    <3>4. SteppedOver(i)'
      BY <3>3 DEF SteppedOver
    <3> QED BY <3>4 DEF Taken
  <2>2. CASE \E m \in Runs : i \in runlog[m].reviewed \cup runlog[m].skipped
    BY <1>5, <2>2 DEF Taken
  <2> QED BY <1>12, <2>1, <2>2 DEF Taken
<1>13. ASSUME NEW n \in Runs', NEW i \in 1 .. runlog'[n].to, main[i].bucket # "none"
       PROVE  Taken(i)'
  <2>1. CASE \E m \in Runs : i <= runlog[m].to
    <3>1. PICK m \in Runs : i <= runlog[m].to
      BY <2>1
    <3>2. runlog[m].to \in Nat /\ i \in Int /\ i >= 1
      <4>1. runlog'[n].to \in Nat
        BY <1>3, <1>4, <1>5, RunsFacts DEF OracleRun
      <4> QED BY <4>1, RunsFacts DEF OracleRun
    <3>3. i \in 1 .. runlog[m].to
      BY <3>1, <3>2
    <3>4. Taken(i)
      BY <1>13, <3>3 DEF RunsInv, RunsCover
    <3> QED BY <1>12, <3>4
  <2>2. CASE \A m \in Runs : ~(i <= runlog[m].to)
    <3>1. n = new /\ i \in 1 .. session.to
      <4>1. n \notin Runs
        <5> SUFFICES ASSUME n \in Runs PROVE FALSE
          OBVIOUS
        <5>1. runlog'[n] = runlog[n] /\ runlog[n].to \in Nat
          BY <1>5, RunsFacts DEF OracleRun
        <5> QED BY <2>2, <5>1
      <4> QED BY <1>4, <1>5, <4>1
    <3>2. i \in Nat
      BY <1>3, <3>1
    <3>3. CASE i <= from
      <4>1. \A m \in Runs : runlog[m].to < i
        <5> SUFFICES ASSUME NEW m \in Runs PROVE runlog[m].to < i
          OBVIOUS
        <5>1. runlog[m].to \in Nat
          BY RunsFacts DEF OracleRun
        <5> QED BY <2>2, <3>2, <5>1
      <4>2. \A m \in Runs' : m < new => runlog'[m].to < i
        BY <1>5, <4>1
      <4>3. new \in Runs' /\ i <= runlog'[new].from
        BY <1>4, <1>5, <3>3
      <4>4. SteppedOver(i)'
        BY <4>2, <4>3 DEF SteppedOver
      <4> QED BY <4>4 DEF Taken
    <3>4. CASE ~(i <= from)
      <4>1. i \in from + 1 .. session.to
        BY <1>3, <3>1, <3>2, <3>4
      <4>2. i \in merged_in(from, session.to)
        BY <1>13, <4>1 DEF merged_in
      <4>3. i \in r.reviewed \cup r.skipped
        BY <1>8, <4>2
      <4> QED BY <1>5, <4>3 DEF Taken
    <3> QED BY <3>3, <3>4
  <2> QED BY <2>1, <2>2
<1>14. RunsCover'
  BY <1>3, <1>13 DEF RunsCover
<1>15. FindingsOnce'
  <2>1. ASSUME NEW n \in Runs', runlog'[n].findings # {}
        PROVE  \E i \in runlog'[n].reviewed : main[i].task = Task
    BY <1>5, <1>9, <2>1 DEF RunsInv, FindingsOnce
  <2>2. ASSUME NEW n \in Runs', NEW m \in Runs', n # m
        PROVE  runlog'[n].findings \cap runlog'[m].findings = {}
    <3>1. CASE n = new
      BY <1>5, <1>9, <2>2, <3>1
    <3>2. CASE m = new
      BY <1>5, <1>9, <2>2, <3>2
    <3>3. CASE n \in Runs /\ m \in Runs
      BY <1>5, <2>2, <3>3 DEF RunsInv, FindingsOnce
    <3> QED BY <1>5, <3>1, <3>2, <3>3
  <2> QED BY <1>3, <2>1, <2>2 DEF FindingsOnce
<1> QED BY <1>10, <1>11, <1>14, <1>15 DEF RunsInv

LEMMA RunsStep == FlagsInv /\ RunTypes /\ RunTypes' /\ RunsInv /\ [Next]_vars => RunsInv'
<1> SUFFICES ASSUME FlagsInv, RunTypes, RunTypes', RunsInv, [Next]_vars PROVE RunsInv'
  OBVIOUS
<1>1. Begins(main, main)
  BY RunsFacts, BeginsSelf
<1>2. CASE (FlagsNext /\ UNCHANGED <<main, runlog, session>>) \/ Rework \/ UNCHANGED vars
  BY <1>1, <1>2, MainGrows DEF Rework, vars
<1>3. CASE MergeTask \/ MergeOther
  <2>1. PICK m : main' = Append(main, m)
    BY <1>3 DEF MergeTask, MergeOther
  <2>2. main \in Seq(Merge \cup {m})
    BY DEF RunTypes
  <2>3. Begins(main, main')
    BY <2>1, <2>2 DEF Begins
  <2> QED BY <1>3, <2>3, MainGrows DEF MergeTask, MergeOther
<1>4. ASSUME NEW w \in Directors, Escape(w) PROVE RunsInv'
  BY <1>1, <1>4, MainGrows DEF Escape
<1>5. ASSUME NEW w \in Directors, AppendEscape(w) PROVE RunsInv'
  <2>1. PICK e : e = [action |-> "escape-raised", flag |-> cmd[w].id]
    OBVIOUS
  <2>2. e \in Entry /\ e.action = "escape-raised"
    BY <1>5, <2>1, AnchorEntry
  <2> QED BY <1>5, <2>1, <2>2, EscapeLedgered DEF AppendEscape
<1> QED BY <1>2, <1>3, <1>4, <1>5, RecordStartRuns, RecordAppendRuns DEF Next

-----------------------------------------------------------------------------
(* What the commands and the runs promise                                  *)

OracleInv == FlagsInv /\ AllReported /\ RunTypes /\ Counted /\ RunsInv

LEMMA CountedStart == Init => Counted
<1> SUFFICES ASSUME Init PROVE Counted
  OBVIOUS
<1>1. runlog = <<>> /\ cmd = [w \in Writers |-> Idle]
  BY DEF Init, FlagsInit
<1>2. authentic_ids = {}
  BY <1>1 DEF authentic_ids
<1>3. \A w \in Directors : ~Escaping(w)
  BY <1>1, IdleTyped DEF Escaping, Writers
<1> QED BY <1>2, <1>3 DEF Counted

LEMMA OracleInvariant == Spec => []OracleInv
<1>1. Init => OracleInv
  BY FlagsStart, AllReportedStart, RunTypesStart, CountedStart, RunsStart DEF OracleInv
<1>2. OracleInv /\ [Next]_vars => OracleInv'
  BY FlagsStep, AllReportedStep, RunTypesStep, CountedStep, RunsStep DEF OracleInv
<1> QED BY <1>1, <1>2, PTL DEF Spec

LEMMA OracleTypes == OracleInv => TypeOK
<1> SUFFICES ASSUME OracleInv PROVE TypeOK
  OBVIOUS
<1>1. Types /\ RunTypes /\ RunsInv
  BY DEF OracleInv, FlagsInv
<1>2. \A c \in Checkouts : \A n \in DOMAIN log[c] : log[c][n] \in FlagEvent
  <2>1. \A c \in Checkouts : log[c] \in Seq(FlagEvent)
    BY <1>1 DEF Types
  <2> QED BY <2>1, LogFacts
<1>3. \A n \in DOMAIN pushed : pushed[n] \in FlagEvent
  BY <1>1, LogFacts DEF Types
<1>4. \A c \in Checkouts : jobs[c] \in 0 .. MaxJobs[c]
  <2>1. jobs["wt"] \in 0 .. WorkerJobs /\ jobs["main"] \in 0 .. DirectorJobs
    BY <1>1, TypeFacts, FlagsAssumption DEF Types
  <2> QED BY <2>1 DEF MaxJobs, Checkouts
<1>5. \A w \in Writers : cmd[w].pc \in {"idle", "append", "anchor"}
  BY <1>1 DEF Types, CommandType
<1>6. main \in Seq(Merge) /\ session.pc \in {"none", "append"}
  BY <1>1 DEF RunTypes
<1>7. authentic_ids \subseteq Ids
  BY <1>1, RunsFacts
<1>8. watermark \in {NoMark} \cup 0 .. Len(main)
  <2>1. CASE Runs = {}
    BY <1>1, <2>1, WatermarkIs
  <2>2. CASE Runs # {}
    <3>1. PICK n \in Runs : watermark = runlog[n].to
      BY <1>1, <2>2, WatermarkIs
    <3>2. runlog[n].to \in Nat /\ runlog[n].to <= Len(main) /\ Len(main) \in Nat
      BY <1>1, RunsFacts DEF RunsInv, RunSound, OracleRun
    <3> QED BY <3>1, <3>2
  <2> QED BY <2>1, <2>2
<1> QED BY <1>2, <1>3, <1>4, <1>5, <1>6, <1>7, <1>8 DEF TypeOK

\* FlagLogSound: whatever commands, kills, pushes, merges, reworks and planted
\* events follow each other on the two checkouts, a raise that reported its id
\* (raise_flag under log_lock) is the flag of that id, a resolution that
\* reported success (resolve_flag) is the one the flag shows, and an escape in
\* the ledger that shows as closed was closed by a command of the Director's that
\* reported it, or by a line that no command wrote: the loop's commands cannot.
THEOREM FlagLogIsSound == Spec => []FlagLogSound
<1>1. OracleInv => FlagLogSound
  <2> SUFFICES ASSUME OracleInv PROVE FlagLogSound
    OBVIOUS
  <2>1. /\ Types /\ LogsSound /\ (\A a \in acked : AckStands(a, log[a.at])) /\ Counted
        /\ log["main"] \in Seq(FlagEvent)
    BY TypeFacts DEF OracleInv, FlagsInv
  <2>2. TypeOK
    BY OracleTypes
  <2>3. RaisedVisible
    <3>1. ASSUME NEW a \in acked, a.job = "raise"
          PROVE  /\ a.id \in flag_ids(log[a.at])
                 /\ derive_flags(log[a.at])[a.id].key = a.key
      <4>1. a.id \in flag_ids(log[a.at]) /\ KeyOf(log[a.at], a.id) = a.key
        BY <2>1, <3>1 DEF AckStands
      <4> QED BY <4>1, DerivedFlag
    <3> QED BY <3>1 DEF RaisedVisible
  <2>4. ResolutionStands
    <3>1. ASSUME NEW a \in acked, a.job \in FLAG_RESOLUTIONS
          PROVE  /\ derive_flags(log[a.at])[a.id].status = a.job
                 /\ derive_flags(log[a.at])[a.id].by = a.key
      <4>1. PICK L : L = log[a.at]
        OBVIOUS
      <4>2. a.job # "raise"
        BY <3>1 DEF FLAG_RESOLUTIONS
      <4>3. /\ a.id \in flag_ids(L) /\ Resolutions(L, a.id) # {}
            /\ L[Least(Resolutions(L, a.id))].kind = a.job
            /\ L[Least(Resolutions(L, a.id))].key = a.key
        BY <2>1, <4>1, <4>2 DEF AckStands
      <4> QED BY <4>1, <4>3, DerivedFlag
    <3> QED BY <3>1 DEF ResolutionStands
  <2>5. LoopClosesNoEscape
    <3>1. ASSUME NEW i \in iter_escapes, NEW d, d = derive_flags(log["main"])[i], d.status # "open",
                 d.by # 0
          PROVE  [at |-> "main", job |-> d.status, id |-> i, key |-> d.by] \in acked
      <4>1. PICK L, m : L = log["main"] /\ m = Least(Resolutions(L, i))
        OBVIOUS
      <4>2. i \in flag_ids(L) /\ KindOf(L, i) = ORACLE_ESCAPE
        BY <2>1, <4>1, LedgerIs DEF Counted
      <4>3. Resolutions(L, i) # {}
        BY <3>1, <4>1, <4>2, DerivedFlag
      <4>4. d.by = L[m].key /\ d.status = L[m].kind
        BY <3>1, <4>1, <4>2, <4>3, DerivedFlag
      <4>5. m \in Resolutions(L, i)
        BY <2>1, <4>1, <4>3, ResolutionFacts
      <4>6. m \in DOMAIN L /\ L[m].action = "flag-resolved" /\ L[m].id = i
        BY <4>5 DEF Resolutions
      <4>7. L[m].key % 2 = 0
        BY <2>1, <4>1, <4>2, <4>6 DEF LogsSound, LogSound
      <4>8. Reported(L, acked)
        BY <4>1 DEF OracleInv, AllReported
      <4> QED BY <3>1, <4>4, <4>6, <4>7, <4>8 DEF Reported
    <3> QED BY <3>1 DEF LoopClosesNoEscape
  <2> QED BY <2>2, <2>3, <2>4, <2>5 DEF FlagLogSound
<1> QED BY <1>1, OracleInvariant, PTL

\* LedgerCountsFindings: the escapes that iter_escapes returns, those the run
\* log vouches for, are each about a finding the Director typed, and no two
\* about the same one, although a killed raise_oracle_escape is typed again.
THEOREM LedgerIsExact == Spec => []LedgerCountsFindings
<1>1. OracleInv => LedgerCountsFindings
  <2> SUFFICES ASSUME OracleInv PROVE LedgerCountsFindings
    OBVIOUS
  <2>1. /\ Counted /\ LogSound(log["main"], LastId, LastKey)
        /\ log["main"] \in Seq(FlagEvent)
    BY TypeFacts DEF OracleInv, FlagsInv, LogsSound
  <2>2. \A i \in iter_escapes :
          i \in authentic_ids /\ derive_flags(log["main"])[i].key = KeyOf(log["main"], i)
    BY <2>1, LedgerIs
  <2>3. ASSUME NEW i \in iter_escapes
        PROVE  KeyOf(log["main"], i) # 0 /\ KeyOf(log["main"], i) % 2 = 0
    <3>1. /\ i \in flag_ids(log["main"]) /\ KindOf(log["main"], i) = ORACLE_ESCAPE
          /\ KeyOf(log["main"], i) # 0
      BY <2>1, <2>2 DEF Counted
    <3>2. /\ First(log["main"], i) \in DOMAIN log["main"]
          /\ log["main"][First(log["main"], i)].action = "flag"
      BY <2>1, <3>1, FirstFacts
    <3> QED BY <2>1, <3>1, <3>2 DEF LogSound, KindOf, KeyOf
  <2>4. \A i, j \in iter_escapes : KeyOf(log["main"], i) = KeyOf(log["main"], j) => i = j
    BY <2>1, <2>2 DEF Counted
  <2> QED BY <2>2, <2>3, <2>4 DEF LedgerCountsFindings
<1> QED BY <1>1, OracleInvariant, PTL

\* WatermarkCovers: the watermark of the run log (record-run's --to) never
\* passes a product merge that no run reviewed or named as skipped, whatever
\* lands on main while a session is under way and wherever runs start and end,
\* except one that the first run to reach it or pass it was told, by --since, to
\* start behind.
THEOREM WatermarkIsCovered == Spec => []WatermarkCovers
<1>1. OracleInv => WatermarkCovers
  <2> SUFFICES ASSUME OracleInv PROVE WatermarkCovers
    OBVIOUS
  <2>1. RunTypes /\ RunsCover
    BY DEF OracleInv, RunsInv
  <2>2. CASE Runs = {}
    BY <2>1, <2>2, WatermarkIs DEF WatermarkCovers, NoMark
  <2>3. CASE Runs # {}
    <3>1. PICK n \in Runs : watermark = runlog[n].to
      BY <2>1, <2>3, WatermarkIs
    <3>2. \A i \in 1 .. watermark : main[i].bucket # "none" => Taken(i)
      BY <2>1, <3>1 DEF RunsCover
    <3> QED BY <3>2 DEF WatermarkCovers, Taken
  <2> QED BY <2>2, <2>3
<1> QED BY <1>1, OracleInvariant, PTL

\* FindingsOnce: a run claims findings of this task only when it reviewed a
\* merge of it, and no finding is counted by two runs (RunFindings takes those
\* no earlier run recorded).
THEOREM FindingsCountOnce == Spec => []FindingsOnce
<1>1. OracleInv => FindingsOnce
  BY DEF OracleInv, RunsInv
<1> QED BY <1>1, OracleInvariant, PTL

\* BlindSpotIsDue: an L3 merge that no run reviewed keeps trigger.check due,
\* unless a --since stepped over it: it lies after the watermark, since a run
\* whose range held it would have reviewed it.
THEOREM BlindSpotsAreDue == Spec => []BlindSpotIsDue
<1>1. OracleInv => BlindSpotIsDue
  <2> SUFFICES ASSUME OracleInv, NEW i \in DOMAIN main, main[i].bucket = "L3",
                      \A n \in Runs : i \notin runlog[n].reviewed, ~SteppedOver(i)
               PROVE  oracle_due(FALSE)
    BY DEF BlindSpotIsDue
  <2>1. RunTypes /\ RunsInv
    BY DEF OracleInv
  <2>2. i \in Nat /\ i >= 1 /\ i <= Len(main) /\ Len(main) \in Nat
    BY <2>1, RunsFacts
  <2>3. CASE watermark = NoMark
    BY <2>3 DEF oracle_due
  <2>4. CASE watermark # NoMark
    <3>1. watermark \in Nat
      BY <2>1, <2>4, WatermarkIs
    <3>2. i > watermark
      <4> SUFFICES ASSUME i <= watermark PROVE FALSE
        BY <2>2, <3>1
      <4>1. i \in 1 .. watermark
        BY <2>2, <3>1
      <4>2. PICK n \in Runs : i \in runlog[n].reviewed \cup runlog[n].skipped
        <5>1. PICK m \in Runs : watermark = runlog[m].to
          BY <2>1, <2>4, WatermarkIs
        <5>2. main[i].bucket # "none"
          OBVIOUS
        <5>3. Taken(i)
          BY <2>1, <4>1, <5>1, <5>2 DEF RunsInv, RunsCover
        <5> QED BY <5>3 DEF Taken
      <4>3. main[i].bucket = "L1"
        BY <2>1, <4>2 DEF RunsInv, RunSound
      <4> QED BY <4>3
    <3>3. i \in watermark + 1 .. Len(main)
      BY <2>2, <3>1, <3>2
    <3>4. i \in merged_in(watermark, Len(main))
      BY <3>3 DEF merged_in
    <3> QED BY <3>4 DEF oracle_due
  <2> QED BY <2>3, <2>4
<1> QED BY <1>1, OracleInvariant, PTL
================================================================================
