------------------------ MODULE CodexInjectionProofs ------------------------
(***************************************************************************)
(* Theorems of CodexInjection, for any edits and bounds: in the loopback   *)
(* form the proxy's routing never becomes the user's original, and in both *)
(* forms no edit is lost that was not made while a command was between     *)
(* reading the file and writing it, or before an injection had set its     *)
(* mark; and in the loopback form, where commands did not overlap, taking  *)
(* the injection back gives exactly the user's file.                       *)
(***************************************************************************)
EXTENDS CodexInjection, TLAPS

(* A configuration without the proxy's routing.                            *)
Native(c) == c.provider # "opencodex" /\ c.url # "ours"

(* What is native stays native: nothing a process has read, and nothing    *)
(* the journal or a copy of it holds, carries the proxy's routing into a   *)
(* restore.                                                                *)
NativeInv ==
    ~Open =>
        /\ config.provider # "opencodex"
        /\ \A a \in Actors : actor[a].raw.provider # "opencodex" /\ Native(actor[a].taken.config)
        /\ Native(journal.config)
        /\ ~injected => config.url # "ours"

(* The edits that must be there are, in this set. *)
Kept(edits) == own.edits \ exposed \subseteq edits

(* A journal that may be put back has them: all, or with a mark as far as  *)
(* they were there to be injected.                                         *)
Sound(j) ==
    /\ ~j.marked => Kept(j.config.edits)
    /\ j.marked => j.injected.edits \ exposed \subseteq j.config.edits

(* So has what a process, r, is about to write.                            *)
Keeps(r) ==
    /\ r.pc \in {"journal", "config", "stripWrite"} => Kept(r.raw.edits)
    /\ r.pc = "remark" => r.raw.edits \ exposed \subseteq r.taken.config.edits
    /\ r.pc = "compare" => Sound(r.taken)
    /\ r.pc = "configBack" /\ r.configOk => Kept(r.taken.config.edits)

EditsInv ==
    /\ Kept(config.edits)
    /\ journal.here => Sound(journal)
    /\ \A a \in Actors : Keeps(actor[a])

(* An edit found anywhere is wished for, or was exposed. *)
Known(edits) == edits \subseteq own.edits \cup exposed

Knows(r) == r.pc # "rest" => Known(r.raw.edits) /\ Known(r.taken.config.edits)

EditsKnown ==
    /\ Known(config.edits) /\ Known(journal.config.edits)
    /\ \A a \in Actors : Knows(actor[a])

(* What a journal says, whoever owns it.                                   *)
SameSnapshot(j, k) ==
    /\ j.here = k.here /\ j.config = k.config
    /\ j.marked = k.marked /\ j.injected = k.injected

(* The journal can take the injection back: it holds the configuration as  *)
(* the user wants it, and takes only its injected form for the injection.  *)
Backed ==
    /\ journal.here /\ journal.config = own
    /\ journal.marked => journal.injected = Injected(own)

(* The configuration is the user's, or its injected form, and then the     *)
(* journal can take it back.                                               *)
FilesAgree ==
    /\ ~injected => /\ config = own
                    /\ journal.here /\ ~journal.marked => journal.config = own
    /\ injected => config = Injected(own) /\ Backed

(* A process at work, r: what it has read is still there, and when it      *)
(* comes to write, the journal can take that back.                         *)
Works(r) ==
    /\ r.pc \in {"journal", "config", "stripWrite"} => r.raw = config
    /\ r.pc \in {"journal", "config"} => ~External(config)
    /\ r.pc = "config" => Backed
    /\ r.pc \in {"profile", "mark", "remark"} => injected /\ Injected(r.raw) = Injected(own)
    /\ r.pc \in {"remark", "compare"} => journal.here /\ SameSnapshot(r.taken, journal)
    /\ r.pc = "configBack" /\ r.configOk => r.taken.config = own
    /\ r.pc = "configBack" /\ ~r.configOk => ~injected
    /\ r.pc \in {"forget", "profileBack", "drop", "strip", "stripWrite"} => ~injected

OneAtATime ==
    /\ \A a, b \in Actors : ~At(a, "rest") /\ ~At(b, "rest") => a = b
    /\ FilesAgree
    /\ \A a \in Actors : Works(actor[a])

(* What the user wants has none of the proxy's routing, and what a journal *)
(* takes for the injection has an address.                                 *)
MarksDiffer ==
    /\ Native(own)
    /\ journal.marked => journal.injected.url # None

ExactInv ==
    ~Open =>
        /\ MarksDiffer
        /\ calm /\ own.url # "own" => OneAtATime

IInv == TypeOK /\ NativeInv /\ EditsInv /\ EditsKnown /\ ExactInv

-----------------------------------------------------------------------------
(* Shapes.                                                                 *)

(* A process, its copy of the journal included, is of its shape.           *)
ActorOK(r) == r \in ActorRecord /\ Ready(r)
ActorsOK == actor \in [Actors -> ActorRecord] /\ \A b \in Actors : Ready(actor[b])

(* Where a process has a copy of the journal to use.                       *)
Copying == {"remark", "compare"}

(* The values that stand for nothing are of their shapes. *)
LEMMA Constants ==
    /\ ActorOK(Resting) /\ WellFormed(NoJournal) /\ NoJournal.config \in Configs
    /\ Resting.pc = "rest" /\ Resting.raw = NoJournal.config /\ Resting.taken = NoJournal
    /\ NoJournal.config.edits = {} /\ Native(NoJournal.config)
    /\ ~NoJournal.here /\ ~NoJournal.marked
    /\ None \in Profiles /\ "ours" \in Profiles /\ "own" \in Profiles
<1>1. NoJournal.config \in Configs /\ NoJournal \in JournalRecord
  BY DEF NoJournal, JournalRecord, Configs, Profiles, None
<1>2. WellFormed(NoJournal)
  BY <1>1 DEF WellFormed, NoJournal
<1>3. /\ NoJournal.config.edits = {} /\ Native(NoJournal.config)
      /\ ~NoJournal.here /\ ~NoJournal.marked
  BY DEF NoJournal, Native, None
<1>4. /\ Resting.pc = "rest" /\ Resting.raw = NoJournal.config /\ Resting.taken = NoJournal
      /\ Resting \in ActorRecord
  BY <1>1 DEF Resting, ActorRecord, Pcs, Sequels
<1> QED
  BY <1>1, <1>2, <1>3, <1>4 DEF ActorOK, Ready, Profiles

(* Both transforms give configurations. *)
LEMMA ConfigShapes ==
    ASSUME NEW c \in Configs
    PROVE  Injected(c) \in Configs /\ Stripped(c) \in Configs
  BY InjectionConstants DEF Injected, Stripped, Configs, None

(* A journal that changes hands stays well-formed, and says the same.      *)
LEMMA OwnerShapes ==
    ASSUME NEW j, WellFormed(j), NEW a \in Actors
    PROVE  /\ WellFormed(Orphaned(j, a)) /\ SameSnapshot(Orphaned(j, a), j)
           /\ j = NoJournal => Orphaned(j, a) = NoJournal
<1>1. j = NoJournal => Orphaned(j, a) = NoJournal
  BY DEF Orphaned, NoJournal, Actors, None
<1>2. CASE j.here
  BY <1>1, <1>2 DEF Orphaned, WellFormed, JournalRecord, SameSnapshot, Actors, None
<1>3. CASE ~j.here
  BY <1>1, <1>3 DEF WellFormed, SameSnapshot
<1> QED
  BY <1>1, <1>2, <1>3

(* Two records of a process that differ in the owner of its copy at most.  *)
SameWork(r, q) ==
    /\ r.pc = q.pc /\ r.raw = q.raw /\ r.configOk = q.configOk
    /\ SameSnapshot(r.taken, q.taken)

(* A step of one process: the others go on where they were.                *)
Others(a) == \A b \in Actors : b # a => SameWork(actor'[b], actor[b])

Acts(a, r) == Others(a) /\ actor'[a] = r /\ ActorsOK'

LEMMA ActorMoves ==
    ASSUME TypeOK, NEW a \in Actors, NEW r, ActorOK(r), actor' = [actor EXCEPT ![a] = r]
    PROVE  Acts(a, r)
  BY DEF TypeOK, ActorOK, Ready, ActorsOK, Acts, Others, SameWork, SameSnapshot

(* A process moves on.                                                     *)
LEMMA GoActs ==
    ASSUME TypeOK, NEW a \in Actors, NEW pc \in Pcs \ Copying, Go(a, pc)
    PROVE  /\ Acts(a, actor'[a])
           /\ actor'[a].pc = pc /\ actor'[a].raw = actor[a].raw
           /\ actor'[a].taken = actor[a].taken /\ actor'[a].configOk = actor[a].configOk
<1> DEFINE r == [actor[a] EXCEPT !.pc = pc]
<1>1. /\ r \in ActorRecord /\ r.pc = pc /\ r.raw = actor[a].raw
      /\ r.taken = actor[a].taken /\ r.configOk = actor[a].configOk
  BY DEF TypeOK, ActorRecord
<1>2. actor' = [actor EXCEPT ![a] = r]
  BY DEF Go, TypeOK
<1>3. ActorOK(r)
  BY <1>1 DEF ActorOK, Ready, Copying, TypeOK
<1> HIDE DEF r
<1>4. Acts(a, r) /\ actor'[a] = r
  BY <1>2, <1>3, ActorMoves DEF Acts
<1> QED
  BY <1>1, <1>4

LEMMA BecomeActs ==
    ASSUME TypeOK, NEW a \in Actors, NEW pc \in Pcs \ Copying, Become(a, pc)
    PROVE  /\ Acts(a, actor'[a])
           /\ actor'[a].pc = pc /\ actor'[a].raw = NoJournal.config
           /\ actor'[a].taken = NoJournal
<1> DEFINE r == [Resting EXCEPT !.pc = pc]
<1>1. /\ r \in ActorRecord /\ r.pc = pc /\ r.raw = NoJournal.config
      /\ r.taken = NoJournal
  BY Constants DEF Resting, ActorOK, ActorRecord
<1>2. actor' = [actor EXCEPT ![a] = r]
  BY DEF Become
<1>3. ActorOK(r)
  BY <1>1, Constants DEF ActorOK, Ready, Copying
<1> HIDE DEF r
<1>4. Acts(a, r) /\ actor'[a] = r
  BY <1>2, <1>3, ActorMoves DEF Acts
<1> QED
  BY <1>1, <1>4

LEMMA BeginActs ==
    ASSUME TypeOK, NEW a \in Actors, NEW pc \in Pcs \ Copying, NEW then \in Sequels, Begin(a, pc, then)
    PROVE  /\ Acts(a, actor'[a])
           /\ actor'[a].pc = pc /\ actor'[a].raw = NoJournal.config
           /\ actor'[a].taken = NoJournal
<1> DEFINE r == [Resting EXCEPT !.pc = pc, !.then = then]
<1>1. /\ r \in ActorRecord /\ r.pc = pc /\ r.raw = NoJournal.config
      /\ r.taken = NoJournal
  BY Constants DEF Resting, ActorOK, ActorRecord
<1>2. actor' = [actor EXCEPT ![a] = r]
  BY DEF Begin
<1>3. ActorOK(r)
  BY <1>1, Constants DEF ActorOK, Ready, Copying
<1> HIDE DEF r
<1>4. Acts(a, r) /\ actor'[a] = r
  BY <1>2, <1>3, ActorMoves DEF Acts
<1> QED
  BY <1>1, <1>4

(* A process ends, or dies: what another has read of its journal loses its *)
(* owner, and no more.                                                     *)
LEMMA LeaveActs ==
    ASSUME TypeOK, NEW a \in Actors, NEW j, WellFormed(j), Leave(a, j)
    PROVE  /\ Acts(a, Resting)
           /\ WellFormed(journal') /\ SameSnapshot(journal', j)
           /\ j = NoJournal => journal' = NoJournal
<1>1. ASSUME NEW b \in Actors, b # a
      PROVE  /\ actor'[b] \in ActorRecord /\ Ready(actor'[b])
             /\ SameWork(actor'[b], actor[b])
  <2> DEFINE k == Orphaned(actor[b].taken, a)
  <2>1. /\ actor'[b] = [actor[b] EXCEPT !.taken = k]
        /\ actor[b] \in ActorRecord /\ Ready(actor[b]) /\ WellFormed(actor[b].taken)
    BY <1>1 DEF Leave, TypeOK, Ready, ActorRecord
  <2>2. WellFormed(k) /\ SameSnapshot(k, actor[b].taken)
    BY <2>1, OwnerShapes
  <2> HIDE DEF k
  <2> QED
    BY <2>1, <2>2 DEF ActorRecord, Ready, WellFormed, SameWork, SameSnapshot
<1>2. actor'[a] = Resting /\ ActorOK(Resting)
  BY Constants DEF Leave
<1>3. actor' \in [Actors -> ActorRecord] /\ \A b \in Actors : Ready(actor'[b])
  <2>1. \A b \in Actors : actor'[b] \in ActorRecord /\ Ready(actor'[b])
    BY <1>1, <1>2 DEF ActorOK
  <2>2. actor' = [b \in Actors |-> actor'[b]]
    BY DEF Leave
  <2> HIDE DEF Leave
  <2> QED
    BY <2>1, <2>2
<1> QED
  BY <1>1, <1>2, <1>3, OwnerShapes DEF Acts, Others, ActorsOK, Leave

LEMMA FinishActs ==
    ASSUME TypeOK, NEW a \in Actors, NEW j, WellFormed(j), Finish(a, j)
    PROVE  /\ Acts(a, Resting)
           /\ WellFormed(journal') /\ SameSnapshot(journal', j)
           /\ j = NoJournal => journal' = NoJournal
<1>1. CASE a = "cli"
  BY <1>1, LeaveActs DEF Finish
<1>2. CASE a # "cli"
  BY <1>2, ActorMoves, Constants DEF Finish, SameSnapshot
<1> QED
  BY <1>1, <1>2

-----------------------------------------------------------------------------
(* What each step does to the process that takes it.                       *)

LEMMA LoadActs ==
    ASSUME TypeOK, NEW a \in Actors, Read(a), ~External(config)
    PROVE  /\ Acts(a, actor'[a])
           /\ actor'[a].pc = "journal" /\ actor'[a].raw = config
           /\ actor'[a].taken = actor[a].taken
<1> DEFINE r == [actor[a] EXCEPT !.pc = "journal", !.raw = config]
<1>1. /\ r \in ActorRecord /\ r.pc = "journal" /\ r.raw = config
      /\ r.taken = actor[a].taken
  BY DEF TypeOK, ActorRecord, Pcs
<1>2. actor' = [actor EXCEPT ![a] = r]
  BY DEF Read, TypeOK
<1>3. ActorOK(r)
  BY <1>1 DEF ActorOK, Ready, Copying, TypeOK
<1> HIDE DEF r
<1>4. Acts(a, r) /\ actor'[a] = r
  BY <1>2, <1>3, ActorMoves DEF Acts
<1> QED
  BY <1>1, <1>4

(* A process takes a copy of the journal.                                  *)
LEMMA TakeActs ==
    ASSUME TypeOK, NEW a \in Actors, NEW pc \in Pcs, pc \in Copying => journal.here,
           actor' = [actor EXCEPT ![a].pc = pc, ![a].taken = journal]
    PROVE  /\ Acts(a, actor'[a])
           /\ actor'[a].pc = pc /\ actor'[a].raw = actor[a].raw
           /\ actor'[a].taken = journal
<1> DEFINE r == [actor[a] EXCEPT !.pc = pc, !.taken = journal]
<1>1. /\ r \in ActorRecord /\ r.pc = pc /\ r.raw = actor[a].raw
      /\ r.taken = journal
  BY DEF TypeOK, WellFormed, ActorRecord
<1>2. actor' = [actor EXCEPT ![a] = r]
  BY DEF TypeOK
<1>3. ActorOK(r)
  BY <1>1 DEF ActorOK, Ready, Copying, TypeOK
<1> HIDE DEF r
<1>4. Acts(a, r) /\ actor'[a] = r
  BY <1>2, <1>3, ActorMoves DEF Acts
<1> QED
  BY <1>1, <1>4

LEMMA CompareActs ==
    ASSUME TypeOK, NEW a \in Actors, Compare(a)
    PROVE  /\ Acts(a, actor'[a])
           /\ actor'[a].pc = "configBack" /\ actor'[a].raw = actor[a].raw
           /\ actor'[a].taken = actor[a].taken
           /\ actor'[a].configOk <=> ConfigUnchanged(actor[a].taken)
<1> DEFINE x == ConfigUnchanged(actor[a].taken)
           y == ProfileUnchanged(actor[a].taken)
           r == [actor[a] EXCEPT !.pc = "configBack", !.configOk = x, !.profileOk = y]
<1>1. x \in BOOLEAN /\ y \in BOOLEAN
  BY DEF ConfigUnchanged, ProfileUnchanged, TypeOK, Ready, WellFormed, JournalRecord
<1>2. actor' = [actor EXCEPT ![a] = r]
  BY DEF Compare, TypeOK
<1> HIDE DEF x, y
<1>3. /\ r \in ActorRecord /\ r.pc = "configBack" /\ r.raw = actor[a].raw
      /\ r.taken = actor[a].taken /\ r.configOk = x
  BY <1>1 DEF TypeOK, ActorRecord, Pcs
<1>4. ActorOK(r)
  BY <1>3 DEF ActorOK, Ready, Copying, TypeOK
<1> HIDE DEF r
<1>5. Acts(a, r) /\ actor'[a] = r
  BY <1>2, <1>4, ActorMoves DEF Acts
<1> QED
  BY <1>3, <1>5 DEF x

(* A process reads, or lets go of, a configuration.                        *)
LEMMA RawActs ==
    ASSUME TypeOK, NEW a \in Actors, NEW pc \in Pcs \ Copying, NEW c \in Configs,
           actor' = [actor EXCEPT ![a].pc = pc, ![a].raw = c]
    PROVE  /\ Acts(a, actor'[a])
           /\ actor'[a].pc = pc /\ actor'[a].raw = c
           /\ actor'[a].taken = actor[a].taken
<1> DEFINE r == [actor[a] EXCEPT !.pc = pc, !.raw = c]
<1>1. /\ r \in ActorRecord /\ r.pc = pc /\ r.raw = c
      /\ r.taken = actor[a].taken
  BY DEF TypeOK, ActorRecord
<1>2. actor' = [actor EXCEPT ![a] = r]
  BY DEF TypeOK
<1>3. ActorOK(r)
  BY <1>1 DEF ActorOK, Ready, Copying, TypeOK
<1> HIDE DEF r
<1>4. Acts(a, r) /\ actor'[a] = r
  BY <1>2, <1>3, ActorMoves DEF Acts
<1> QED
  BY <1>1, <1>4

(* A restore goes on to strip.                                             *)
LEMMA ToStripActs ==
    ASSUME TypeOK, NEW a \in Actors,
           actor' = [actor EXCEPT ![a] = [Resting EXCEPT !.pc = "strip", !.taken = actor[a].taken]]
    PROVE  /\ Acts(a, actor'[a])
           /\ actor'[a].pc = "strip" /\ actor'[a].raw = NoJournal.config
           /\ actor'[a].taken = actor[a].taken
<1> DEFINE r == [Resting EXCEPT !.pc = "strip", !.taken = actor[a].taken]
<1>1. /\ r \in ActorRecord /\ r.pc = "strip" /\ r.raw = NoJournal.config
      /\ r.taken = actor[a].taken
  BY Constants DEF TypeOK, Resting, ActorOK, ActorRecord, Pcs
<1>3. ActorOK(r)
  BY <1>1 DEF ActorOK, Ready, Copying, TypeOK
<1> HIDE DEF r
<1>4. Acts(a, r) /\ actor'[a] = r
  BY <1>3, ActorMoves DEF Acts, r
<1> QED
  BY <1>1, <1>4

(* The journal with its mark.                                              *)
Remarked(r) == [r.taken EXCEPT !.marked = TRUE, !.injected = Injected(r.raw)]

LEMMA RemarkActs ==
    ASSUME TypeOK, NEW a \in Actors, Remark(a), actor[a].taken.here
    PROVE  /\ Acts(a, Resting)
           /\ WellFormed(journal') /\ SameSnapshot(journal', Remarked(actor[a]))
           /\ Remarked(actor[a]).here /\ Remarked(actor[a]).marked
           /\ Remarked(actor[a]).config = actor[a].taken.config
           /\ Remarked(actor[a]).injected = Injected(actor[a].raw)
<1> DEFINE j == Remarked(actor[a])
           c == Injected(actor[a].raw)
<1>1. c \in Configs
  BY ConfigShapes DEF TypeOK, ActorRecord
<1>2. Finish(a, j) /\ WellFormed(actor[a].taken)
  BY DEF Remark, Remarked, TypeOK, Ready
<1>3. j = [actor[a].taken EXCEPT !.marked = TRUE, !.injected = c]
  BY DEF Remarked
<1> HIDE DEF c, j
<1>4. /\ WellFormed(j) /\ j.here /\ j.marked /\ j.config = actor[a].taken.config
      /\ j.injected = c
  BY <1>1, <1>2, <1>3 DEF WellFormed, JournalRecord
<1>5. Acts(a, Resting) /\ WellFormed(journal') /\ SameSnapshot(journal', j)
  BY <1>2, <1>4, FinishActs
<1> QED
  BY <1>4, <1>5 DEF j, c

(* A fresh snapshot.                                                       *)
Snapshot(a) == [NoJournal EXCEPT !.here = TRUE, !.config = actor[a].raw,
                                 !.profile = profile, !.owner = a]

LEMMA JournalActs ==
    ASSUME TypeOK, NEW a \in Actors, WriteJournal(a)
    PROVE  /\ Acts(a, actor'[a])
           /\ actor'[a].pc = "config" /\ actor'[a].raw = actor[a].raw
           /\ actor'[a].taken = actor[a].taken
           /\ WellFormed(journal')
           /\ HasInjectedRouting(actor[a].raw) => journal' = journal
           /\ ~HasInjectedRouting(actor[a].raw) =>
                /\ journal'.here /\ ~journal'.marked /\ journal'.config = actor[a].raw
<1> DEFINE c == actor[a].raw
           p == profile
           j == [NoJournal EXCEPT !.here = TRUE, !.config = c, !.profile = p, !.owner = a]
<1>1. c \in Configs /\ p \in Profiles /\ a \in Actors /\ a # None
  BY DEF TypeOK, ActorRecord, Actors, None
<1>2. NoJournal \in JournalRecord /\ ~NoJournal.marked
  BY Constants DEF WellFormed
<1>3. journal' = IF HasInjectedRouting(c) THEN journal ELSE j
  BY DEF WriteJournal
<1> HIDE DEF c, p
<1>4. j \in JournalRecord /\ j.here /\ j.owner = a /\ ~j.marked /\ j.config = c
  BY <1>1, <1>2 DEF JournalRecord
<1> HIDE DEF j
<1>5. WellFormed(j)
  BY <1>1, <1>4 DEF WellFormed
<1>6. WellFormed(journal')
  BY <1>3, <1>5 DEF TypeOK
<1>7. Go(a, "config") /\ "config" \in Pcs
  BY DEF WriteJournal, Pcs
<1> QED
  BY <1>3, <1>4, <1>6, <1>7, GoActs DEF c, Copying

-----------------------------------------------------------------------------
(* The kinds of steps.                                                     *)

(* Where a process is about to write what it has read.                     *)
Loaded == {"journal", "config", "remark", "compare", "configBack", "stripWrite"}

(* A process keeps what it has read, or lets go of it.                     *)
Carries(r, q) ==
    /\ r.raw = NoJournal.config \/ (r.raw = q.raw /\ q.pc # "rest")
    /\ r.taken = NoJournal \/ (r.taken = q.taken /\ q.pc # "rest")

(* A step of a process that leaves the configuration alone, and the        *)
(* journal unless it removes it, and after which it is not about to write. *)
Passes(a) ==
    /\ UNCHANGED <<config, own, exposed, injected>>
    /\ WellFormed(journal')
    /\ journal' = NoJournal \/ SameSnapshot(journal', journal)
    /\ Acts(a, actor'[a])
    /\ actor'[a].pc \notin Loaded
    /\ Carries(actor'[a], actor[a])

Idles == UNCHANGED <<config, own, exposed, injected, actor, journal>>

Load(a) == Read(a) /\ ~External(config)
Take(a) == MarkJournal(a) /\ journal.here /\ ~journal.marked
Found(a) == Reload(a) /\ journal.here

(* The steps that read, or write, configuration or journal.                *)
Touches(a) ==
    \/ Load(a) \/ WriteJournal(a) \/ WriteConfig(a) \/ Take(a) \/ Remark(a)
    \/ Found(a) \/ Compare(a) \/ ConfigBack(a) \/ Strip(a) \/ StripWrite(a)

Begins == Start \/ Resync \/ Shutdown \/ Ensure \/ Command

LEMMA BeginsWhere ==
    ASSUME Begins
    PROVE  /\ \E a \in Actors, pc \in {"read", "restore", "reconcile"}, then \in Sequels : Begin(a, pc, then)
           /\ up \in BOOLEAN => up' \in BOOLEAN
<1>1. CASE Start
  BY <1>1 DEF Start, Actors, Sequels
<1>2. CASE Resync
  BY <1>2 DEF Resync, Actors, Sequels
<1>3. CASE Shutdown
  BY <1>3 DEF Shutdown, Actors, Sequels
<1>4. CASE Ensure
  BY <1>4 DEF Ensure, Actors, Sequels
<1>5. CASE Command
  BY <1>5 DEF Command, Actors, Sequels
<1> QED
  BY <1>1, <1>2, <1>3, <1>4, <1>5 DEF Begins

(* A process ends, its journal kept or removed.                            *)
LEMMA EndPasses ==
    ASSUME TypeOK, NEW a \in Actors, NEW j \in {NoJournal, journal},
           Finish(a, j) \/ Leave(a, j), UNCHANGED <<config, own, exposed, injected>>
    PROVE  Passes(a)
<1>1. WellFormed(j)
  BY Constants DEF TypeOK
<1>2. /\ Acts(a, Resting) /\ WellFormed(journal') /\ SameSnapshot(journal', j)
      /\ j = NoJournal => journal' = NoJournal
  BY <1>1, FinishActs, LeaveActs
<1>3. actor'[a] = Resting
  BY <1>2 DEF Acts
<1> QED
  BY <1>2, <1>3, Constants DEF Passes, Carries, Loaded

(* A process goes on, and nothing else happens.                            *)
LEMMA GoPasses ==
    ASSUME TypeOK, NEW a \in Actors, ~At(a, "rest"), NEW pc \in Pcs \ Loaded,
           Go(a, pc) \/ Become(a, pc), NEW j \in {NoJournal, journal}, journal' = j,
           UNCHANGED <<config, own, exposed, injected>>
    PROVE  Passes(a)
<1>1. /\ Acts(a, actor'[a]) /\ actor'[a].pc = pc
      /\ Carries(actor'[a], actor[a])
  BY GoActs, BecomeActs DEF Carries, At, Loaded, Copying
<1>2. WellFormed(journal') /\ (journal' = NoJournal \/ SameSnapshot(journal', journal))
  BY Constants DEF TypeOK, SameSnapshot
<1> QED
  BY <1>1, <1>2 DEF Passes

LEMMA ProceedPasses ==
    ASSUME TypeOK, NEW a \in Actors, ~At(a, "rest"), Proceed(a),
           UNCHANGED <<config, own, exposed, injected>>
    PROVE  Passes(a)
<1>1. (Become(a, "read") /\ UNCHANGED journal) \/ Finish(a, journal)
  BY DEF Proceed
<1> QED
  BY <1>1, GoPasses, EndPasses DEF Pcs, Loaded

(* Every step of a process passes, or touches.                             *)
LEMMA StepKinds ==
    ASSUME TypeOK, [Next]_vars
    PROVE  \/ Idles
           \/ \E a \in Actors : Passes(a) \/ Touches(a)
           \/ \E e \in Edits : Edit(e)
           \/ Meddle
<1>1. ASSUME NEW a \in Actors, Read(a), External(config) PROVE Passes(a)
  <2>1. Become(a, "forget") /\ ~At(a, "rest") /\ journal' = journal
        /\ UNCHANGED <<config, own, exposed, injected>>
    BY <1>1 DEF Read, At, history
  <2> QED
    BY <2>1, GoPasses DEF Pcs, Loaded
<1>2. ASSUME NEW a \in Actors, Forget(a) PROVE Passes(a)
  BY <1>2, EndPasses DEF Forget, history
<1>3. ASSUME NEW a \in Actors, WriteProfile(a) PROVE Passes(a)
  <2>1. Go(a, "mark") /\ ~At(a, "rest") /\ journal' = journal
        /\ UNCHANGED <<config, own, exposed, injected>>
    BY <1>3 DEF WriteProfile, At, history
  <2> QED
    BY <2>1, GoPasses DEF Pcs, Loaded
<1>4. ASSUME NEW a \in Actors, MarkJournal(a), ~Take(a) PROVE Passes(a)
  BY <1>4, EndPasses DEF MarkJournal, Take, history
<1>5. ASSUME NEW a \in Actors, Reload(a), ~Found(a) PROVE Passes(a)
  <2>1. /\ actor' = [actor EXCEPT ![a].pc = "drop", ![a].taken = journal]
        /\ UNCHANGED <<config, own, exposed, injected, journal>>
        /\ ~At(a, "rest") /\ journal = NoJournal
    BY <1>5 DEF Reload, Found, At, history, TypeOK, WellFormed
  <2>2. /\ Acts(a, actor'[a]) /\ actor'[a].pc = "drop" /\ actor'[a].raw = actor[a].raw
        /\ actor'[a].taken = journal
    BY <2>1, TakeActs DEF Pcs, Copying
  <2>3. WellFormed(journal') /\ SameSnapshot(journal', journal)
    BY <2>1 DEF TypeOK, SameSnapshot
  <2> QED
    BY <2>1, <2>2, <2>3 DEF Passes, Carries, Loaded, At
<1>6. ASSUME NEW a \in Actors, ProfileBack(a) PROVE Passes(a)
  <2>1. Go(a, "drop") /\ ~At(a, "rest") /\ journal' = journal
        /\ UNCHANGED <<config, own, exposed, injected>>
    BY <1>6 DEF ProfileBack, At, history
  <2> QED
    BY <2>1, GoPasses DEF Pcs, Loaded
<1>7. ASSUME NEW a \in Actors, DropJournal(a) PROVE Passes(a)
  <2> DEFINE j == IF Complete(a) THEN NoJournal ELSE journal
  <2>1. j \in {NoJournal, journal} /\ ~At(a, "rest") /\ UNCHANGED <<config, own, exposed, injected>>
    BY <1>7 DEF DropJournal, At, history
  <2>2. \/ Become(a, "read") /\ journal' = j
        \/ /\ actor' = [actor EXCEPT ![a] = [Resting EXCEPT !.pc = "strip", !.taken = actor[a].taken]]
           /\ journal' = j
        \/ Finish(a, j)
    BY <1>7 DEF DropJournal
  <2> HIDE DEF j
  <2>3. CASE Become(a, "read") /\ journal' = j
    BY <2>1, <2>3, GoPasses DEF Pcs, Loaded
  <2>4. CASE /\ actor' = [actor EXCEPT ![a] = [Resting EXCEPT !.pc = "strip", !.taken = actor[a].taken]]
             /\ journal' = j
    <3>1. /\ Acts(a, actor'[a]) /\ actor'[a].pc = "strip" /\ actor'[a].raw = NoJournal.config
          /\ actor'[a].taken = actor[a].taken
      BY <2>4, ToStripActs
    <3>2. WellFormed(journal') /\ (journal' = NoJournal \/ SameSnapshot(journal', journal))
      BY <2>1, <2>4, Constants DEF TypeOK, SameSnapshot
    <3> QED
      BY <2>1, <3>1, <3>2 DEF Passes, Carries, Loaded, At
  <2>5. CASE Finish(a, j)
    BY <2>1, <2>5, EndPasses
  <2> QED
    BY <2>2, <2>3, <2>4, <2>5
<1>8. ASSUME NEW a \in Actors, UnlinkProfile(a) PROVE Passes(a)
  BY <1>8, EndPasses DEF UnlinkProfile, history
<1>9. ASSUME NEW a \in Actors, Restore(a) PROVE Passes(a)
  <2>1. /\ \/ \E pc \in {"reload", "forget"} : Go(a, pc) /\ journal' = journal
           \/ Finish(a, journal)
        /\ ~At(a, "rest") /\ UNCHANGED <<config, own, exposed, injected>>
    BY <1>9 DEF Restore, At, history
  <2> QED
    BY <2>1, GoPasses, EndPasses DEF Pcs, Loaded
<1>10. ASSUME NEW a \in Actors, Reconcile(a) \/ Check(a) PROVE Passes(a)
  <2>1. /\ \/ \E pc \in {"reload", "check"} : Go(a, pc) /\ journal' = journal
           \/ Proceed(a)
        /\ ~At(a, "rest") /\ UNCHANGED <<config, own, exposed, injected>>
    BY <1>10 DEF Reconcile, Check, At, history
  <2> QED
    BY <2>1, GoPasses, ProceedPasses DEF Pcs, Loaded
<1>11. ASSUME NEW a \in Actors, Crash(a) PROVE Passes(a)
  BY <1>11, EndPasses DEF Crash, history
<1>12. ASSUME Exit PROVE \E a \in Actors : Passes(a)
  BY <1>12, EndPasses DEF Exit, history, Actors
<1>13. ASSUME Begins PROVE \E a \in Actors : Passes(a)
  <2>1. PICK a \in Actors, pc \in {"read", "restore", "reconcile"}, then \in Sequels : Begin(a, pc, then)
    BY <1>13, BeginsWhere
  <2>2. /\ Acts(a, actor'[a]) /\ actor'[a].pc = pc /\ actor'[a].raw = NoJournal.config
        /\ actor'[a].taken = NoJournal
    BY <2>1, BeginActs DEF Pcs, Copying
  <2>3. UNCHANGED <<config, own, exposed, injected, journal>>
    BY <2>1 DEF Begin
  <2>4. WellFormed(journal') /\ SameSnapshot(journal', journal)
    BY <2>3 DEF TypeOK, SameSnapshot
  <2>5. Passes(a)
    BY <2>2, <2>3, <2>4 DEF Passes, Carries, Loaded
  <2> QED
    BY <2>5
<1>14. ASSUME EditProfile \/ UNCHANGED vars PROVE Idles
  BY <1>14 DEF EditProfile, vars, history, Idles
<1>15. ASSUME NEW a \in Actors, Inject(a) \/ TakeBack(a) PROVE Passes(a) \/ Touches(a)
  BY <1>1, <1>2, <1>3, <1>4, <1>5, <1>6, <1>7, <1>8, <1>9, <1>10, <1>15
     DEF Inject, TakeBack, Touches, Load
<1> QED
  BY <1>11, <1>12, <1>13, <1>14, <1>15 DEF Next, Begins

(* What the touching steps do to the files and to their process.           *)
LEMMA Touching ==
    ASSUME TypeOK, NEW a \in Actors, Touches(a)
    PROVE  /\ UNCHANGED <<own, exposed>> /\ ~At(a, "rest")
           /\ Acts(a, actor'[a]) /\ WellFormed(journal')
           /\ Load(a) \/ Take(a) \/ Found(a) \/ Compare(a) \/ Strip(a) =>
                UNCHANGED <<config, journal, injected>>
           /\ WriteJournal(a) \/ Remark(a) => UNCHANGED <<config, injected>>
           /\ WriteConfig(a) \/ ConfigBack(a) \/ StripWrite(a) => UNCHANGED journal
<1>1. /\ UNCHANGED <<own, exposed>> /\ ~At(a, "rest")
      /\ Load(a) \/ Take(a) \/ Found(a) \/ Compare(a) \/ Strip(a) =>
           UNCHANGED <<config, journal, injected>>
      /\ WriteJournal(a) \/ Remark(a) => UNCHANGED <<config, injected>>
      /\ WriteConfig(a) \/ ConfigBack(a) \/ StripWrite(a) => UNCHANGED journal
  BY DEF Touches, Load, Read, Take, MarkJournal, Found, Reload, Compare, Strip, WriteJournal,
         Remark, WriteConfig, ConfigBack, StripWrite, At, history
<1>2. WellFormed(journal)
  BY DEF TypeOK
<1>3. CASE Load(a)
  BY <1>1, <1>2, <1>3, LoadActs DEF Load
<1>4. CASE WriteJournal(a)
  BY <1>1, <1>4, JournalActs
<1>5. CASE WriteConfig(a)
  BY <1>1, <1>2, <1>5, GoActs DEF WriteConfig, Pcs, Copying
<1>6. CASE Take(a)
  BY <1>1, <1>2, <1>6, TakeActs DEF Take, MarkJournal, Pcs, Copying
<1>7. CASE Remark(a)
  <2> DEFINE c == Injected(actor[a].raw)
             j == [actor[a].taken EXCEPT !.marked = TRUE, !.injected = c]
  <2>1. c \in Configs /\ WellFormed(actor[a].taken) /\ actor[a].taken.here
    BY <1>7, ConfigShapes DEF TypeOK, ActorRecord, Ready, Remark, At
  <2> QED
    BY <1>1, <1>7, <2>1, RemarkActs DEF Acts
<1>8. CASE Found(a)
  BY <1>1, <1>2, <1>8, TakeActs DEF Found, Reload, Pcs, Copying
<1>9. CASE Compare(a)
  BY <1>1, <1>2, <1>9, CompareActs
<1>10. CASE ConfigBack(a)
  BY <1>1, <1>2, <1>10, GoActs DEF ConfigBack, Pcs, Copying
<1>11. CASE Strip(a)
  BY <1>1, <1>2, <1>11, RawActs DEF Strip, Pcs, TypeOK, Copying
<1>12. CASE StripWrite(a)
  BY <1>1, <1>2, <1>12, RawActs, Constants DEF StripWrite, Pcs, Copying
<1> QED
  BY <1>1, <1>3, <1>4, <1>5, <1>6, <1>7, <1>8, <1>9, <1>10, <1>11, <1>12 DEF Touches

-----------------------------------------------------------------------------
(* A process's own step: what it may do besides.                           *)
LEMMA OwnSteps ==
    ASSUME TypeOK, NEW a \in Actors, Inject(a) \/ TakeBack(a)
    PROVE  /\ UNCHANGED <<up, bounds, own, exposed, calm>>
           /\ config' \in Configs /\ profile' \in Profiles /\ injected' \in BOOLEAN
<1>0. /\ actor[a].raw \in Configs
      /\ actor[a].taken.config \in Configs /\ actor[a].taken.profile \in Profiles
  BY DEF TypeOK, ActorRecord, JournalRecord
<1>1. CASE Inject(a)
  <2>1. UNCHANGED <<up, bounds, own, exposed, calm>>
    BY <1>1 DEF Inject, Read, Forget, WriteJournal, WriteConfig, WriteProfile, MarkJournal, Remark, history
  <2>2. config' \in {config, Injected(actor[a].raw)} /\ profile' \in {profile, "ours"}
        /\ injected' \in {injected, TRUE}
    BY <1>1 DEF Inject, Read, Forget, WriteJournal, WriteConfig, WriteProfile, MarkJournal, Remark, history
  <2> QED
    BY <1>0, <2>1, <2>2, ConfigShapes, Constants DEF TypeOK
<1>2. CASE TakeBack(a)
  <2>1. UNCHANGED <<up, bounds, own, exposed, calm>>
    BY <1>2 DEF TakeBack, Restore, Reconcile, Check, Reload, Compare, ConfigBack, ProfileBack, DropJournal,
                Strip, StripWrite, UnlinkProfile, history
  <2>2. config' \in {config, actor[a].taken.config, Stripped(actor[a].raw)}
        /\ profile' \in {profile, actor[a].taken.profile, None}
    BY <1>2 DEF TakeBack, Restore, Reconcile, Check, Reload, Compare, ConfigBack, ProfileBack, DropJournal,
                Strip, StripWrite, UnlinkProfile, history
  <2>3. injected' \in BOOLEAN
    BY <1>2 DEF TakeBack, Restore, Reconcile, Check, Reload, Compare, ConfigBack, ProfileBack, DropJournal,
                Strip, StripWrite, UnlinkProfile, history, TypeOK
  <2> QED
    BY <1>0, <2>1, <2>2, <2>3, ConfigShapes, Constants DEF TypeOK
<1> QED
  BY <1>1, <1>2

(* Processes and journal keep their shapes.                                *)
LEMMA ActorsStep ==
    ASSUME TypeOK, [Next]_vars
    PROVE  ActorsOK' /\ WellFormed(journal')
<1>1. CASE UNCHANGED <<actor, journal>>
  BY <1>1 DEF TypeOK, ActorsOK
<1>2. ASSUME NEW a \in Actors, Passes(a) \/ Touches(a) PROVE ActorsOK' /\ WellFormed(journal')
  BY <1>2, Touching DEF Passes, Acts
<1>3. ASSUME NEW e \in Edits, Edit(e) PROVE UNCHANGED <<actor, journal>>
  BY <1>3 DEF Edit
<1>4. ASSUME Meddle PROVE UNCHANGED <<actor, journal>>
  BY <1>4 DEF Meddle
<1> QED
  BY <1>1, <1>2, <1>3, <1>4, StepKinds DEF Idles

(* A wish gives configurations.                                            *)
LEMMA WishShapes ==
    ASSUME TypeOK, NEW c \in Configs, Wish(c)
    PROVE  config' \in Configs /\ own' \in Configs /\ calm' \in BOOLEAN
<1>1. [own EXCEPT !.edits = @ \cup c.edits] \in Configs
  BY DEF TypeOK, Configs
<1>2. own' \in Configs /\ config' \in Configs
  BY <1>1 DEF Wish
<1>3. calm' \in BOOLEAN
  BY DEF Wish, Quiet, Unsafe
<1> QED
  BY <1>2, <1>3

(* Every step keeps the shapes.                                            *)
LEMMA TypeStep == TypeOK /\ [Next]_vars => TypeOK'
<1> SUFFICES ASSUME TypeOK, [Next]_vars PROVE TypeOK'
  OBVIOUS
<1>0. /\ WellFormed(journal') /\ actor' \in [Actors -> ActorRecord]
      /\ \A b \in Actors : Ready(actor'[b])
  BY ActorsStep DEF ActorsOK
<1>1. ASSUME NEW a \in Actors, Inject(a) \/ TakeBack(a) PROVE TypeOK'
  BY <1>0, <1>1, OwnSteps DEF TypeOK, bounds
<1>2. ASSUME NEW a \in Actors, Crash(a) PROVE TypeOK'
  <2>1. crashes' \in 0 .. MaxCrashes /\ up' \in BOOLEAN
    BY <1>2, InjectionConstants DEF Crash, TypeOK
  <2> QED
    BY <1>0, <1>2, <2>1 DEF Crash, TypeOK, history
<1>3. ASSUME Exit PROVE TypeOK'
  BY <1>0, <1>3 DEF Exit, TypeOK, bounds, history
<1>4. ASSUME Begins PROVE TypeOK'
  <2>1. PICK a \in Actors, pc \in {"read", "restore", "reconcile"}, then \in Sequels : Begin(a, pc, then)
    BY <1>4, BeginsWhere
  <2>2. commands' \in 0 .. MaxCommands /\ calm' \in BOOLEAN
    BY <2>1, InjectionConstants DEF Begin, TypeOK, Quiet
  <2>3. up' \in BOOLEAN
    BY <1>4, BeginsWhere DEF TypeOK
  <2> QED
    BY <1>0, <2>1, <2>2, <2>3 DEF Begin, TypeOK
<1>5. ASSUME NEW e \in Edits, Edit(e) PROVE TypeOK'
  <2>1. [config EXCEPT !.edits = @ \cup {e}] \in Configs
    BY DEF TypeOK, Configs
  <2>2. config' \in Configs /\ own' \in Configs /\ calm' \in BOOLEAN
    BY <1>5, <2>1, WishShapes DEF Edit
  <2> QED
    BY <1>0, <1>5, <2>2 DEF Edit, TypeOK, bounds
<1>6. ASSUME Meddle PROVE TypeOK'
  <2>1. PICK c \in Configs : Wish(c)
    BY <1>6 DEF Meddle, TypeOK, Configs, None
  <2>2. config' \in Configs /\ own' \in Configs /\ calm' \in BOOLEAN
    BY <2>1, WishShapes
  <2>3. meddling' \in 0 .. MaxMeddling
    BY <1>6, InjectionConstants DEF Meddle, TypeOK
  <2> QED
    BY <1>0, <1>6, <2>2, <2>3 DEF Meddle, TypeOK
<1>7. ASSUME EditProfile PROVE TypeOK'
  <2>1. meddling' \in 0 .. MaxMeddling
    BY <1>7, InjectionConstants DEF EditProfile, TypeOK
  <2> QED
    BY <1>0, <1>7, <2>1, Constants DEF EditProfile, TypeOK, history
<1>8. ASSUME UNCHANGED vars PROVE TypeOK'
  BY <1>0, <1>8 DEF vars, bounds, history, TypeOK
<1> QED
  BY <1>1, <1>2, <1>3, <1>4, <1>5, <1>6, <1>7, <1>8 DEF Next, Begins

(* Every step keeps what is native native.                                 *)
LEMMA NativeStep == TypeOK /\ NativeInv /\ [Next]_vars => NativeInv'
<1> SUFFICES ASSUME TypeOK, NativeInv, [Next]_vars, ~Open PROVE NativeInv'
  BY DEF NativeInv
<1> DEFINE Fine(r) == r.raw.provider # "opencodex" /\ Native(r.taken.config)
<1>0. /\ \A b \in Actors : Fine(actor[b]) /\ actor[b].raw \in Configs
      /\ config \in Configs /\ Native(journal.config)
      /\ config.provider # "opencodex" /\ (~injected => config.url # "ours")
      /\ Native(NoJournal.config) /\ NoJournal.config = Resting.raw
      /\ injected \in BOOLEAN /\ Fine(Resting)
  BY Constants DEF NativeInv, TypeOK, ActorRecord, Native
<1>1. ASSUME NEW a \in Actors, Others(a), Fine(actor'[a])
      PROVE  \A b \in Actors : Fine(actor'[b])
  BY <1>0, <1>1 DEF Others, SameWork, SameSnapshot
<1>2. ASSUME NEW a \in Actors, Others(a), Fine(actor'[a]), Native(journal'.config),
             config'.provider # "opencodex", ~injected' => config'.url # "ours"
      PROVE  NativeInv'
  BY <1>1, <1>2 DEF NativeInv
<1> HIDE DEF Fine
<1>3. CASE Idles
  BY <1>0, <1>3 DEF Idles, NativeInv, Fine
<1>4. ASSUME NEW a \in Actors, Passes(a) PROVE NativeInv'
  <2>1. Fine(actor'[a])
    BY <1>0, <1>4 DEF Passes, Carries, Fine, Native
  <2>2. Native(journal'.config)
    BY <1>0, <1>4 DEF Passes, SameSnapshot
  <2> QED
    BY <1>0, <1>2, <1>4, <2>1, <2>2 DEF Passes, Acts
<1>5. ASSUME NEW a \in Actors, Touches(a) PROVE NativeInv'
  <2>0. /\ Others(a) /\ Fine(actor[a]) /\ actor[a].raw \in Configs
        /\ Load(a) \/ Take(a) \/ Found(a) \/ Compare(a) \/ Strip(a) =>
             UNCHANGED <<config, journal, injected>>
        /\ WriteJournal(a) \/ Remark(a) => UNCHANGED <<config, injected>>
        /\ WriteConfig(a) \/ ConfigBack(a) \/ StripWrite(a) => UNCHANGED journal
    BY <1>0, <1>5, Touching DEF Acts
  <2>1. CASE Load(a)
    <3>1. actor'[a].raw = config /\ actor'[a].taken = actor[a].taken
      BY <2>1, LoadActs DEF Load
    <3> QED
      BY <1>0, <1>2, <2>0, <2>1, <3>1 DEF Fine
  <2>2. CASE WriteJournal(a)
    <3>1. Fine(actor'[a])
      BY <2>0, <2>2, JournalActs DEF Fine
    <3>2. Native(journal'.config)
      <4>1. CASE HasInjectedRouting(actor[a].raw)
        BY <1>0, <2>2, <4>1, JournalActs
      <4>2. CASE ~HasInjectedRouting(actor[a].raw)
        BY <2>0, <2>2, <4>2, JournalActs DEF Native, HasInjectedRouting, Fine
      <4> QED
        BY <4>1, <4>2
    <3> QED
      BY <1>0, <1>2, <2>0, <2>2, <3>1, <3>2
  <2>3. CASE WriteConfig(a)
    <3>1. Go(a, "profile") /\ config' = Injected(actor[a].raw) /\ injected' = TRUE
      BY <2>3 DEF WriteConfig
    <3>2. Fine(actor'[a])
      BY <2>0, <3>1, GoActs DEF Fine, Pcs, Copying
    <3>3. config'.provider # "opencodex"
      BY <2>0, <3>1 DEF Injected, Configs, None
    <3> QED
      BY <1>0, <1>2, <2>0, <2>3, <3>1, <3>2, <3>3
  <2>4. CASE Take(a)
    <3>1. actor'[a].raw = actor[a].raw /\ actor'[a].taken = journal
      BY <2>4, TakeActs DEF Take, MarkJournal, Pcs
    <3> QED
      BY <1>0, <1>2, <2>0, <2>4, <3>1 DEF Fine
  <2>5. CASE Remark(a)
    <3>1. actor[a].taken.here
      BY <2>5 DEF Remark, At, TypeOK, Ready
    <3>2. actor'[a] = Resting /\ journal'.config = actor[a].taken.config
      BY <2>5, <3>1, RemarkActs DEF Acts, SameSnapshot
    <3> QED
      BY <1>0, <1>2, <2>0, <2>5, <3>2 DEF Fine
  <2>6. CASE Found(a)
    <3>1. actor'[a].raw = actor[a].raw /\ actor'[a].taken = journal
      BY <2>6, TakeActs DEF Found, Reload, Pcs
    <3> QED
      BY <1>0, <1>2, <2>0, <2>6, <3>1 DEF Fine
  <2>7. CASE Compare(a)
    BY <1>0, <1>2, <2>0, <2>7, CompareActs DEF Fine
  <2>8. CASE ConfigBack(a)
    <3>1. Go(a, "profileBack") /\ injected' = (injected /\ ~actor[a].configOk)
          /\ config' = IF actor[a].configOk THEN actor[a].taken.config ELSE config
      BY <2>8 DEF ConfigBack
    <3>2. Fine(actor'[a])
      BY <2>0, <3>1, GoActs DEF Fine, Pcs, Copying
    <3>3. config'.provider # "opencodex" /\ (~injected' => config'.url # "ours")
      BY <1>0, <2>0, <3>1 DEF Fine, Native
    <3> QED
      BY <1>0, <1>2, <2>0, <2>8, <3>2, <3>3
  <2>9. CASE Strip(a)
    <3>1. actor'[a].raw = config /\ actor'[a].taken = actor[a].taken
      BY <2>9, RawActs DEF Strip, Pcs, Copying, TypeOK
    <3> QED
      BY <1>0, <1>2, <2>0, <2>9, <3>1 DEF Fine
  <2>10. CASE StripWrite(a)
    <3>1. actor'[a].raw = NoJournal.config /\ actor'[a].taken = actor[a].taken
      BY <2>10, RawActs, Constants DEF StripWrite, Pcs, Copying
    <3>2. Native(Stripped(actor[a].raw))
      BY <2>0 DEF Stripped, Configs, Native, None, Fine
    <3>3. config'.provider # "opencodex" /\ (~injected' => config'.url # "ours")
      BY <1>0, <2>10, <3>2 DEF StripWrite, Native
    <3> QED
      BY <1>0, <1>2, <2>0, <2>10, <3>1, <3>3 DEF Fine, Native
  <2> QED
    BY <1>5, <2>1, <2>2, <2>3, <2>4, <2>5, <2>6, <2>7, <2>8, <2>9, <2>10 DEF Touches
<1>6. ASSUME NEW e \in Edits, Edit(e) PROVE NativeInv'
  BY <1>0, <1>6 DEF Edit, Wish, NativeInv, Configs, Fine
<1>7. CASE Meddle
  BY <1>0, <1>7 DEF Meddle, Wish, NativeInv, Configs, None, Fine
<1> QED
  BY <1>3, <1>4, <1>5, <1>6, <1>7, StepKinds

-----------------------------------------------------------------------------
(* The edits.                                                              *)

(* A step that changes no wish: the files and its own process are to be    *)
(* looked at.                                                              *)
LEMMA EditsStay ==
    ASSUME EditsInv, EditsKnown, NEW a \in Actors, Others(a), UNCHANGED <<own, exposed>>,
           Kept(config'.edits), Known(config'.edits),
           journal'.here => Sound(journal'), Known(journal'.config.edits),
           Keeps(actor'[a]), Knows(actor'[a])
    PROVE  EditsInv' /\ EditsKnown'
<1>1. ASSUME NEW b \in Actors PROVE Keeps(actor'[b]) /\ Knows(actor'[b])
  <2>1. CASE b # a
    BY <2>1 DEF EditsInv, EditsKnown, Others, SameWork, SameSnapshot, Keeps, Knows, Sound, Kept
  <2> QED
    BY <2>1
<1>2. /\ Kept(config.edits)' /\ Known(config.edits)'
      /\ Known(journal.config.edits)' /\ (journal'.here => Sound(journal)')
  BY DEF Kept, Known, Sound
<1>3. ASSUME NEW b \in Actors PROVE Keeps(actor[b])' /\ Knows(actor[b])'
  BY <1>1 DEF Keeps, Knows, Sound, Kept, Known
<1> QED
  BY <1>2, <1>3 DEF EditsInv, EditsKnown

(* A process that passes, or touches, keeps the edits.                     *)
LEMMA EditsPass ==
    ASSUME TypeOK, EditsInv, EditsKnown, NEW a \in Actors, Passes(a)
    PROVE  EditsInv' /\ EditsKnown'
<1>1. Keeps(actor'[a])
  BY DEF Passes, Keeps, Loaded
<1>2. Knows(actor'[a])
  BY Constants DEF Passes, Carries, Knows, EditsKnown, Known
<1>3. (journal'.here => Sound(journal')) /\ Known(journal'.config.edits)
  BY Constants DEF Passes, SameSnapshot, EditsInv, EditsKnown, Sound, Known, Kept
<1> QED
  BY <1>1, <1>2, <1>3, EditsStay DEF Passes, Acts, EditsInv, EditsKnown

LEMMA EditsTouch ==
    ASSUME TypeOK, EditsInv, EditsKnown, NEW a \in Actors, Touches(a)
    PROVE  EditsInv' /\ EditsKnown'
<1>0. /\ UNCHANGED <<own, exposed>> /\ ~At(a, "rest") /\ Others(a)
      /\ Load(a) \/ Take(a) \/ Found(a) \/ Compare(a) \/ Strip(a) =>
           UNCHANGED <<config, journal, injected>>
      /\ WriteJournal(a) \/ Remark(a) => UNCHANGED <<config, injected>>
      /\ WriteConfig(a) \/ ConfigBack(a) \/ StripWrite(a) => UNCHANGED journal
  BY Touching DEF Acts
<1>1. /\ Kept(config.edits) /\ Known(config.edits)
      /\ (journal.here => Sound(journal)) /\ Known(journal.config.edits)
      /\ Keeps(actor[a]) /\ Known(actor[a].raw.edits) /\ Known(actor[a].taken.config.edits)
      /\ actor[a].raw \in Configs /\ config \in Configs
  BY <1>0 DEF EditsInv, EditsKnown, Knows, At, TypeOK, ActorRecord
<1>2. CASE Load(a)
  <2>1. /\ actor'[a].pc = "journal" /\ actor'[a].raw = config
        /\ actor'[a].taken = actor[a].taken
    BY <1>2, LoadActs DEF Load
  <2>2. Keeps(actor'[a]) /\ Knows(actor'[a])
    BY <1>1, <2>1 DEF Keeps, Knows
  <2> QED
    BY <1>0, <1>1, <1>2, <2>2, EditsStay
<1>3. CASE WriteJournal(a)
  <2>1. /\ actor'[a].pc = "config" /\ actor'[a].raw = actor[a].raw
        /\ actor'[a].taken = actor[a].taken
        /\ \/ journal' = journal
           \/ journal'.here /\ ~journal'.marked /\ journal'.config = actor[a].raw
    BY <1>3, JournalActs
  <2>2. Kept(actor[a].raw.edits)
    BY <1>1, <1>3 DEF WriteJournal, At, Keeps
  <2>3. Keeps(actor'[a]) /\ Knows(actor'[a])
    BY <1>1, <2>1, <2>2 DEF Keeps, Knows
  <2>4. (journal'.here => Sound(journal')) /\ Known(journal'.config.edits)
    BY <1>1, <2>1, <2>2 DEF Sound
  <2> QED
    BY <1>0, <1>1, <1>3, <2>3, <2>4, EditsStay
<1>4. CASE WriteConfig(a)
  <2>1. /\ actor'[a].pc = "profile" /\ actor'[a].raw = actor[a].raw
        /\ actor'[a].taken = actor[a].taken
    BY <1>4, GoActs DEF WriteConfig, Pcs, Copying
  <2>2. config'.edits = actor[a].raw.edits
    BY <1>1, <1>4 DEF WriteConfig, Injected, Configs
  <2>3. Kept(config'.edits) /\ Known(config'.edits)
    BY <1>1, <1>4, <2>2 DEF WriteConfig, At, Keeps
  <2>4. Keeps(actor'[a]) /\ Knows(actor'[a])
    BY <1>1, <2>1 DEF Keeps, Knows
  <2> QED
    BY <1>0, <1>1, <1>4, <2>3, <2>4, EditsStay
<1>5. CASE Take(a)
  <2>1. /\ actor'[a].pc = "remark" /\ actor'[a].raw = actor[a].raw
        /\ actor'[a].taken = journal
    BY <1>5, TakeActs DEF Take, MarkJournal, Pcs
  <2>2. actor[a].raw.edits \ exposed \subseteq journal.config.edits
    BY <1>1, <1>5 DEF Take, Sound, Kept, Known
  <2>3. Keeps(actor'[a]) /\ Knows(actor'[a])
    BY <1>1, <2>1, <2>2 DEF Keeps, Knows
  <2> QED
    BY <1>0, <1>1, <1>5, <2>3, EditsStay
<1>6. CASE Remark(a)
  <2>1. actor[a].taken.here
    BY <1>6 DEF Remark, At, TypeOK, Ready
  <2>2. /\ actor'[a] = Resting /\ journal'.marked
        /\ journal'.config = actor[a].taken.config
        /\ journal'.injected = Injected(actor[a].raw)
    BY <1>6, <2>1, RemarkActs DEF Acts, SameSnapshot
  <2>3. journal'.injected.edits = actor[a].raw.edits
    BY <1>1, <2>2 DEF Injected, Configs
  <2>4. Sound(journal') /\ Known(journal'.config.edits)
    BY <1>1, <1>6, <2>2, <2>3 DEF Remark, At, Keeps, Sound
  <2>5. Keeps(actor'[a]) /\ Knows(actor'[a])
    BY <2>2, Constants DEF Keeps, Knows
  <2> QED
    BY <1>0, <1>1, <1>6, <2>4, <2>5, EditsStay
<1>7. CASE Found(a)
  <2>1. actor'[a].pc = "compare" /\ actor'[a].raw = actor[a].raw /\ actor'[a].taken = journal
    BY <1>7, TakeActs DEF Found, Reload, Pcs
  <2>2. Keeps(actor'[a]) /\ Knows(actor'[a])
    BY <1>1, <1>7, <2>1 DEF Keeps, Knows, Found
  <2> QED
    BY <1>0, <1>1, <1>7, <2>2, EditsStay
<1>8. CASE Compare(a)
  <2>1. /\ actor'[a].pc = "configBack" /\ actor'[a].raw = actor[a].raw
        /\ actor'[a].taken = actor[a].taken
        /\ actor'[a].configOk <=> ConfigUnchanged(actor[a].taken)
    BY <1>8, CompareActs
  <2>2. Sound(actor[a].taken)
    BY <1>1, <1>8 DEF Compare, At, Keeps
  <2>3. ConfigUnchanged(actor[a].taken) => Kept(actor[a].taken.config.edits)
    BY <1>1, <2>2 DEF ConfigUnchanged, Sound, Kept
  <2>4. Keeps(actor'[a]) /\ Knows(actor'[a])
    BY <1>1, <2>1, <2>3 DEF Keeps, Knows
  <2> QED
    BY <1>0, <1>1, <1>8, <2>4, EditsStay
<1>9. CASE ConfigBack(a)
  <2>1. /\ actor'[a].pc = "profileBack" /\ actor'[a].raw = actor[a].raw
        /\ actor'[a].taken = actor[a].taken
    BY <1>9, GoActs DEF ConfigBack, Pcs, Copying
  <2>2. Kept(config'.edits) /\ Known(config'.edits)
    BY <1>1, <1>9 DEF ConfigBack, At, Keeps
  <2>3. Keeps(actor'[a]) /\ Knows(actor'[a])
    BY <1>1, <2>1 DEF Keeps, Knows
  <2> QED
    BY <1>0, <1>1, <1>9, <2>2, <2>3, EditsStay
<1>10. CASE Strip(a)
  <2>1. /\ actor'[a].pc = "stripWrite" /\ actor'[a].raw = config
        /\ actor'[a].taken = actor[a].taken
    BY <1>1, <1>10, RawActs DEF Strip, Pcs, Copying
  <2>2. Keeps(actor'[a]) /\ Knows(actor'[a])
    BY <1>1, <2>1 DEF Keeps, Knows
  <2> QED
    BY <1>0, <1>1, <1>10, <2>2, EditsStay
<1>11. CASE StripWrite(a)
  <2>1. /\ actor'[a].pc = "unlink" /\ actor'[a].raw = NoJournal.config
        /\ actor'[a].taken = actor[a].taken
    BY <1>11, RawActs, Constants DEF StripWrite, Pcs, Copying
  <2>2. config'.edits \in {config.edits, actor[a].raw.edits}
    BY <1>1, <1>11 DEF StripWrite, Stripped, Configs
  <2>3. Kept(config'.edits) /\ Known(config'.edits)
    BY <1>1, <1>11, <2>2 DEF StripWrite, At, Keeps
  <2>4. Keeps(actor'[a]) /\ Knows(actor'[a])
    BY <1>1, <2>1, Constants DEF Keeps, Knows, Known
  <2> QED
    BY <1>0, <1>1, <1>11, <2>3, <2>4, EditsStay
<1> QED
  BY <1>2, <1>3, <1>4, <1>5, <1>6, <1>7, <1>8, <1>9, <1>10, <1>11 DEF Touches

(* A wish: what is there is wished for, and what is not safe is exposed.   *)
LEMMA EditsWish ==
    ASSUME TypeOK, EditsInv, EditsKnown, NEW c \in Configs, Wish(c), UNCHANGED <<journal, actor>>,
           NEW e, c.edits = config.edits \cup e, exposed \subseteq exposed',
           Unsafe => e \subseteq exposed'
    PROVE  EditsInv' /\ EditsKnown'
<1>1. /\ Kept(config.edits) /\ Known(config.edits)
      /\ (journal.here => Sound(journal)) /\ Known(journal.config.edits)
      /\ config' = c /\ journal' = journal /\ actor' = actor
      /\ own \in Configs
  BY DEF EditsInv, EditsKnown, Wish, TypeOK
<1>2. CASE Quiet /\ ~injected /\ ~Unsafe
  <2>1. own' = c
    BY <1>2 DEF Wish
  <2>2. \A b \in Actors : actor'[b].pc = "rest"
    BY <1>1, <1>2 DEF Quiet, At
  <2>3. journal'.here => journal'.marked
    BY <1>1, <1>2 DEF Unsafe
  <2> QED
    BY <1>1, <2>1, <2>2, <2>3 DEF EditsInv, EditsKnown, Keeps, Knows, Sound, Kept, Known
<1>3. CASE ~(Quiet /\ ~injected /\ ~Unsafe)
  <2>1. own'.edits = own.edits \cup c.edits
    BY <1>1, <1>3 DEF Wish, Configs
  <2>2. Kept(config.edits)' /\ Known(config.edits)' /\ Known(journal.config.edits)'
    BY <1>1, <2>1 DEF Kept, Known
  <2>3. journal'.here => Sound(journal)'
    BY <1>1, <2>1 DEF Unsafe, Sound, Kept, Known
  <2>4. ASSUME NEW b \in Actors PROVE Keeps(actor[b])' /\ Knows(actor[b])'
    <3>1. Keeps(actor[b]) /\ Knows(actor[b]) /\ actor'[b] = actor[b]
      BY <1>1 DEF EditsInv, EditsKnown
    <3>2. Knows(actor[b])'
      BY <2>1, <3>1 DEF Knows, Known
    <3>3. ASSUME NEW s, Kept(s), Unsafe PROVE own'.edits \ exposed' \subseteq s
      BY <1>1, <2>1, <3>3 DEF Kept, Known
    <3>4. /\ actor[b].pc \in {"journal", "config", "stripWrite"} => Unsafe
          /\ actor[b].pc = "compare" /\ ~actor[b].taken.marked => Unsafe
          /\ actor[b].pc = "configBack" /\ actor[b].configOk => Unsafe
      BY DEF Unsafe
    <3>5. Keeps(actor[b])'
      BY <3>1, <3>3, <3>4 DEF Keeps, Sound, Kept
    <3> QED
      BY <3>2, <3>5
  <2> QED
    BY <2>2, <2>3, <2>4 DEF EditsInv, EditsKnown
<1> QED
  BY <1>2, <1>3

(* Every step keeps the edits.                                             *)
LEMMA EditsStep ==
    TypeOK /\ EditsInv /\ EditsKnown /\ [Next]_vars => EditsInv' /\ EditsKnown'
<1> SUFFICES ASSUME TypeOK, EditsInv, EditsKnown, [Next]_vars PROVE EditsInv' /\ EditsKnown'
  OBVIOUS
<1>1. CASE Idles
  BY <1>1 DEF Idles, EditsInv, EditsKnown, Kept, Known, Sound, Keeps, Knows
<1>2. ASSUME NEW a \in Actors, Passes(a) \/ Touches(a) PROVE EditsInv' /\ EditsKnown'
  BY <1>2, EditsPass, EditsTouch
<1>3. ASSUME NEW e \in Edits, Edit(e) PROVE EditsInv' /\ EditsKnown'
  <2> DEFINE c == [config EXCEPT !.edits = @ \cup {e}]
  <2>1. c \in Configs /\ c.edits = config.edits \cup {e}
    BY DEF TypeOK, Configs
  <2>2. Wish(c) /\ UNCHANGED <<journal, actor>> /\ exposed \subseteq exposed'
        /\ (Unsafe => {e} \subseteq exposed')
    BY <1>3 DEF Edit
  <2> HIDE DEF c
  <2> QED
    BY <2>1, <2>2, EditsWish
<1>4. CASE Meddle
  <2>1. PICK c \in Configs : Wish(c) /\ c.edits = config.edits
    BY <1>4 DEF Meddle, TypeOK, Configs, None
  <2> DEFINE new == {}
  <2>2. /\ c.edits = config.edits \cup new /\ UNCHANGED <<journal, actor>>
        /\ exposed \subseteq exposed' /\ (Unsafe => new \subseteq exposed')
    BY <1>4, <2>1 DEF Meddle
  <2> HIDE DEF new
  <2> QED
    BY <2>1, <2>2, EditsWish
<1> QED
  BY <1>1, <1>2, <1>3, <1>4, StepKinds

-----------------------------------------------------------------------------
(* Taking the injection back is exact.                                     *)

(* What the transforms do to a configuration without the proxy's routing   *)
(* and without an address of the user's, in the loopback form.             *)
LEMMA TransformsOfOwn ==
    ASSUME ~Open, NEW c \in Configs, c.provider # "opencodex", c.url = None
    PROVE  /\ Injected(c).url = "ours" /\ Injected(c) # c
           /\ Injected(Injected(c)) = Injected(c) /\ Stripped(c) = c
           /\ ~HasInjectedRouting(c) /\ HasInjectedRouting(Injected(c))
           /\ ~External(Injected(c)) /\ Injected(c) \in Configs
  BY DEF Injected, Stripped, HasInjectedRouting, External, Configs, None

(* So it stays.                                                            *)
LEMMA MarksStep == TypeOK /\ NativeInv /\ ~Open /\ MarksDiffer /\ [Next]_vars => MarksDiffer'
<1> SUFFICES ASSUME TypeOK, NativeInv, ~Open, MarksDiffer, [Next]_vars PROVE MarksDiffer'
  OBVIOUS
<1>1. CASE Idles
  BY <1>1 DEF Idles, MarksDiffer, Native
<1>2. ASSUME NEW a \in Actors, Passes(a) PROVE MarksDiffer'
  BY <1>2, Constants DEF Passes, SameSnapshot, MarksDiffer, Native
<1>3. ASSUME NEW a \in Actors, Touches(a) PROVE MarksDiffer'
  <2>1. own' = own
    BY <1>3, Touching
  <2>2. CASE WriteJournal(a)
    BY <2>1, <2>2, JournalActs DEF MarksDiffer, Native
  <2>3. CASE Remark(a)
    <3>1. actor[a].taken.here
      BY <2>3 DEF Remark, At, TypeOK, Ready
    <3>2. journal'.injected = Injected(actor[a].raw) /\ actor[a].raw \in Configs
      BY <2>3, <3>1, RemarkActs DEF SameSnapshot, TypeOK, ActorRecord
    <3>3. journal'.injected.url # None
      BY <3>2 DEF Injected, Configs, None
    <3> QED
      BY <2>1, <3>3 DEF MarksDiffer, Native
  <2>4. CASE ~WriteJournal(a) /\ ~Remark(a)
    <3>1. journal' = journal
      BY <1>3, <2>4, Touching DEF Touches
    <3> QED
      BY <2>1, <3>1 DEF MarksDiffer, Native
  <2> QED
    BY <2>2, <2>3, <2>4
<1>4. ASSUME NEW e \in Edits, Edit(e) PROVE MarksDiffer'
  BY <1>4 DEF Edit, Wish, MarksDiffer, Native, NativeInv, TypeOK, Configs
<1>5. CASE Meddle
  BY <1>5 DEF Meddle, Wish, MarksDiffer, Native, NativeInv, TypeOK, Configs, None
<1> QED
  BY <1>1, <1>2, <1>3, <1>4, <1>5, StepKinds

(* The other processes rest.                                               *)
Alone(a) == \A b \in Actors : b # a => At(b, "rest")

(* A step of one process while the others rest: only that process and the  *)
(* files are to be looked at.                                              *)
LEMMA AloneStep ==
    ASSUME NEW a \in Actors, Others(a), Alone(a), FilesAgree', Works(actor[a])'
    PROVE  OneAtATime'
<1>1. \A b \in Actors : b # a => actor'[b].pc = "rest"
  BY DEF Others, SameWork, Alone, At
<1>2. \A b, c \in Actors : actor'[b].pc # "rest" /\ actor'[c].pc # "rest" => b = c
  BY <1>1
<1>3. \A b \in Actors : Works(actor[b])'
  <2> SUFFICES ASSUME NEW b \in Actors PROVE Works(actor[b])'
    OBVIOUS
  <2>1. CASE b = a
    BY <2>1
  <2>2. CASE b # a
    BY <1>1, <2>2 DEF Works
  <2> QED
    BY <2>1, <2>2
<1> QED
  BY <1>2, <1>3 DEF OneAtATime, At

(* The files agree as long as nothing of them changes but the owner of the *)
(* journal.                                                                *)
LEMMA FilesStay ==
    ASSUME UNCHANGED <<config, injected, own>>, SameSnapshot(journal', journal)
    PROVE  (FilesAgree => FilesAgree') /\ (Backed => Backed')
  BY DEF FilesAgree, Backed, SameSnapshot, Injected

(* A process that stops leaves the other as it was.                        *)
LEMMA StopStep ==
    ASSUME OneAtATime, UNCHANGED <<config, injected, own>>, SameSnapshot(journal', journal),
           NEW a \in Actors, Others(a), actor'[a].pc = "rest"
    PROVE  OneAtATime'
<1>1. FilesAgree' /\ (Backed => Backed')
  BY FilesStay DEF OneAtATime
<1>2. ASSUME NEW b \in Actors PROVE Works(actor[b])'
  <2>1. CASE b = a
    BY <2>1 DEF Works
  <2>2. CASE b # a
    <3>1. Works(actor[b]) /\ SameWork(actor'[b], actor[b])
      BY <2>2 DEF OneAtATime, Others
    <3>2. Injected(own') = Injected(own)
      BY DEF Injected
    <3> QED
      BY <1>1, <3>1, <3>2 DEF Works, SameWork, SameSnapshot, External, Injected
  <2> QED
    BY <2>1, <2>2
<1>3. \A b, c \in Actors : actor'[b].pc # "rest" /\ actor'[c].pc # "rest" => b = c
  BY DEF OneAtATime, Others, SameWork, At
<1> QED
  BY <1>1, <1>2, <1>3 DEF OneAtATime, At

(* What holds of a process at work while the others rest, where the user   *)
(* has no address: what it sees is the user's configuration, or its        *)
(* injected form, and the two differ.                                      *)
Calm ==
    /\ TypeOK /\ MarksDiffer /\ own.url = None
    /\ OneAtATime

LEMMA OwnTransforms ==
    ASSUME ~Open, Calm
    PROVE  /\ Injected(own).url = "ours" /\ Injected(own) # own
           /\ Injected(Injected(own)) = Injected(own) /\ Stripped(own) = own
           /\ ~HasInjectedRouting(own) /\ HasInjectedRouting(Injected(own))
           /\ ~External(Injected(own))
  BY TransformsOfOwn DEF Calm, TypeOK, MarksDiffer, Native

LEMMA OthersRest ==
    ASSUME Calm, NEW a \in Actors, ~At(a, "rest")
    PROVE  Alone(a) /\ FilesAgree /\ Works(actor[a])
  BY DEF Calm, OneAtATime, Alone

(* A step that passes, of the only process at work, or of one that begins. *)
LEMMA PassStep ==
    ASSUME Calm, NEW a \in Actors, Alone(a), Passes(a),
           SameSnapshot(journal', journal) \/ ~injected,
           actor'[a].pc \in {"profile", "mark"} => injected /\ Injected(actor'[a].raw) = Injected(own),
           actor'[a].pc \in {"forget", "profileBack", "drop", "strip"} => ~injected
    PROVE  OneAtATime'
<1>1. FilesAgree /\ UNCHANGED <<config, injected, own>> /\ Others(a)
  BY DEF Calm, OneAtATime, Passes, Acts
<1>2. FilesAgree'
  <2>1. CASE SameSnapshot(journal', journal)
    BY <1>1, <2>1, FilesStay
  <2>2. CASE journal' = NoJournal /\ ~injected
    BY <1>1, <2>2, Constants DEF FilesAgree
  <2> QED
    BY <2>1, <2>2 DEF Passes
<1>3. Works(actor[a])'
  BY <1>1 DEF Passes, Loaded, Works, Injected
<1> QED
  BY <1>1, <1>2, <1>3, AloneStep

(* A process goes on to its next step.                                     *)
LEMMA GoStep ==
    ASSUME Calm, NEW a \in Actors, ~At(a, "rest"), NEW pc \in Pcs \ Loaded,
           Go(a, pc) \/ Become(a, pc), NEW j \in {NoJournal, journal}, journal' = j,
           UNCHANGED <<config, own, exposed, injected>>,
           j = journal \/ ~injected,
           pc # "profile", pc = "mark" => At(a, "profile") /\ Go(a, pc),
           pc \in {"forget", "profileBack", "drop", "strip"} => ~injected
    PROVE  OneAtATime'
<1>1. TypeOK /\ Alone(a) /\ Works(actor[a])
  BY OthersRest DEF Calm
<1>2. Passes(a)
  BY <1>1, GoPasses
<1>3. SameSnapshot(journal', journal) \/ ~injected
  BY DEF SameSnapshot
<1>4. actor'[a].pc = pc
  BY <1>1, GoActs, BecomeActs DEF Loaded, Copying
<1>5. pc = "mark" => injected /\ Injected(actor'[a].raw) = Injected(own)
  <2> HAVE pc = "mark"
  <2>1. actor'[a].raw = actor[a].raw
    BY <1>1, GoActs DEF Loaded, Copying
  <2> QED
    BY <1>1, <2>1 DEF Works, At
<1> QED
  BY <1>1, <1>2, <1>3, <1>4, <1>5, PassStep

(* A command ends.                                                         *)
LEMMA EndStep ==
    ASSUME Calm, NEW a \in Actors, ~At(a, "rest"), NEW j \in {NoJournal, journal}, Finish(a, j),
           UNCHANGED <<config, own, exposed, injected>>, j = journal \/ ~injected
    PROVE  OneAtATime'
<1>1. TypeOK /\ Alone(a)
  BY OthersRest DEF Calm
<1>2. Passes(a) /\ WellFormed(j)
  BY <1>1, EndPasses, Constants DEF TypeOK
<1>3. actor'[a] = Resting /\ SameSnapshot(journal', j)
  BY <1>1, <1>2, FinishActs DEF Acts
<1> QED
  BY <1>1, <1>2, <1>3, PassStep, Constants

(* The steps that pass.                                                    *)
LEMMA WorkStep ==
    ASSUME ~Open, Calm, NEW a \in Actors, Inject(a) \/ TakeBack(a), ~Touches(a)
    PROVE  OneAtATime'
<1>1. ~At(a, "rest") /\ UNCHANGED <<config, own, exposed, injected>>
  BY DEF Inject, TakeBack, Touches, Load, Take, Found, Read, Forget, WriteProfile, MarkJournal,
         Restore, Reconcile, Check, Reload, ProfileBack, DropJournal, UnlinkProfile, At, history
<1>2. FilesAgree /\ Works(actor[a]) /\ Alone(a)
  BY <1>1, OthersRest
<1>3. External(config) => ~injected
  BY <1>2, OwnTransforms DEF FilesAgree
<1>4. CASE Read(a)
  <2>1. External(config) /\ Become(a, "forget") /\ journal' = journal
    BY <1>4 DEF Read, Touches, Load
  <2> QED
    BY <1>1, <1>3, <2>1, GoStep DEF Pcs, Loaded
<1>5. CASE Forget(a)
  <2>1. Finish(a, NoJournal) /\ ~injected
    BY <1>2, <1>5 DEF Forget, Works, At
  <2> QED
    BY <1>1, <2>1, EndStep
<1>6. CASE WriteProfile(a)
  <2>1. Go(a, "mark") /\ At(a, "profile") /\ journal' = journal
    BY <1>6 DEF WriteProfile
  <2> QED
    BY <1>1, <2>1, GoStep DEF Pcs, Loaded
<1>7. CASE MarkJournal(a)
  <2>1. Finish(a, journal)
    BY <1>7 DEF MarkJournal, Touches, Take
  <2> QED
    BY <1>1, <2>1, EndStep
<1>8. CASE Reload(a)
  <2>1. /\ actor' = [actor EXCEPT ![a].pc = "drop", ![a].taken = journal]
        /\ journal' = journal /\ ~journal.here
    BY <1>8 DEF Reload, Touches, Found
  <2>2. ~injected
    BY <1>2, <2>1 DEF FilesAgree, Backed
  <2>3. actor'[a].pc = "drop"
    BY <2>1 DEF Calm, TypeOK, ActorRecord
  <2>4. Others(a)
    BY <2>1, TakeActs DEF Acts, Pcs, Copying, Calm
  <2>5. FilesAgree'
    BY <1>1, <1>2, <2>1, FilesStay DEF SameSnapshot
  <2>6. Works(actor[a])'
    BY <1>1, <2>2, <2>3 DEF Works
  <2> QED
    BY <1>2, <2>4, <2>5, <2>6, AloneStep
<1>9. CASE ProfileBack(a)
  <2>1. Go(a, "drop") /\ journal' = journal /\ ~injected
    BY <1>2, <1>9 DEF ProfileBack, Works, At
  <2> QED
    BY <1>1, <2>1, GoStep DEF Pcs, Loaded
<1>10. CASE DropJournal(a)
  <2> DEFINE j == IF Complete(a) THEN NoJournal ELSE journal
  <2>1. ~injected /\ j \in {NoJournal, journal}
    BY <1>2, <1>10 DEF DropJournal, Works, At
  <2>2. \/ Become(a, "read") /\ journal' = j
        \/ /\ actor' = [actor EXCEPT ![a] = [Resting EXCEPT !.pc = "strip", !.taken = actor[a].taken]]
           /\ journal' = j
        \/ Finish(a, j)
    BY <1>10 DEF DropJournal
  <2> HIDE DEF j
  <2>3. CASE Become(a, "read") /\ journal' = j
    BY <1>1, <2>1, <2>3, GoStep DEF Pcs, Loaded
  <2>4. CASE /\ actor' = [actor EXCEPT ![a] = [Resting EXCEPT !.pc = "strip", !.taken = actor[a].taken]]
             /\ journal' = j
    <3>1. actor'[a].pc = "strip" /\ Others(a)
      BY <2>4, ToStripActs DEF Acts, Calm
    <3>2. FilesAgree'
      BY <1>1, <1>2, <2>1, <2>4, Constants DEF FilesAgree
    <3>3. Works(actor[a])'
      BY <1>1, <2>1, <3>1 DEF Works
    <3> QED
      BY <1>2, <3>1, <3>2, <3>3, AloneStep
  <2>5. CASE Finish(a, j)
    BY <1>1, <2>1, <2>5, EndStep
  <2> QED
    BY <2>2, <2>3, <2>4, <2>5
<1>11. CASE UnlinkProfile(a)
  BY <1>1, <1>11, EndStep DEF UnlinkProfile
<1>12. CASE Restore(a)
  <2>1. \/ \E pc \in {"reload", "forget"} :
             Go(a, pc) /\ journal' = journal /\ (pc = "forget" => External(config))
        \/ Finish(a, journal)
    BY <1>12 DEF Restore
  <2>2. ASSUME NEW pc \in {"reload", "forget"}, Go(a, pc), journal' = journal,
               pc = "forget" => External(config)
        PROVE  OneAtATime'
    BY <1>1, <1>3, <2>2, GoStep DEF Pcs, Loaded
  <2>3. CASE Finish(a, journal)
    BY <1>1, <2>3, EndStep
  <2> QED
    BY <2>1, <2>2, <2>3
<1>13. CASE Reconcile(a) \/ Check(a)
  <2>1. \/ \E pc \in {"reload", "check"} : Go(a, pc) /\ journal' = journal
        \/ Become(a, "read") /\ journal' = journal
        \/ Finish(a, journal)
    BY <1>13 DEF Reconcile, Check, Proceed
  <2>2. ASSUME NEW pc \in {"reload", "check", "read"}, Go(a, pc) \/ Become(a, pc), journal' = journal
        PROVE  OneAtATime'
    BY <1>1, <2>2, GoStep DEF Pcs, Loaded
  <2>3. CASE Finish(a, journal)
    BY <1>1, <2>3, EndStep
  <2> QED
    BY <2>1, <2>2, <2>3
<1> QED
  BY <1>4, <1>5, <1>6, <1>7, <1>8, <1>9, <1>10, <1>11, <1>12, <1>13 DEF Inject, TakeBack, Touches

-----------------------------------------------------------------------------
(* The steps that touch the files, or copy them.                           *)

(* A step of the process at work: what it needs.                           *)
LEMMA TouchStep ==
    ASSUME Calm, NEW a \in Actors, Touches(a), FilesAgree', Works(actor[a])'
    PROVE  OneAtATime'
<1>1. ~At(a, "rest") /\ Others(a)
  BY Touching DEF Calm, Acts
<1> QED
  BY <1>1, OthersRest, AloneStep

(* A process reads, and goes on with what it has read.                     *)
LEMMA LoadStep ==
    ASSUME ~Open, Calm, NEW a \in Actors, Load(a)
    PROVE  OneAtATime'
<1>1. /\ TypeOK /\ Touches(a) /\ UNCHANGED <<config, injected, own, journal>>
      /\ ~External(config)
  BY DEF Calm, Touches, Load, Read, history
<1>2. FilesAgree'
  BY <1>1, FilesStay DEF Calm, OneAtATime, SameSnapshot
<1>3. actor'[a].pc = "journal" /\ actor'[a].raw = config
  BY <1>1, LoadActs DEF Load
<1>4. Works(actor[a])'
  BY <1>1, <1>3 DEF Works, External
<1> QED
  BY <1>1, <1>2, <1>4, TouchStep

(* writeJournal: the user's configuration is put by, and an injected one   *)
(* leaves the journal that can take it back.                               *)
LEMMA JournalStep ==
    ASSUME ~Open, Calm, NEW a \in Actors, WriteJournal(a)
    PROVE  OneAtATime'
<1>1. /\ TypeOK /\ Touches(a) /\ UNCHANGED <<config, injected, own>>
      /\ At(a, "journal") /\ ~At(a, "rest")
  BY DEF Calm, Touches, WriteJournal, At, history
<1>2. FilesAgree /\ actor[a].raw = config /\ ~External(config)
  BY <1>1, OthersRest DEF Works, At
<1>3. FilesAgree' /\ Backed'
  <2>1. CASE injected
    <3>1. HasInjectedRouting(actor[a].raw) /\ journal' = journal
      BY <1>2, <2>1, OwnTransforms DEF FilesAgree, WriteJournal
    <3> QED
      BY <1>1, <1>2, <2>1, <3>1 DEF FilesAgree, Backed, Injected
  <2>2. CASE ~injected
    <3>1. ~HasInjectedRouting(actor[a].raw)
      BY <1>2, <2>2, OwnTransforms DEF FilesAgree
    <3>2. journal'.here /\ ~journal'.marked /\ journal'.config = config
      BY <1>1, <1>2, <3>1, JournalActs
    <3> QED
      BY <1>1, <1>2, <2>2, <3>2 DEF FilesAgree, Backed
  <2> QED
    BY <2>1, <2>2
<1>4. actor'[a].pc = "config" /\ actor'[a].raw = actor[a].raw
  BY <1>1, JournalActs
<1>5. Works(actor[a])'
  BY <1>1, <1>2, <1>3, <1>4 DEF Works, External
<1> QED
  BY <1>1, <1>3, <1>5, TouchStep

(* The injected form of what was read is that of the user's configuration, *)
(* whether it was injected before or not.                                  *)
LEMMA ConfigStep ==
    ASSUME ~Open, Calm, NEW a \in Actors, WriteConfig(a)
    PROVE  OneAtATime'
<1>1. /\ TypeOK /\ Touches(a) /\ At(a, "config") /\ ~At(a, "rest")
      /\ UNCHANGED <<journal, own>>
      /\ config' = Injected(actor[a].raw) /\ injected' = TRUE
  BY DEF Calm, Touches, WriteConfig, At
<1>2. FilesAgree /\ actor[a].raw = config /\ Backed
  BY <1>1, OthersRest DEF Works, At
<1>3. actor'[a].pc = "profile" /\ actor'[a].raw = config
  BY <1>1, <1>2, GoActs DEF WriteConfig, Pcs, Copying
<1>4. Injected(config) = Injected(own)
  BY <1>2, OwnTransforms DEF FilesAgree
<1>5. Injected(own') = Injected(own) /\ Backed'
  BY <1>1, <1>2 DEF Backed, Injected
<1>6. FilesAgree'
  <2>1. config' = Injected(own)
    BY <1>1, <1>2, <1>4
  <2> QED
    BY <1>1, <1>5, <2>1 DEF FilesAgree, Injected
<1>7. Works(actor[a])'
  BY <1>1, <1>3, <1>4, <1>5 DEF Works, Injected
<1> QED
  BY <1>1, <1>6, <1>7, TouchStep

(* The journal is read to be marked, ...                                   *)
LEMMA TakeStep ==
    ASSUME ~Open, Calm, NEW a \in Actors, Take(a)
    PROVE  OneAtATime'
<1>1. /\ TypeOK /\ Touches(a) /\ At(a, "mark") /\ ~At(a, "rest") /\ journal.here
      /\ UNCHANGED <<config, injected, own, journal>>
  BY DEF Calm, Touches, Take, MarkJournal, At, history
<1>2. FilesAgree /\ injected /\ Injected(actor[a].raw) = Injected(own)
  BY <1>1, OthersRest DEF Works, At
<1>3. actor'[a].pc = "remark" /\ actor'[a].raw = actor[a].raw /\ actor'[a].taken = journal
  BY <1>1, TakeActs DEF Take, MarkJournal, Pcs
<1>4. FilesAgree'
  BY <1>1, <1>2, FilesStay DEF SameSnapshot
<1>5. Works(actor[a])'
  BY <1>1, <1>2, <1>3 DEF Works, SameSnapshot, Injected
<1> QED
  BY <1>1, <1>4, <1>5, TouchStep

(* ... and the mark is that of the injection the journal can take back.    *)
LEMMA RemarkStep ==
    ASSUME ~Open, Calm, NEW a \in Actors, Remark(a)
    PROVE  OneAtATime'
<1>1. /\ TypeOK /\ Touches(a) /\ At(a, "remark") /\ ~At(a, "rest")
      /\ UNCHANGED <<config, injected, own>>
  BY DEF Calm, Touches, Remark, At, history
<1>2. /\ FilesAgree /\ injected /\ Injected(actor[a].raw) = Injected(own)
      /\ journal.here /\ SameSnapshot(actor[a].taken, journal)
  BY <1>1, OthersRest DEF Works, At
<1>3. /\ actor'[a] = Resting /\ journal'.here
      /\ journal'.config = journal.config /\ journal'.injected = Injected(own)
  BY <1>1, <1>2, RemarkActs DEF Acts, SameSnapshot
<1>4. FilesAgree'
  BY <1>1, <1>2, <1>3 DEF FilesAgree, Backed, Injected
<1>5. Works(actor[a])'
  BY <1>3, Constants DEF Works
<1> QED
  BY <1>1, <1>4, <1>5, TouchStep

(* A restore reads the journal.                                            *)
LEMMA FoundStep ==
    ASSUME ~Open, Calm, NEW a \in Actors, Found(a)
    PROVE  OneAtATime'
<1>1. /\ TypeOK /\ Touches(a) /\ journal.here
      /\ UNCHANGED <<config, injected, own, journal>>
  BY DEF Calm, Touches, Found, Reload, history
<1>2. actor'[a].pc = "compare" /\ actor'[a].taken = journal
  BY <1>1, TakeActs DEF Found, Reload, Pcs
<1>3. FilesAgree'
  BY <1>1, FilesStay DEF Calm, OneAtATime, SameSnapshot
<1>4. Works(actor[a])'
  BY <1>1, <1>2 DEF Works, SameSnapshot
<1> QED
  BY <1>1, <1>3, <1>4, TouchStep

(* The comparison takes only the injection, or a file nobody injected, for *)
(* what may be put back.                                                   *)
LEMMA CompareStep ==
    ASSUME ~Open, Calm, NEW a \in Actors, Compare(a)
    PROVE  OneAtATime'
<1>1. /\ TypeOK /\ Touches(a) /\ At(a, "compare") /\ ~At(a, "rest")
      /\ UNCHANGED <<config, injected, own, journal>>
  BY DEF Calm, Touches, Compare, At, history
<1>2. FilesAgree /\ journal.here /\ SameSnapshot(actor[a].taken, journal)
  BY <1>1, OthersRest DEF Works, At
<1>3. /\ actor'[a].pc = "configBack" /\ actor'[a].taken = actor[a].taken
      /\ actor'[a].configOk <=> ConfigUnchanged(actor[a].taken)
  BY <1>1, CompareActs
<1>4. journal.marked => journal.injected # own
  BY DEF Calm, MarksDiffer
<1>5. ConfigUnchanged(actor[a].taken) => actor[a].taken.config = own
  BY <1>2, <1>4 DEF ConfigUnchanged, SameSnapshot, FilesAgree, Backed
<1>6. ~ConfigUnchanged(actor[a].taken) => ~injected
  BY <1>2 DEF ConfigUnchanged, SameSnapshot, FilesAgree, Backed
<1>7. FilesAgree'
  BY <1>1, <1>2, FilesStay DEF SameSnapshot
<1>8. Works(actor[a])'
  BY <1>1, <1>3, <1>5, <1>6 DEF Works
<1> QED
  BY <1>1, <1>7, <1>8, TouchStep

(* What is put back is the user's.                                         *)
LEMMA BackStep ==
    ASSUME ~Open, Calm, NEW a \in Actors, ConfigBack(a)
    PROVE  OneAtATime'
<1>1. /\ TypeOK /\ Touches(a) /\ At(a, "configBack") /\ ~At(a, "rest")
      /\ UNCHANGED <<own, journal>>
      /\ config' = (IF actor[a].configOk THEN actor[a].taken.config ELSE config)
      /\ injected' = (injected /\ ~actor[a].configOk)
  BY DEF Calm, Touches, ConfigBack, At
<1>2. /\ FilesAgree
      /\ actor[a].configOk => actor[a].taken.config = own
      /\ ~actor[a].configOk => ~injected
  BY <1>1, OthersRest DEF Works, At
<1>3. ~injected' /\ config' = own /\ (journal.here /\ ~journal.marked => journal.config = own)
  BY <1>1, <1>2 DEF FilesAgree, Backed
<1>4. FilesAgree'
  BY <1>1, <1>3 DEF FilesAgree
<1>5. actor'[a].pc = "profileBack"
  BY <1>1, GoActs DEF ConfigBack, Pcs, Copying
<1>6. Works(actor[a])'
  BY <1>3, <1>5 DEF Works
<1> QED
  BY <1>1, <1>4, <1>6, TouchStep

(* There is nothing left to strip.                                         *)
LEMMA StripStep ==
    ASSUME ~Open, Calm, NEW a \in Actors, Strip(a) \/ StripWrite(a)
    PROVE  OneAtATime'
<1>1. /\ TypeOK /\ Touches(a) /\ ~At(a, "rest") /\ UNCHANGED <<own, journal>>
      /\ actor[a].pc \in {"strip", "stripWrite"}
  BY DEF Calm, Touches, Strip, StripWrite, At, history
<1>2. /\ FilesAgree /\ ~injected /\ config = own /\ Stripped(own) = own
      /\ At(a, "stripWrite") => actor[a].raw = own
  BY <1>1, OthersRest, OwnTransforms DEF Works, At, FilesAgree
<1>3. config' = config /\ injected' = injected
  <2>1. CASE Strip(a)
    BY <2>1 DEF Strip, history
  <2>2. CASE StripWrite(a)
    <3>1. actor[a].raw = own
      BY <1>2, <2>2 DEF StripWrite
    <3>2. config' = config /\ ~injected' /\ injected' \in BOOLEAN /\ injected \in BOOLEAN
      BY <1>1, <1>2, <2>2, <3>1 DEF StripWrite, TypeOK
    <3> QED
      BY <1>2, <3>2
  <2> QED
    BY <2>1, <2>2
<1>4. FilesAgree'
  BY <1>1, <1>2, <1>3, FilesStay DEF SameSnapshot
<1>5. CASE Strip(a)
  <2>1. actor'[a].pc = "stripWrite" /\ actor'[a].raw = config
    BY <1>1, <1>5, RawActs DEF Strip, Pcs, Copying, TypeOK
  <2>2. Works(actor[a])'
    BY <1>2, <1>3, <2>1 DEF Works
  <2> QED
    BY <1>1, <1>4, <2>2, TouchStep
<1>6. CASE StripWrite(a)
  <2>1. actor'[a].pc = "unlink"
    BY <1>1, <1>6, RawActs, Constants DEF StripWrite, Pcs, Copying
  <2>2. Works(actor[a])'
    BY <2>1 DEF Works
  <2> QED
    BY <1>1, <1>4, <2>2, TouchStep
<1> QED
  BY <1>5, <1>6

-----------------------------------------------------------------------------
(* A command that begins while no other runs.                              *)
LEMMA CommandStep ==
    ASSUME Calm, NEW a \in Actors, NEW pc \in {"read", "restore", "reconcile"},
           NEW then \in Sequels, Begin(a, pc, then), calm'
    PROVE  OneAtATime'
<1>1. Quiet /\ UNCHANGED <<config, journal, own, injected>>
  BY DEF Begin
<1>2. Alone(a) /\ FilesAgree'
  BY <1>1, FilesStay DEF Calm, OneAtATime, Alone, Quiet, SameSnapshot
<1>3. Others(a) /\ actor'[a].pc = pc
  BY BeginActs DEF Calm, Acts, Pcs, Copying
<1>4. Works(actor[a])'
  BY <1>3 DEF Works
<1> QED
  BY <1>2, <1>3, <1>4, AloneStep

(* A change made in peace is the user's configuration from then on.        *)
LEMMA PeaceStep ==
    ASSUME TypeOK, NEW c, Wish(c), calm', UNCHANGED <<journal, actor, injected>>
    PROVE  OneAtATime'
<1>1. Quiet /\ ~injected /\ ~Unsafe /\ config' = c /\ own' = c
  BY DEF Wish
<1>2. \A b \in Actors : actor'[b].pc = "rest"
  BY <1>1 DEF Quiet, At
<1>3. FilesAgree'
  BY <1>1 DEF FilesAgree, Unsafe
<1> QED
  BY <1>2, <1>3 DEF OneAtATime, Works, At

(* One step, by the process that runs, or by the user in peace.            *)
LEMMA ExactStep == TypeOK /\ NativeInv /\ ExactInv /\ [Next]_vars => ExactInv'
<1> SUFFICES ASSUME TypeOK, NativeInv, ExactInv, [Next]_vars, ~Open PROVE ExactInv'
  BY DEF ExactInv
<1>1. MarksDiffer /\ MarksDiffer'
  BY MarksStep DEF ExactInv
<1> SUFFICES ASSUME calm', own'.url # "own" PROVE OneAtATime'
  BY <1>1 DEF ExactInv
<1>2. ASSUME calm, own' = own PROVE Calm
  <2>1. own.url = None
    BY <1>1, <1>2 DEF MarksDiffer, Native, TypeOK, Configs, None
  <2> QED
    BY <1>1, <1>2, <2>1 DEF Calm, ExactInv
<1>3. ASSUME NEW a \in Actors, Inject(a) \/ TakeBack(a) PROVE OneAtATime'
  <2>1. Calm
    BY <1>2, <1>3, OwnSteps
  <2>2. CASE Touches(a)
    BY <2>1, <2>2, LoadStep, JournalStep, ConfigStep, TakeStep, RemarkStep, FoundStep, CompareStep,
       BackStep, StripStep DEF Touches
  <2> QED
    BY <1>3, <2>1, <2>2, WorkStep
<1>4. ASSUME NEW a \in Actors, Leave(a, journal), UNCHANGED <<config, history>> PROVE OneAtATime'
  <2>1. Calm /\ UNCHANGED <<config, injected, own>>
    BY <1>2, <1>4 DEF history
  <2>2. Others(a) /\ actor'[a].pc = "rest" /\ SameSnapshot(journal', journal)
    BY <1>4, LeaveActs, Constants DEF Acts, TypeOK
  <2> QED
    BY <2>1, <2>2, StopStep DEF Calm
<1>5. ASSUME (\E a \in Actors : Crash(a)) \/ Exit PROVE OneAtATime'
  BY <1>4, <1>5 DEF Crash, Exit, Actors
<1>6. ASSUME EditProfile \/ UNCHANGED vars PROVE OneAtATime'
  <2>1. Calm /\ UNCHANGED <<config, injected, own, journal, actor>>
    BY <1>2, <1>6 DEF EditProfile, vars, history
  <2>2. FilesAgree' /\ (Backed => Backed')
    BY <2>1, FilesStay DEF Calm, OneAtATime, SameSnapshot
  <2> QED
    BY <2>1, <2>2 DEF Calm, OneAtATime, Works, At, Injected, External
<1>7. ASSUME Begins PROVE OneAtATime'
  <2>1. PICK a \in Actors, pc \in {"read", "restore", "reconcile"}, then \in Sequels : Begin(a, pc, then)
    BY <1>7, BeginsWhere
  <2>2. Calm
    BY <1>2, <2>1 DEF Begin
  <2> QED
    BY <2>1, <2>2, CommandStep
<1>8. ASSUME NEW e \in Edits, Edit(e) PROVE OneAtATime'
  BY <1>8, PeaceStep DEF Edit
<1>9. CASE Meddle
  <2>1. \E c : Wish(c)
    BY <1>9 DEF Meddle
  <2> QED
    BY <1>9, <2>1, PeaceStep DEF Meddle
<1> QED
  BY <1>3, <1>5, <1>6, <1>7, <1>8, <1>9 DEF Next, Begins

-----------------------------------------------------------------------------
(* The inductive invariant holds.                                          *)
THEOREM Invariance == Spec => []IInv
<1>1. ASSUME Init PROVE IInv
  <2>0. /\ config = NoJournal.config /\ own = config /\ exposed = {} /\ ~injected
        /\ journal = NoJournal
        /\ \A a \in Actors : actor[a] = Resting
    BY <1>1 DEF Init
  <2>1. TypeOK
    <3>1. /\ config \in Configs /\ own \in Configs /\ profile \in Profiles
          /\ WellFormed(journal) /\ actor \in [Actors -> ActorRecord]
          /\ \A a \in Actors : Ready(actor[a])
      BY <1>1, Constants DEF Init, ActorOK
    <3>2. /\ commands \in 0 .. MaxCommands /\ crashes \in 0 .. MaxCrashes
          /\ meddling \in 0 .. MaxMeddling
      BY <1>1, InjectionConstants DEF Init
    <3> QED
      BY <1>1, <3>1, <3>2 DEF Init, TypeOK
  <2>2. NativeInv
    BY <2>0, Constants DEF NativeInv, Native
  <2>3. EditsInv /\ EditsKnown
    BY <2>0, Constants DEF EditsInv, EditsKnown, Kept, Known, Keeps, Knows
  <2>4. ExactInv
    <3>1. MarksDiffer
      BY <2>0, Constants DEF MarksDiffer
    <3>2. FilesAgree
      BY <2>0, Constants DEF FilesAgree
    <3>3. OneAtATime
      BY <2>0, <3>2, Constants DEF OneAtATime, Works, At
    <3> QED
      BY <3>1, <3>3 DEF ExactInv
  <2> QED
    BY <2>1, <2>2, <2>3, <2>4 DEF IInv
<1>2. IInv /\ [Next]_vars => IInv'
  BY TypeStep, NativeStep, EditsStep, ExactStep DEF IInv
<1> QED
  BY <1>1, <1>2, PTL DEF Spec

(* Every reachable state is of its shape.                                  *)
THEOREM TypeCorrect == Spec => []TypeOK
<1>1. IInv => TypeOK
  BY DEF IInv
<1>2. QED
  BY <1>1, Invariance, PTL

(* In the loopback form, what a restore or a replay leaves behind is       *)
(* native: writeJournal never takes injected routing for an original, and  *)
(* a process that is slow to write a journal, a copy or a configuration it *)
(* has read brings none back.                                              *)
THEOREM RestoresNative == Spec => [](Open \/ RestoreLeavesNative)
<1>1. IInv => (Open \/ RestoreLeavesNative)
  BY InjectionConstants DEF IInv, NativeInv, RestoreLeavesNative, Routed
<1>2. QED
  BY <1>1, Invariance, PTL

(* No injection, restore, crash or replay of an old journal loses an edit, *)
(* in either form, unless it was made after some command had read          *)
(* config.toml (or a journal without a mark) and before that command wrote *)
(* it, or before an injection had set its mark.                            *)
THEOREM EditsAreKept == Spec => []EditsSurvive
<1>1. IInv => EditsSurvive
  BY DEF IInv, EditsInv, Kept, EditsSurvive
<1>2. QED
  BY <1>1, Invariance, PTL

(* In the loopback form, where commands do not overlap, the user has no    *)
(* address of their own and nobody changes the injected file, taking the   *)
(* injection back gives exactly the user's configuration, whichever        *)
(* process dies between which two file operations and however often it is  *)
(* injected again.                                                         *)
THEOREM RestoresExactly == Spec => [](Open \/ RestoreIsExact)
<1>1. IInv => (Open \/ RestoreIsExact)
  BY InjectionConstants DEF IInv, ExactInv, OneAtATime, FilesAgree, RestoreIsExact
<1>2. QED
  BY <1>1, Invariance, PTL
=============================================================================
