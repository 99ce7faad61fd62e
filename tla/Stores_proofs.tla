--------------------------- MODULE Stores_proofs ---------------------------
(***************************************************************************)
(* The two files in which leases are kept.  The governor's: its writer     *)
(* directory keeps the processes apart, for any number of them, and the    *)
(* journals in it stay complete and loadable, for any bounds.  And the     *)
(* pool's: what it promises the callers it has granted a lease, for any    *)
(* number of calls, aliases, leases and crashes.                           *)
(***************************************************************************)
EXTENDS GovernorRepository, EventJournal, ProfilePool, SequenceTheorems, TLAPS

USE BoundsAssumption

----------------------------------------------------------------------------
(* The invariant *)

\* The directory is there and empty on behalf of the process, or has its name
\* in it, or that of the dead owner it is taken from.
Empties(p) == pc[p] \in {"made", "unlinked", "emptied"}
Owns(p)    == Holding(p) \/ pc[p] = "closing"
Engaged(p) == Empties(p) \/ Owns(p) \/ pc[p] = "steal"

\* What a process is engaged in is what the directory shows.
DirectoryShows ==
  \A p \in Process :
    /\ Empties(p) => writerDir = Bare
    /\ Owns(p) => writerDir = OwnedBy(p)
    /\ pc[p] = "steal" => writerDir.pid # {}

OneEngaged == \A p, q \in Process : Engaged(p) /\ Engaged(q) => p = q

\* A transaction that goes on has read the state that is there.
ReadIsCurrent == \A p \in Process : pc[p] \in {"read", "checked"} => base[p] = version

\* A repository that is being opened has drawn its writerId.
IdsDrawn ==
  \A p \in Process : opens[p] <= MaxOpens /\ (pc[p] \notin {"dead", "idle"} => opens[p] # 0)

Apart == DirectoryShows /\ OneEngaged /\ ReadIsCurrent /\ version = commits

RepositoryInv == TypeOK /\ IdsDrawn /\ (contested \/ Apart)

----------------------------------------------------------------------------

\* The three shapes of the directory.
LEMMA LockShapes ==
  ASSUME TypeOK
  PROVE  /\ ~writerDir.dir <=> writerDir = Absent
         /\ writerDir.pid # {} <=> writerDir \notin {Bare, Absent}
         /\ \A p \in Process : OwnedBy(p).pid = {p} /\ OwnedBy(p) \notin {Bare, Absent}
<1>1. CASE writerDir = Bare
  BY <1>1 DEF Bare, Absent, OwnedBy
<1>2. CASE writerDir = Absent
  BY <1>2 DEF Bare, Absent, OwnedBy
<1>3. CASE writerDir \in [dir : {TRUE}, pid : {{p} : p \in Process}, id : 1..MaxOpens]
  <2>1. PICK q \in Process : writerDir.pid = {q}
    BY <1>3
  <2>2. writerDir.dir /\ writerDir.pid # {}
    BY <1>3, <2>1
  <2>3. \A p \in Process : OwnedBy(p).pid = {p}
    BY DEF OwnedBy
  <2>4. Bare.pid = {} /\ Absent.pid = {} /\ ~Absent.dir
    BY DEF Bare, Absent
  <2> QED BY <2>2, <2>3, <2>4
<1> QED BY <1>1, <1>2, <1>3 DEF TypeOK

\* Types and writerIds are kept by every step, contested or not.
LEMMA ShapeStep ==
  ASSUME TypeOK, IdsDrawn, NEW p \in Process,
         Open(p) \/ Read(p) \/ Close(p) \/ Proceed(p) \/ Boot(p) \/ Die(p)
  PROVE  TypeOK' /\ IdsDrawn'
<1> USE DEF TypeOK, IdsDrawn, Goto, Phase
<1>1. CASE Open(p)
  <2>1. opens' \in [Process -> Nat] /\ pc' \in [Process -> Phase]
    BY <1>1 DEF Open
  <2>2. IdsDrawn'
    BY <1>1, <2>1 DEF Open
  <2> QED BY <1>1, <2>1, <2>2 DEF Open
<1>2. CASE Read(p)
  BY <1>2 DEF Read
<1>3. CASE Close(p) \/ Boot(p) \/ Die(p)
  BY <1>3 DEF Close, Boot, Die
<1>4. CASE MakeDirectory(p)
  BY <1>4 DEF MakeDirectory
<1>5. CASE WriteOwner(p)
  <2>1. opens[p] \in 1..MaxOpens
    BY <1>5 DEF WriteOwner
  <2>2. OwnedBy(p) \in [dir : {TRUE}, pid : {{q} : q \in Process}, id : 1..MaxOpens]
    BY <2>1 DEF OwnedBy
  <2> QED BY <1>5, <2>2 DEF WriteOwner
<1>6. CASE Inspect(p) \/ Refused(p)
  BY <1>6 DEF Inspect, Refused
<1>7. CASE StealOwner(p) \/ StealDirectory(p) \/ CloseOwner(p) \/ CloseDirectory(p)
  BY <1>7 DEF StealOwner, StealDirectory, CloseOwner, CloseDirectory
<1>8. CASE Check(p)
  BY <1>8 DEF Check
<1>9. CASE Rename(p)
  <2>1. version' \in Nat /\ commits' \in Nat
    BY <1>9 DEF Rename
  <2>2. pc' \in [Process -> Phase] /\ IdsDrawn'
    BY <1>9 DEF Rename
  <2> QED BY <1>9, <2>1, <2>2 DEF Rename
<1> QED BY <1>1, <1>2, <1>3, <1>4, <1>5, <1>6, <1>7, <1>8, <1>9 DEF Proceed

\* A directory that nobody has made keeps everybody from being engaged.
LEMMA NobodyEngaged ==
  ASSUME TypeOK, Apart, writerDir = Absent
  PROVE  \A q \in Process : ~Engaged(q)
BY LockShapes DEF Apart, DirectoryShows, Engaged, Bare, Absent

\* While two processes have not been stealing at once, the processes are apart.
LEMMA ApartStep ==
  ASSUME RepositoryInv, ~contested', NEW p \in Process,
         Open(p) \/ Read(p) \/ Close(p) \/ Proceed(p) \/ Boot(p) \/ Die(p)
  PROVE  Apart'
<1>0. ~contested /\ Apart /\ TypeOK /\ IdsDrawn
  BY DEF RepositoryInv, TypeOK, Open, Read, Close, Proceed, Boot, Die, MakeDirectory, WriteOwner,
         Inspect, Refused, StealOwner, StealDirectory, Check, Rename, CloseOwner, CloseDirectory
<1> USE <1>0
<1>1. CASE Open(p)
  BY <1>1 DEF Open, Goto, TypeOK, Apart, DirectoryShows, OneEngaged, ReadIsCurrent, Engaged,
              Empties, Owns, Holding, OwnedBy
<1>2. CASE Boot(p) \/ Die(p) \/ Refused(p)
  BY <1>2 DEF Boot, Die, Refused, Goto, TypeOK, Apart, DirectoryShows, OneEngaged, ReadIsCurrent,
              Engaged, Empties, Owns, Holding, OwnedBy
<1>3. CASE Read(p) \/ Close(p) \/ Check(p)
  <2>1. Engaged(p)
    BY <1>3 DEF Read, Close, Check, Engaged, Owns, Holding
  <2> QED BY <1>3, <2>1 DEF Read, Close, Check, Goto, TypeOK, Apart, DirectoryShows, OneEngaged,
              ReadIsCurrent, Engaged, Empties, Owns, Holding, OwnedBy
<1>4. CASE MakeDirectory(p)
  <2>1. CASE writerDir.dir
    BY <1>4, <2>1 DEF MakeDirectory, Goto, TypeOK, Apart, DirectoryShows, OneEngaged,
              ReadIsCurrent, Engaged, Empties, Owns, Holding, OwnedBy
  <2>2. CASE ~writerDir.dir
    <3>1. \A q \in Process : ~Engaged(q)
      BY <2>2, LockShapes, NobodyEngaged
    <3> QED BY <1>4, <2>2, <3>1 DEF MakeDirectory, Goto, TypeOK, Apart, DirectoryShows,
              OneEngaged, ReadIsCurrent, Engaged, Empties, Owns, Holding, OwnedBy
  <2> QED BY <2>1, <2>2
<1>5. CASE WriteOwner(p)
  <2>1. Engaged(p) /\ writerDir = Bare
    BY <1>5 DEF WriteOwner, Engaged, Empties, Apart, DirectoryShows
  <2>2. writerDir' = OwnedBy(p) /\ Goto(p, "writer") /\ UNCHANGED <<opens, version, base, commits>>
    BY <1>5, <2>1 DEF WriteOwner, Bare
  <2> QED BY <1>5, <2>1, <2>2 DEF WriteOwner, Goto, TypeOK, Apart, DirectoryShows, OneEngaged,
              ReadIsCurrent, Engaged, Empties, Owns, Holding, OwnedBy
<1>6. CASE Inspect(p)
  <2>1. PICK r \in writerDir.pid : r # p /\ pc[r] = "dead"
    BY <1>6 DEF Inspect, FoundDead, Alive
  <2>2. r \in Process /\ writerDir \notin {Bare, Absent} /\ writerDir.pid = {r}
    BY <2>1, LockShapes DEF TypeOK, Bare, Absent
  <2>3. \A q \in Process \ {p} : ~Engaged(q)
    <3>1. SUFFICES ASSUME NEW q \in Process \ {p}, Engaged(q) PROVE FALSE
      OBVIOUS
    <3>2. CASE Empties(q)
      BY <2>2, <3>2 DEF Apart, DirectoryShows
    <3>3. CASE Owns(q)
      BY <2>1, <2>2, <3>3, LockShapes DEF Apart, DirectoryShows, Owns, Holding
    <3>4. CASE pc[q] = "steal"
      BY <1>6, <3>4 DEF Inspect, Stealing, TypeOK
    <3> QED BY <3>1, <3>2, <3>3, <3>4 DEF Engaged
  <2> QED BY <1>6, <2>2, <2>3, LockShapes DEF Inspect, Goto, TypeOK, Apart, DirectoryShows,
              OneEngaged, ReadIsCurrent, Engaged, Empties, Owns, Holding, OwnedBy
<1>7. CASE StealOwner(p) \/ CloseOwner(p)
  <2>1. Engaged(p) /\ writerDir.dir
    BY <1>7, LockShapes DEF StealOwner, CloseOwner, Engaged, Owns, Apart, DirectoryShows, Absent
  <2> QED BY <1>7, <2>1 DEF StealOwner, CloseOwner, Goto, TypeOK, Apart, DirectoryShows,
              OneEngaged, ReadIsCurrent, Engaged, Empties, Owns, Holding, OwnedBy
<1>8. CASE StealDirectory(p) \/ CloseDirectory(p)
  <2>1. Engaged(p)
    BY <1>8 DEF StealDirectory, CloseDirectory, Engaged, Empties
  <2> QED BY <1>8, <2>1 DEF StealDirectory, CloseDirectory, Goto, TypeOK, Apart, DirectoryShows,
              OneEngaged, ReadIsCurrent, Engaged, Empties, Owns, Holding, OwnedBy
<1>9. CASE Rename(p)
  <2>1. Engaged(p) /\ base[p] = version
    BY <1>9 DEF Rename, Engaged, Owns, Holding, Apart, ReadIsCurrent
  <2> QED BY <1>9, <2>1 DEF Rename, Goto, TypeOK, Apart, DirectoryShows, OneEngaged,
              ReadIsCurrent, Engaged, Empties, Owns, Holding, OwnedBy
<1> QED BY <1>1, <1>2, <1>3, <1>4, <1>5, <1>6, <1>7, <1>8, <1>9 DEF Proceed

\* Every step keeps the invariant of the repository.
LEMMA RepositoryInvStep == RepositoryInv /\ [Next]_vars => RepositoryInv'
<1> SUFFICES ASSUME RepositoryInv, [Next]_vars PROVE RepositoryInv'
  OBVIOUS
<1>1. CASE UNCHANGED vars
  BY <1>1 DEF vars, RepositoryInv, TypeOK, IdsDrawn, Apart, DirectoryShows, OneEngaged,
              ReadIsCurrent, Engaged, Empties, Owns, Holding, OwnedBy
<1>2. ASSUME NEW p \in Process,
             Open(p) \/ Read(p) \/ Close(p) \/ Proceed(p) \/ Boot(p) \/ Die(p)
      PROVE  RepositoryInv'
  <2>1. TypeOK' /\ IdsDrawn'
    BY <1>2, ShapeStep DEF RepositoryInv
  <2>2. CASE contested'
    BY <2>1, <2>2 DEF RepositoryInv
  <2>3. CASE ~contested'
    BY <1>2, <2>1, <2>3, ApartStep DEF RepositoryInv
  <2> QED BY <2>2, <2>3
<1> QED BY <1>1, <1>2 DEF Next

\* The invariant holds of every behaviour of the repository.
THEOREM RepositoryInvariant == Spec => []RepositoryInv
<1>1. ASSUME Init PROVE RepositoryInv
  <2>1. TypeOK
    BY <1>1 DEF Init, TypeOK, Phase
  <2>2. IdsDrawn
    <3>1. \A p \in Process : opens[p] = 0 /\ pc[p] = "dead"
      BY <1>1 DEF Init
    <3>2. 0 <= MaxOpens
      BY BoundsAssumption
    <3> QED BY <3>1, <3>2 DEF IdsDrawn
  <2>3. \A p \in Process : ~Engaged(p) /\ pc[p] \notin {"read", "checked"}
    BY <1>1 DEF Init, Engaged, Empties, Owns, Holding
  <2>4. Apart
    BY <1>1, <2>3 DEF Init, Apart, DirectoryShows, OneEngaged, ReadIsCurrent, Engaged
  <2> QED BY <2>1, <2>2, <2>4 DEF RepositoryInv
<1> QED BY <1>1, RepositoryInvStep, PTL DEF Spec

\* Whatever processes die, restart and steal, there is one writer and every
\* transaction builds on the one before, until two processes have been stealing
\* from one dead owner at the same time.
THEOREM StateFileIsSafe == Spec => []StateFileSafe
<1>1. RepositoryInv => StateFileSafe
  BY DEF RepositoryInv, StateFileSafe, OneWriterUnlessRaced, OneWriter, UpdatesNotLost, Apart,
         OneEngaged, Engaged, Owns
<1> QED BY <1>1, RepositoryInvariant, PTL

----------------------------------------------------------------------------
(* The journals of the state file *)

\* The event journal is the events written last, without a gap.
EventsAreLast ==
  /\ events \in Seq(Nat) /\ digests = events /\ written \in Nat
  /\ Len(events) = IF written < MaxEvents THEN written ELSE MaxEvents
  /\ \A i \in 1 .. Len(events) : events[i] = written - Len(events) + i

\* The receipts are in order, and those that are missing were pushed out.
ReceiptsAreLast ==
  /\ receipts \in Seq(Nat) /\ Len(receipts) <= MaxReceipts /\ receipted \subseteq 1 .. written
  /\ \A i, j \in 1 .. Len(receipts) : i < j => receipts[i] < receipts[j]
  /\ \A i \in 1 .. Len(receipts) :
       receipts[i] \in 1 .. written /\ written - Len(events) < receipts[i]
  /\ \A e \in receipted :
       \/ \E i \in 1 .. Len(receipts) : receipts[i] = e
       \/ Len(receipts) = MaxReceipts /\ e < receipts[1]

LeasesTyped == lease \in [Profile -> Worth] /\ claimed \in [Profile -> BOOLEAN]

JournalInv == EventsAreLast /\ ReceiptsAreLast /\ LeasesTyped

\* What is left of a journal with an entry more: all, or all but the oldest.
LEMMA NewestOfAppended ==
  ASSUME NEW n \in Nat \ {0}, NEW s \in Seq(Nat), NEW e \in Nat, Len(s) <= n
  PROVE  LET t == Newest(n, Append(s, e))
         IN /\ t \in Seq(Nat)
            /\ Len(s) < n => /\ Len(t) = Len(s) + 1
                             /\ \A i \in 1 .. Len(s) : t[i] = s[i]
            /\ Len(s) = n => /\ Len(t) = n
                             /\ \A i \in 1 .. n - 1 : t[i] = s[i + 1]
            /\ t[Len(t)] = e
<1> DEFINE a == Append(s, e)
<1>1. /\ a \in Seq(Nat) /\ Len(a) = Len(s) + 1 /\ a[Len(s) + 1] = e
      /\ \A i \in 1 .. Len(s) : a[i] = s[i]
      /\ Len(s) \in Nat
  OBVIOUS
<1>2. CASE Len(s) < n
  <2>1. Newest(n, a) = a BY <1>1, <1>2 DEF Newest
  <2> QED BY <1>1, <1>2, <2>1
<1>3. CASE Len(s) = n
  <2> HIDE DEF a
  <2>1. Newest(n, a) = SubSeq(a, 2, n + 1) BY <1>1, <1>3 DEF Newest
  <2>2. \A i \in 2 .. n + 1 : a[i] \in Nat BY <1>1, <1>3
  <2>3. /\ SubSeq(a, 2, n + 1) \in Seq(Nat) /\ Len(SubSeq(a, 2, n + 1)) = n
        /\ \A i \in 1 .. n : SubSeq(a, 2, n + 1)[i] = a[i + 1]
    BY <2>2, SubSeqProperties
  <2> QED BY <1>1, <1>3, <2>1, <2>3 DEF a
<1> QED BY <1>2, <1>3

\* The journals at first.
LEMMA JournalBegins == JournalInit => JournalInv
BY JournalBounds DEF JournalInit, JournalInv, EventsAreLast, ReceiptsAreLast, LeasesTyped, Worth

\* The event journal with an event more, whether or not the file is written.
LEMMA EventAppended ==
  ASSUME EventsAreLast
  PROVE  LET es == appendEvent(events, written + 1)
         IN /\ es \in Seq(Nat)
            /\ Len(es) = IF written + 1 < MaxEvents THEN written + 1 ELSE MaxEvents
            /\ \A i \in 1 .. Len(es) : es[i] = written + 1 - Len(es) + i
<1> DEFINE es == appendEvent(events, written + 1)
<1>1. /\ MaxEvents \in Nat \ {0} /\ written \in Nat /\ events \in Seq(Nat)
      /\ Len(events) <= MaxEvents /\ Len(events) \in Nat
      /\ Len(events) = IF written < MaxEvents THEN written ELSE MaxEvents
  BY JournalBounds DEF EventsAreLast
<1>2. /\ es \in Seq(Nat)
      /\ Len(events) < MaxEvents => /\ Len(es) = Len(events) + 1
                                    /\ \A i \in 1 .. Len(events) : es[i] = events[i]
      /\ Len(events) = MaxEvents => /\ Len(es) = MaxEvents
                                    /\ \A i \in 1 .. MaxEvents - 1 : es[i] = events[i + 1]
      /\ es[Len(es)] = written + 1
  BY <1>1, NewestOfAppended DEF appendEvent
<1> HIDE DEF es
<1>3. Len(es) = IF written + 1 < MaxEvents THEN written + 1 ELSE MaxEvents
  BY <1>1, <1>2 DEF EventsAreLast
<1>4. \A i \in 1 .. Len(events) : events[i] = written - Len(events) + i BY DEF EventsAreLast
<1>5. ASSUME NEW i \in 1 .. Len(es) PROVE es[i] = written + 1 - Len(es) + i
  <2>1. CASE i = Len(es) BY <1>1, <1>2, <1>3, <2>1
  <2>2. CASE i # Len(es) /\ Len(events) < MaxEvents
    <3>1. i \in 1 .. Len(events) /\ Len(events) = written /\ Len(es) = written + 1
      BY <1>1, <1>2, <2>2
    <3>2. es[i] = events[i] BY <1>2, <2>2, <3>1
    <3>3. events[i] = i BY <1>1, <1>4, <3>1
    <3> QED BY <1>1, <3>1, <3>2, <3>3
  <2>3. CASE i # Len(es) /\ Len(events) = MaxEvents
    <3>1. i \in 1 .. MaxEvents - 1 /\ i + 1 \in 1 .. Len(events) BY <1>1, <1>2, <2>3
    <3>2. es[i] = events[i + 1] BY <1>2, <2>3, <3>1
    <3>3. events[i + 1] = written - MaxEvents + (i + 1) BY <1>4, <2>3, <3>1
    <3>4. Len(es) = MaxEvents /\ MaxEvents \in Nat /\ written \in Nat /\ i \in Nat
      BY <1>1, <1>2, <2>3
    <3> QED BY <3>2, <3>3, <3>4
  <2> QED BY <1>1, <2>1, <2>2, <2>3
<1> QED BY <1>2, <1>3, <1>5 DEF es

\* What is in the event journal: the numbers above its lower end.
LEMMA InTheJournal ==
  ASSUME NEW w \in Nat, NEW es \in Seq(Nat), Len(es) <= w,
         \A i \in 1 .. Len(es) : es[i] = w - Len(es) + i,
         NEW e
  PROVE  Contains(es, e) <=> e \in 1 .. w /\ w - Len(es) < e
<1>1. ASSUME Contains(es, e) PROVE e \in 1 .. w /\ w - Len(es) < e
  BY <1>1 DEF Contains
<1>2. ASSUME e \in 1 .. w, w - Len(es) < e PROVE Contains(es, e)
  <2>1. PICK k \in 1 .. Len(es) : e = w - Len(es) + k
    <3>1. e - (w - Len(es)) \in 1 .. Len(es) /\ e = w - Len(es) + (e - (w - Len(es))) BY <1>2
    <3> QED BY <3>1
  <2>2. es[k] = e BY <2>1
  <2> QED BY <2>2 DEF Contains
<1> QED BY <1>1, <1>2

\* A transaction is accepted when each receipt it leaves is of an event it leaves.
LEMMA WhenAccepted ==
  ASSUME EventsAreLast, NEW rs \in Seq(Nat), Len(rs) <= MaxReceipts
  PROVE  Accepted(rs) <=>
           \A i \in 1 .. Len(rs) :
             /\ rs[i] \in 1 .. written + 1
             /\ written + 1 - (IF written + 1 < MaxEvents THEN written + 1 ELSE MaxEvents) < rs[i]
<1> DEFINE es == appendEvent(events, written + 1)
<1>1. /\ es \in Seq(Nat) /\ written + 1 \in Nat
      /\ Len(es) = IF written + 1 < MaxEvents THEN written + 1 ELSE MaxEvents
      /\ \A i \in 1 .. Len(es) : es[i] = written + 1 - Len(es) + i
      /\ appendEvent(digests, written + 1) = es
      /\ DOMAIN es = 1 .. Len(es) /\ Len(es) \in Nat /\ written \in Nat
  BY EventAppended DEF EventsAreLast
<1> HIDE DEF es
<1>2. Len(es) <= MaxEvents /\ Len(es) <= written + 1 BY <1>1, JournalBounds
<1>3. \A i, j \in DOMAIN es : es[i] = es[j] => i = j
  <2> SUFFICES ASSUME NEW i \in 1 .. Len(es), NEW j \in 1 .. Len(es), es[i] = es[j] PROVE i = j
    BY <1>1
  <2>1. es[i] = written + 1 - Len(es) + i /\ es[j] = written + 1 - Len(es) + j BY <1>1
  <2>2. written + 1 - Len(es) + i = written + 1 - Len(es) + j BY <2>1
  <2>3. written \in Nat /\ Len(es) \in Nat /\ i \in Nat /\ j \in Nat BY <1>1
  <2> QED BY <2>2, <2>3
<1>4. \A e : Contains(es, e) <=> e \in 1 .. written + 1 /\ written + 1 - Len(es) < e
  <2>1. PICK w \in Nat : w = written + 1 BY <1>1
  <2>2. Len(es) <= w BY <1>2, <2>1
  <2>4. \A i \in 1 .. Len(es) : es[i] = w - Len(es) + i
    <3> TAKE i \in 1 .. Len(es)
    <3>1. es[i] = written + 1 - Len(es) + i BY <1>1
    <3>2. written \in Nat /\ Len(es) \in Nat /\ i \in Nat BY <1>1
    <3>3. written + 1 - Len(es) + i = w - Len(es) + i BY <2>1, <3>2
    <3> QED BY <3>1, <3>3
  <2>3. \A e : Contains(es, e) <=> e \in 1 .. w /\ w - Len(es) < e
    BY <1>1, <2>2, <2>4, InTheJournal
  <2>5. Len(es) \in Nat /\ written \in Nat BY <1>1
  <2> QED BY <2>1, <2>3, <2>5
<1>5. DOMAIN rs = 1 .. Len(rs) OBVIOUS
<1>6. Accepted(rs) <=> \A i \in DOMAIN rs : Contains(es, rs[i])
  BY <1>1, <1>2, <1>3 DEF Accepted, Valid, es
<1> QED BY <1>1, <1>4, <1>5, <1>6

\* An event without a receipt.
LEMMA LogKeeps ==
  ASSUME EventsAreLast, ReceiptsAreLast, Log
  PROVE  EventsAreLast' /\ ReceiptsAreLast'
<1>1. /\ Accepted(receipts) /\ written' = written + 1 /\ receipts' = receipts
      /\ receipted' = receipted
      /\ events' = appendEvent(events, written + 1) /\ digests' = appendEvent(digests, written + 1)
  BY DEF Log, Write
<1>2. EventsAreLast' BY <1>1, EventAppended DEF EventsAreLast
<1>3. /\ receipts \in Seq(Nat) /\ Len(receipts) <= MaxReceipts /\ written \in Nat
  BY DEF EventsAreLast, ReceiptsAreLast
<1>4. \A i \in 1 .. Len(receipts) :
        receipts[i] \in 1 .. written' /\ written' - Len(events') < receipts[i]
  BY <1>1, <1>2, <1>3, WhenAccepted DEF EventsAreLast
<1>5. receipted' \subseteq 1 .. written' BY <1>1, <1>3 DEF ReceiptsAreLast
<1> QED BY <1>1, <1>2, <1>4, <1>5 DEF ReceiptsAreLast

\* The receipts with one more.
LEMMA ReceiptAppended ==
  ASSUME EventsAreLast, ReceiptsAreLast
  PROVE  /\ WithReceipt \in Seq(Nat) /\ Len(WithReceipt) <= MaxReceipts
         /\ \A i, j \in 1 .. Len(WithReceipt) : i < j => WithReceipt[i] < WithReceipt[j]
         /\ \A e \in receipted \cup {written + 1} :
              \/ \E i \in 1 .. Len(WithReceipt) : WithReceipt[i] = e
              \/ Len(WithReceipt) = MaxReceipts /\ e < WithReceipt[1]
         /\ Len(receipts) = MaxReceipts =>
              \A i \in 1 .. Len(WithReceipt) :
                WithReceipt[i] \in 1 .. written + 1 /\ written - Len(events) + 1 < WithReceipt[i]
<1> DEFINE rs == WithReceipt
<1>1. /\ MaxReceipts \in Nat \ {0} /\ written \in Nat /\ receipts \in Seq(Nat)
      /\ Len(receipts) <= MaxReceipts /\ Len(receipts) \in Nat /\ Len(events) \in Nat
  BY JournalBounds DEF EventsAreLast, ReceiptsAreLast
<1>2. /\ rs \in Seq(Nat)
      /\ Len(receipts) < MaxReceipts => /\ Len(rs) = Len(receipts) + 1
                                        /\ \A i \in 1 .. Len(receipts) : rs[i] = receipts[i]
      /\ Len(receipts) = MaxReceipts => /\ Len(rs) = MaxReceipts
                                        /\ \A i \in 1 .. MaxReceipts - 1 : rs[i] = receipts[i + 1]
      /\ rs[Len(rs)] = written + 1
  BY <1>1, NewestOfAppended DEF WithReceipt, appendReceipt
<1> HIDE DEF rs
<1>3. /\ \A i, j \in 1 .. Len(receipts) : i < j => receipts[i] < receipts[j]
      /\ \A i \in 1 .. Len(receipts) :
           receipts[i] \in 1 .. written /\ written - Len(events) < receipts[i]
      /\ \A e \in receipted :
           \/ \E i \in 1 .. Len(receipts) : receipts[i] = e
           \/ Len(receipts) = MaxReceipts /\ e < receipts[1]
      /\ receipted \subseteq 1 .. written
  BY DEF ReceiptsAreLast
<1>4. CASE Len(receipts) < MaxReceipts
  <2>1. \A i \in 1 .. Len(rs) : i = Len(rs) \/ i \in 1 .. Len(receipts) BY <1>1, <1>2, <1>4
  <2>2. \A i, j \in 1 .. Len(rs) : i < j => rs[i] < rs[j]
    <3> SUFFICES ASSUME NEW i \in 1 .. Len(rs), NEW j \in 1 .. Len(rs), i < j
                 PROVE  rs[i] < rs[j]
      OBVIOUS
    <3>1. i \in 1 .. Len(receipts) /\ rs[i] = receipts[i] BY <1>1, <1>2, <1>4, <2>1
    <3>2. CASE j = Len(rs) BY <1>1, <1>2, <1>3, <3>1, <3>2
    <3>3. CASE j # Len(rs)
      <4>1. j \in 1 .. Len(receipts) /\ rs[j] = receipts[j] BY <1>1, <1>2, <1>4, <2>1, <3>3
      <4> QED BY <1>3, <3>1, <4>1
    <3> QED BY <3>2, <3>3
  <2>3. ASSUME NEW e \in receipted \cup {written + 1} PROVE \E i \in 1 .. Len(rs) : rs[i] = e
    <3>1. CASE e = written + 1
      <4>1. Len(rs) \in 1 .. Len(rs) BY <1>1, <1>2, <1>4
      <4> QED BY <1>2, <3>1, <4>1
    <3>2. CASE e \in receipted
      <4>1. PICK i \in 1 .. Len(receipts) : receipts[i] = e BY <1>3, <1>4, <3>2
      <4>2. i \in 1 .. Len(rs) /\ rs[i] = e BY <1>1, <1>2, <1>4, <4>1
      <4> QED BY <4>2
    <3> QED BY <3>1, <3>2
  <2> QED BY <1>1, <1>2, <1>4, <2>2, <2>3 DEF rs
<1>5. CASE Len(receipts) = MaxReceipts
  <2>1. \A i \in 1 .. Len(rs) : i = Len(rs) \/ (i \in 1 .. MaxReceipts - 1 /\ i + 1 \in 1 .. Len(receipts))
    BY <1>1, <1>2, <1>5
  <2>2. \A i \in 1 .. Len(rs) : rs[i] \in 1 .. written + 1 /\ receipts[1] < rs[i]
    <3> TAKE i \in 1 .. Len(rs)
    <3>1. CASE i = Len(rs) BY <1>1, <1>2, <1>3, <1>5, <3>1
    <3>2. CASE i # Len(rs) BY <1>1, <1>2, <1>3, <1>5, <2>1, <3>2
    <3> QED BY <3>1, <3>2
  <2>3. \A i, j \in 1 .. Len(rs) : i < j => rs[i] < rs[j]
    <3> SUFFICES ASSUME NEW i \in 1 .. Len(rs), NEW j \in 1 .. Len(rs), i < j
                 PROVE  rs[i] < rs[j]
      OBVIOUS
    <3>1. i # Len(rs) BY <1>1, <1>2
    <3>2. rs[i] = receipts[i + 1] /\ i + 1 \in 1 .. Len(receipts) BY <1>2, <1>5, <2>1, <3>1
    <3>3. CASE j = Len(rs) BY <1>1, <1>2, <1>3, <3>2, <3>3
    <3>4. CASE j # Len(rs)
      <4>1. rs[j] = receipts[j + 1] /\ j + 1 \in 1 .. Len(receipts) BY <1>2, <1>5, <2>1, <3>4
      <4> QED BY <1>3, <3>2, <4>1
    <3> QED BY <3>3, <3>4
  <2>4. ASSUME NEW e \in receipted \cup {written + 1}
        PROVE  (\E i \in 1 .. Len(rs) : rs[i] = e) \/ e < rs[1]
    <3>1. CASE e = written + 1 BY <1>1, <1>2, <1>5, <3>1
    <3>2. CASE e \in receipted /\ e < receipts[1]
      BY <1>1, <1>2, <1>3, <1>5, <2>2, <3>2
    <3>3. ASSUME NEW k \in 1 .. Len(receipts), receipts[k] = e
          PROVE  (\E i \in 1 .. Len(rs) : rs[i] = e) \/ e < rs[1]
      <4>1. CASE k = 1 BY <1>1, <1>2, <1>3, <1>5, <2>2, <3>3, <4>1
      <4>2. CASE k # 1
        <5>1. k - 1 \in 1 .. MaxReceipts - 1 /\ k - 1 \in 1 .. Len(rs) BY <1>1, <1>2, <1>5, <4>2
        <5>2. rs[k - 1] = receipts[k] BY <1>1, <1>2, <1>5, <5>1
        <5> QED BY <3>3, <5>1, <5>2
      <4> QED BY <4>1, <4>2
    <3> QED BY <1>3, <3>1, <3>2, <3>3
  <2>5. \A i \in 1 .. Len(rs) : written - Len(events) + 1 < rs[i]
    BY <1>1, <1>2, <1>3, <1>5, <2>2
  <2> QED BY <1>1, <1>2, <1>5, <2>2, <2>3, <2>4, <2>5 DEF rs
<1> QED BY <1>1, <1>4, <1>5

\* An event with its receipt.
LEMMA LogReceiptKeeps ==
  ASSUME EventsAreLast, ReceiptsAreLast, LogReceipt
  PROVE  EventsAreLast' /\ ReceiptsAreLast'
<1>1. /\ Accepted(WithReceipt) /\ written' = written + 1 /\ receipts' = WithReceipt
      /\ receipted' = receipted \cup {written + 1}
      /\ events' = appendEvent(events, written + 1) /\ digests' = appendEvent(digests, written + 1)
  BY DEF LogReceipt, Write
<1>2. EventsAreLast' BY <1>1, EventAppended DEF EventsAreLast
<1>3. /\ WithReceipt \in Seq(Nat) /\ Len(WithReceipt) <= MaxReceipts /\ written \in Nat
      /\ \A i, j \in 1 .. Len(WithReceipt) : i < j => WithReceipt[i] < WithReceipt[j]
      /\ \A e \in receipted \cup {written + 1} :
           \/ \E i \in 1 .. Len(WithReceipt) : WithReceipt[i] = e
           \/ Len(WithReceipt) = MaxReceipts /\ e < WithReceipt[1]
  BY ReceiptAppended DEF EventsAreLast
<1> HIDE DEF WithReceipt
<1>4. \A i \in 1 .. Len(receipts') :
        receipts'[i] \in 1 .. written' /\ written' - Len(events') < receipts'[i]
  BY <1>1, <1>2, <1>3, WhenAccepted DEF EventsAreLast
<1>5. receipted' \subseteq 1 .. written' BY <1>1, <1>3 DEF ReceiptsAreLast
<1> QED BY <1>1, <1>2, <1>3, <1>4, <1>5 DEF ReceiptsAreLast

\* A step that leaves the journals alone.
LEMMA JournalsRest ==
  ASSUME EventsAreLast, ReceiptsAreLast, UNCHANGED <<events, digests, receipts, written, receipted>>
  PROVE  EventsAreLast' /\ ReceiptsAreLast'
BY DEF EventsAreLast, ReceiptsAreLast

\* Every call of the governor keeps the journals.
LEMMA JournalInvKept == JournalInv /\ [JournalNext]_journalVars => JournalInv'
<1> SUFFICES ASSUME JournalInv, [JournalNext]_journalVars PROVE JournalInv' OBVIOUS
<1>1. EventsAreLast /\ ReceiptsAreLast /\ LeasesTyped BY DEF JournalInv
<1>2. CASE UNCHANGED journalVars
  BY <1>1, <1>2, JournalsRest DEF journalVars, JournalInv, LeasesTyped
<1>3. ASSUME NEW p \in Profile,
             \/ Acquire(p) \/ ExternalUse(p) \/ Silent(p) \/ Heartbeat(p) \/ Transition(p)
             \/ Release(p) \/ Quarantine(p) \/ Recover(p) \/ ClaimLost(p) \/ Barrier(p)
      PROVE  JournalInv'
  <2>1. LeasesTyped'
    BY <1>1, <1>3 DEF LeasesTyped, Worth, Becomes, Acquire, ExternalUse, Silent, Heartbeat,
                      Transition, Release, Quarantine, Recover, ClaimLost, Barrier
  <2>2. Log \/ LogReceipt \/ UNCHANGED <<events, digests, receipts, written, receipted>>
    BY <1>3 DEF Quiet, Acquire, ExternalUse, Silent, Heartbeat, Transition, Release, Quarantine,
                Recover, ClaimLost, Barrier
  <2> QED BY <1>1, <2>1, <2>2, LogKeeps, LogReceiptKeeps, JournalsRest DEF JournalInv
<1> QED BY <1>2, <1>3 DEF JournalNext

\* The state file of such journals can be loaded, and an append to it is refused only
\* for a named event.
LEMMA JournalInvImplies == JournalInv => JournalsSafe
<1> SUFFICES ASSUME JournalInv PROVE JournalsSafe OBVIOUS
<1>1. /\ events \in Seq(Nat) /\ digests = events /\ written \in Nat
      /\ Len(events) = IF written < MaxEvents THEN written ELSE MaxEvents
      /\ \A i \in 1 .. Len(events) : events[i] = written - Len(events) + i
      /\ DOMAIN events = 1 .. Len(events) /\ DOMAIN receipts = 1 .. Len(receipts)
      /\ MaxEvents \in Nat \ {0} /\ MaxReceipts \in 1 .. MaxEvents
      /\ Len(events) \in Nat /\ Len(events) <= MaxEvents /\ Len(events) <= written
  BY JournalBounds DEF JournalInv, EventsAreLast, ReceiptsAreLast
<1>2. /\ receipts \in Seq(Nat) /\ Len(receipts) <= MaxReceipts /\ receipted \subseteq 1 .. written
      /\ \A i, j \in 1 .. Len(receipts) : i < j => receipts[i] < receipts[j]
      /\ \A i \in 1 .. Len(receipts) :
           receipts[i] \in 1 .. written /\ written - Len(events) < receipts[i]
      /\ \A e \in receipted :
           \/ \E i \in 1 .. Len(receipts) : receipts[i] = e
           \/ Len(receipts) = MaxReceipts /\ e < receipts[1]
  BY DEF JournalInv, ReceiptsAreLast
<1>3. \A e : Contains(events, e) <=> e \in 1 .. written /\ written - Len(events) < e
  BY <1>1, InTheJournal
<1>4. JournalTypeOK
  <2>1. events \in Seq(1 .. written)
    <3>1. ASSUME NEW i \in 1 .. Len(events) PROVE events[i] \in 1 .. written
      <4>1. events[i] = written - Len(events) + i BY <1>1
      <4>2. written - Len(events) + i \in 1 .. written BY <1>1
      <4> QED BY <4>1, <4>2
    <3> QED BY <1>1, <3>1
  <2>2. receipts \in Seq(1 .. written)
    <3>1. \A i \in 1 .. Len(receipts) : receipts[i] \in 1 .. written BY <1>2
    <3>2. receipts \in Seq(Nat) /\ written \in Nat BY <1>1, <1>2
    <3> QED BY <3>1, <3>2
  <2>3. Valid(events, digests, receipts)
    <3>1. \A i, j \in DOMAIN events : events[i] = events[j] => i = j
      <4> SUFFICES ASSUME NEW i \in 1 .. Len(events), NEW j \in 1 .. Len(events),
                          events[i] = events[j]
                   PROVE  i = j
        BY <1>1
      <4>1. /\ events[i] = written - Len(events) + i
            /\ events[j] = written - Len(events) + j
        BY <1>1
      <4>2. written - Len(events) + i = written - Len(events) + j BY <4>1
      <4>3. written \in Nat /\ Len(events) \in Nat /\ i \in Nat /\ j \in Nat BY <1>1
      <4> QED BY <4>2, <4>3
    <3>2. \A i \in DOMAIN receipts : Contains(events, receipts[i])
      BY <1>1, <1>2, <1>3
    <3> QED BY <1>1, <1>2, <3>1, <3>2 DEF Valid
  <2> QED BY <1>1, <1>2, <2>1, <2>2, <2>3 DEF JournalTypeOK, JournalInv, LeasesTyped
<1>5. RecentHistoryKept
  <2>1. \A e : e \in ToSet(events) <=> Contains(events, e) BY <1>1 DEF ToSet, Contains
  <2>2. ToSet(events) = {e \in 1 .. written : e + MaxEvents > written} BY <1>1, <1>3, <2>1
  <2>3. Increasing(events)
    <3> SUFFICES ASSUME NEW i \in 1 .. Len(events), NEW j \in 1 .. Len(events), i < j
                 PROVE  events[i] < events[j]
      BY <1>1 DEF Increasing
    <3>1. events[i] = written - Len(events) + i /\ events[j] = written - Len(events) + j
      BY <1>1
    <3>2. written \in Nat /\ Len(events) \in Nat /\ i \in Nat /\ j \in Nat BY <1>1
    <3> QED BY <3>1, <3>2
  <2>4. ASSUME NEW e \in receipted \ ToSet(receipts)
        PROVE  Len(receipts) = MaxReceipts /\ e < Head(receipts)
    <3>1. ~\E i \in 1 .. Len(receipts) : receipts[i] = e BY <1>1 DEF ToSet
    <3>2. Len(receipts) = MaxReceipts /\ e < receipts[1] BY <1>2, <3>1
    <3>3. Head(receipts) = receipts[1] BY <1>1, <1>2, <3>2
    <3> QED BY <3>2, <3>3
  <2>5. Increasing(receipts) BY <1>1, <1>2 DEF Increasing
  <2> QED BY <2>2, <2>3, <2>4, <2>5 DEF RecentHistoryKept
<1>6. RefusedOnlyForNamedEvent
  <2> SUFFICES ASSUME ~LogAccepted
               PROVE  Len(events) = MaxEvents /\ Contains(receipts, Head(events))
    BY DEF RefusedOnlyForNamedEvent
  <2>1. PICK i \in 1 .. Len(receipts) :
          ~(/\ receipts[i] \in 1 .. written + 1
            /\ written + 1 - (IF written + 1 < MaxEvents THEN written + 1 ELSE MaxEvents)
                 < receipts[i])
    BY <1>2, WhenAccepted DEF LogAccepted, JournalInv
  <2>2. receipts[i] \in 1 .. written /\ written - Len(events) < receipts[i] BY <1>2
  <2>3. written + 1 >= MaxEvents
    <3> SUFFICES ASSUME written + 1 < MaxEvents PROVE FALSE BY <1>1
    <3>1. ~(receipts[i] \in 1 .. written + 1 /\ 0 < receipts[i]) BY <1>1, <2>1
    <3> QED BY <1>1, <2>2, <3>1
  <2>4. ~(written + 1 - MaxEvents < receipts[i]) BY <1>1, <2>1, <2>2, <2>3
  <2>5. Len(events) = MaxEvents /\ receipts[i] = written - MaxEvents + 1
    <3>1. Len(events) = MaxEvents
      <4> SUFFICES ASSUME written < MaxEvents PROVE FALSE BY <1>1
      <4> QED BY <1>1, <2>2, <2>3, <2>4
    <3>2. receipts[i] \in Nat /\ written \in Nat /\ MaxEvents \in Nat BY <1>1, <2>2
    <3> QED BY <2>2, <2>4, <3>1, <3>2
  <2>6. Head(events) = receipts[i]
    <3>1. events[1] = written - MaxEvents + 1 /\ Head(events) = events[1] BY <1>1, <2>5
    <3> QED BY <2>5, <3>1
  <2> QED BY <2>5, <2>6 DEF Contains
<1>7. FullReceiptsDoNotBlock
  <2> SUFFICES ASSUME Len(receipts) = MaxReceipts PROVE Accepted(WithReceipt)
    BY DEF FullReceiptsDoNotBlock, LogReceiptAccepted
  <2>1. /\ WithReceipt \in Seq(Nat) /\ Len(WithReceipt) <= MaxReceipts
        /\ \A i \in 1 .. Len(WithReceipt) :
             WithReceipt[i] \in 1 .. written + 1 /\ written - Len(events) + 1 < WithReceipt[i]
    BY ReceiptAppended DEF JournalInv
  <2>2. \A i \in 1 .. Len(WithReceipt) :
          /\ WithReceipt[i] \in 1 .. written + 1
          /\ written + 1 - (IF written + 1 < MaxEvents THEN written + 1 ELSE MaxEvents)
               < WithReceipt[i]
    BY <1>1, <2>1
  <2> QED BY <2>1, <2>2, WhenAccepted DEF JournalInv
<1> QED BY <1>4, <1>5, <1>6, <1>7 DEF JournalsSafe

\* The journals of the state file (events.mjs, recovery.mjs and validateState), for any
\* bounds, any number of profiles and any sequence of calls: complete as far back as the
\* bounds reach, loadable, and closed to an append only while a receipt names the event
\* that would have to go.
THEOREM JournalsAreSafe == JournalSpec => []JournalsSafe
<1>1. JournalInit => JournalInv BY JournalBegins
<1>2. JournalInv /\ [JournalNext]_journalVars => JournalInv' BY JournalInvKept
<1>3. JournalInv => JournalsSafe BY JournalInvImplies
<1> QED BY <1>1, <1>2, <1>3, PTL DEF JournalSpec

----------------------------------------------------------------------------
(* The profile pool *)

USE PoolAssumption, DistinctAssumption

----------------------------------------------------------------------------
(* The invariant *)

AnyJob == UNION {Jobs[p] : p \in Proc}

Call ==
  [at : Critical \cup {"new", "mkdir", "stat", "steal", "done", "dead"},
   job : AnyJob \cup {None}, since : Nat, deadline : Nat, stole : BOOLEAN,
   leases : Leases \cup {None}, got : Answers \cup {None}, lease : Lease \cup {None}]

Text == Leases \cup {Torn}

PoolType ==
  /\ PoolTypeOK
  /\ calls \in [Proc -> Call] /\ promised \in [Proc -> Lease \cup {None}]
  /\ file \in Text /\ tmp \in Text \cup {None}

\* A call that works has passed the checks it began with.  What it has made of the
\* file is at hand until it has been written, into the file it then has open.
CallFits(p) ==
  LET c == calls[p]
  IN /\ c.at \in Critical \cup {"mkdir", "stat", "steal"} =>
          /\ c.job \in AnyJob /\ (c.job.op = "acquire" => ConfigFits)
          /\ c.job.of # None => calls[c.job.of].at = "done"
     /\ c.at \in {"open", "write"} => c.leases # None
     /\ c.at \in {"write", "rename"} => fd[p] # "none"
     /\ c.at \in {"open", "write", "rename", "unlock"} =>
          c.got # None /\ (c.got = "granted" => c.lease # None)

\* Leases of which each belongs to the call that created it, and that exclude each
\* other by alias.  The config has been checked before the first one is written.
Exclusive(leases) ==
  /\ \A i \in Proc : leases[i] # None => leases[i].id = i /\ ConfigFits
  /\ \A i, j \in Proc :
       i # j /\ Live(leases[i]) /\ Live(leases[j]) /\ leases[i].alias = leases[j].alias =>
         leases[i].tab = "shared" /\ leases[j].tab = "shared"

\* They have this lease, for this time at least.
Has(leases, l) ==
  LET m == leases[l.id]
  IN m # None /\ m.alias = l.alias /\ m.tab = l.tab /\ m.until >= l.until

Covers(leases) == \A p \in Proc : Live(promised[p]) => Has(leases, promised[p])

Kept(leases) == leases \in Leases /\ Exclusive(leases) /\ Covers(leases)

\* A call that is yet to create its lease is not the creator of one in the file.
Created(leases) ==
  \A i \in Proc : leases[i] # None =>
    \/ calls[i].at \in {"done", "dead"}
    \/ calls[i].at = "unlock" /\ calls[i].got = "granted"

CreatedBut(p, leases) == \A i \in Proc \ {p} : leases[i] # None => calls[i].at \in {"done", "dead"}

\* What the one call that works has at hand.
Pending(p, leases) ==
  /\ Kept(leases) /\ CreatedBut(p, leases)
  /\ calls[p].got = "granted" => leases[calls[p].lease.id] = calls[p].lease
  /\ leases[p] # None => calls[p].got = "granted"

WorksAlone(p) ==
  LET c == calls[p]
  IN /\ lock # None
     /\ \A q \in Proc \ {p} : calls[q].at \notin Critical /\ fd[q] = "none"
     /\ c.at \in {"open", "write"} => Pending(p, c.leases)
     /\ c.at = "write" => fd[p] = "tmp" /\ tmp = Torn
     /\ c.at = "rename" => fd[p] = "tmp" /\ Pending(p, tmp)
     /\ c.at = "unlock" /\ c.got = "granted" => file[c.lease.id] = c.lease

Calm ==
  /\ Kept(file) /\ Created(file)
  /\ \A p \in Proc : calls[p].at \in Critical => WorksAlone(p)
  /\ \A p \in Proc : fd[p] # "none" => calls[p].at \in Critical

PoolInv ==
  /\ PoolType
  /\ \A p \in Proc : CallFits(p) /\ (promised[p] # None => promised[p].id = p)
  /\ ~misjudged => Calm

----------------------------------------------------------------------------
(* Types *)

\* The types of what a call remembers.
LEMMA Fields ==
  ASSUME NEW c \in Call
  PROVE  /\ c.at \in Critical \cup {"new", "mkdir", "stat", "steal", "done", "dead"}
         /\ c.job \in AnyJob \cup {None} /\ c.since \in Nat /\ c.deadline \in Nat
         /\ c.stole \in BOOLEAN /\ c.leases \in Leases \cup {None}
         /\ c.got \in Answers \cup {None} /\ c.lease \in Lease \cup {None}
BY DEF Call

\* A call that has not begun.
LEMMA FreshType == Fresh \in Call
BY DEF Fresh, Call

\* The calls that a step of one call leaves.
LEMMA OneCall ==
  ASSUME calls \in [Proc -> Call], NEW p \in Proc, NEW c \in Call,
         calls' = [calls EXCEPT ![p] = c]
  PROVE  /\ calls' \in [Proc -> Call] /\ calls'[p] = c
         /\ \A q \in Proc \ {p} : calls'[q] = calls[q]
OBVIOUS

LEMMA GoesTo ==
  ASSUME calls \in [Proc -> Call], NEW p \in Proc,
         NEW at \in Critical \cup {"new", "mkdir", "stat", "steal", "done", "dead"}, Goes(p, at)
  PROVE  /\ calls' \in [Proc -> Call] /\ calls'[p] = [calls[p] EXCEPT !.at = at]
         /\ \A q \in Proc \ {p} : calls'[q] = calls[q]
<1>1. [calls[p] EXCEPT !.at = at] \in Call
  BY DEF Call
<1> QED BY <1>1 DEF Goes

\* A call that ends has an answer, and the others are as they were.
LEMMA EndsWith ==
  ASSUME calls \in [Proc -> Call], NEW p \in Proc, NEW got \in Answers, Ends(p, got)
  PROVE  /\ calls' \in [Proc -> Call] /\ calls'[p].at = "done" /\ calls'[p].got # None
         /\ \A q \in Proc \ {p} : calls'[q] = calls[q]
<1>1. [Fresh EXCEPT !.at = "done", !.got = got] \in Call
  BY DEF Fresh, Call
<1>2. calls' = [calls EXCEPT ![p] = [Fresh EXCEPT !.at = "done", !.got = got]]
  BY DEF Ends
<1>3. calls'[p] = [Fresh EXCEPT !.at = "done", !.got = got]
  BY <1>2
<1>4. calls'[p].at = "done" /\ calls'[p].got = got
  BY <1>3 DEF Fresh
<1>5. got # None
  OBVIOUS
<1>6. \A q \in Proc \ {p} : calls'[q] = calls[q]
  BY <1>2
<1>7. calls' \in [Proc -> Call]
  BY <1>1, <1>2
<1> QED BY <1>4, <1>5, <1>6, <1>7

\* A call that asks for the lock.
LEMMA LockingType ==
  ASSUME NEW p \in Proc, NEW job \in AnyJob, NEW since \in Nat, clock \in Nat
  PROVE  /\ Locking(p, job, since) \in Call
         /\ Locking(p, job, since).at = "mkdir" /\ Locking(p, job, since).job = job
<1>1. clock + LOCK_RETRY_MS \in Nat
  OBVIOUS
<1> QED BY <1>1 DEF Locking, Call

\* The types of what a call is asked to do.
LEMMA JobType ==
  ASSUME NEW job \in AnyJob
  PROVE  /\ job.op \in {"acquire", "renew", "release", "reclaim", "list"} /\ job.alias \in Alias
         /\ job.tab \in Tabs /\ job.key \in Keys /\ job.ttl \in Nat /\ job.timeout \in Nat
         /\ job.yes \in BOOLEAN /\ job.of \in Proc \cup {None}
         /\ job.op \in {"renew", "release"} => job.of \in Proc
BY DEF AnyJob, Keys

\* The types of a lease.
LEMMA LeaseFields ==
  ASSUME NEW l \in Lease
  PROVE  /\ l.id \in Proc /\ l.alias \in Alias /\ l.tab \in Tabs /\ l.key \in Keys
         /\ l.until \in Nat /\ l # None
BY DEF Lease

\* A lease that is renewed is the same but for its end.
LEMMA LongerLease ==
  ASSUME NEW l \in Lease, NEW until \in Nat
  PROVE  /\ [l EXCEPT !.until = until] \in Lease
         /\ [l EXCEPT !.until = until].until = until /\ [l EXCEPT !.until = until].id = l.id
         /\ [l EXCEPT !.until = until].alias = l.alias /\ [l EXCEPT !.until = until].tab = l.tab
BY DEF Lease

----------------------------------------------------------------------------
(* What a call makes of the leases it has read *)

\* sweepExpired leaves the leases that have not ended, and no other.
LEMMA Swept ==
  ASSUME NEW F \in Leases
  PROVE  /\ sweepExpired(F) \in Leases
         /\ \A i \in Proc : sweepExpired(F)[i] = IF Live(F[i]) THEN F[i] ELSE None
BY DEF sweepExpired, Leases

\* What is written of the leases F by call p.
Written(p, F, out) ==
  /\ out.leases \in Leases \cup {None} /\ out.got \in Answers /\ out.lease \in Lease \cup {None}
  /\ out.got = "granted" => out.leases # None /\ out.lease # None
  /\ out.leases # None =>
       /\ Exclusive(out.leases)
       /\ \A i \in Proc \ {p} : out.leases[i] # None => F[i] # None
       /\ out.got = "granted" => out.leases[out.lease.id] = out.lease
       /\ out.leases[p] # None => out.got = "granted"

\* What a call under the lock may find.
Readable(p, F) ==
  /\ F \in Leases /\ Exclusive(F) /\ F[p] = None /\ clock \in Nat

\* acquire writes what it may.
LEMMA AcquireWrites ==
  ASSUME NEW p \in Proc, NEW job \in AnyJob, NEW F, Readable(p, F), ConfigFits
  PROVE  Written(p, F, acquireLease(p, job, F))
<1> DEFINE reused == {i \in HeldOn(job.alias, F) : job.key # None /\ F[i].key = job.key}
           given  == [id |-> p, alias |-> job.alias, tab |-> job.tab, key |-> job.key,
                      until |-> clock + job.ttl]
           S      == sweepExpired(F)
           out    == acquireLease(p, job, F)
<1> SUFFICES Written(p, F, out)
  OBVIOUS
<1>1. S \in Leases /\ \A i \in Proc : S[i] = IF Live(F[i]) THEN F[i] ELSE None
  BY Swept DEF Readable
<1>2. given \in Lease /\ given # None /\ given.id = p /\ given.alias = job.alias
      /\ given.tab = job.tab /\ given.until = clock + job.ttl
  BY JobType DEF Lease, Readable
<1>3. \A i \in Proc : S[i] \in Lease \cup {None} /\ F[i] \in Lease \cup {None}
  BY <1>1 DEF Readable, Leases
<1>4. Exclusive(S)
  BY <1>1 DEF Exclusive, Readable, Live
<1>5. CASE reused # {}
  <2> DEFINE r == CHOOSE i \in reused : TRUE
  <2>1. r \in Proc /\ Live(F[r])
    BY <1>5 DEF HeldOn
  <2>2. out = [leases |-> S, got |-> "granted", lease |-> F[r]]
    BY <1>5 DEF acquireLease
  <2>3. F[r] \in Lease /\ F[r].id = r /\ S[r] = F[r] /\ F[r] # None
    BY <1>1, <1>3, <2>1 DEF Live, Readable, Exclusive
  <2> HIDE DEF r, S, reused, out
  <2>4. out.leases = S /\ out.got = "granted" /\ out.lease = F[r]
    BY <2>2
  <2>5. S # None
    BY <1>1
  <2>6. \A i \in Proc \ {p} : S[i] # None => F[i] # None
    BY <1>1
  <2> QED BY <1>1, <1>4, <2>1, <2>3, <2>4, <2>5, <2>6 DEF Written, Answers
<1>6. CASE reused = {} /\ Conflicts(job, F)
  <2>1. out = [leases |-> None, got |-> "CONFLICT", lease |-> None]
    BY <1>6 DEF acquireLease
  <2> HIDE DEF out, S, reused, given
  <2>2. out.leases = None /\ out.got = "CONFLICT" /\ out.lease = None
    BY <2>1
  <2> QED BY <2>2 DEF Written, Answers
<1>7. CASE reused = {} /\ ~Conflicts(job, F)
  <2> DEFINE T == [S EXCEPT ![p] = given]
  <2>1. out = [leases |-> T, got |-> "granted", lease |-> given]
    BY <1>7 DEF acquireLease
  <2>2. T \in Leases /\ T[p] = given /\ \A i \in Proc \ {p} : T[i] = S[i]
    BY <1>1, <1>2 DEF Leases
  <2>3. ASSUME NEW i \in Proc, i # p, Live(S[i]), S[i].alias = job.alias
        PROVE  S[i].tab = "shared" /\ job.tab = "shared"
    <3>1. S[i] = F[i] /\ Live(F[i]) /\ F[i] \in Lease
      BY <1>1, <1>3, <2>3 DEF Live
    <3>2. i \in HeldOn(job.alias, F)
      BY <2>3, <3>1 DEF HeldOn
    <3>3. job.tab # "own" /\ F[i].tab # "own"
      BY <1>7, <3>2 DEF Conflicts
    <3> QED BY <3>1, <3>3, JobType, LeaseFields DEF Tabs
  <2>4. Exclusive(T)
    <3> HIDE DEF T, S, given
    <3>1. \A i \in Proc : T[i] # None => T[i].id = i /\ ConfigFits
      BY <1>2, <1>4, <2>2 DEF Exclusive
    <3>2. ASSUME NEW i \in Proc, NEW j \in Proc, i # j, Live(T[i]), Live(T[j]),
                 T[i].alias = T[j].alias
          PROVE  T[i].tab = "shared" /\ T[j].tab = "shared"
      <4>1. CASE i # p /\ j # p
        BY <1>4, <2>2, <3>2, <4>1 DEF Exclusive
      <4>2. CASE i = p
        <5>1. j # p /\ T[j] = S[j] /\ T[i] = given
          BY <2>2, <3>2, <4>2
        <5> QED BY <1>2, <2>3, <3>2, <5>1
      <4>3. CASE j = p
        <5>1. i # p /\ T[i] = S[i] /\ T[j] = given
          BY <2>2, <3>2, <4>3
        <5> QED BY <1>2, <2>3, <3>2, <5>1
      <4> QED BY <4>1, <4>2, <4>3
    <3> QED BY <3>1, <3>2 DEF Exclusive
  <2>5. \A i \in Proc \ {p} : T[i] # None => F[i] # None
    BY <1>1, <2>2
  <2> HIDE DEF T, S, given, out
  <2>6. out.leases = T /\ out.got = "granted" /\ out.lease = given /\ T # None
    BY <2>1, <2>2
  <2> QED BY <1>2, <2>2, <2>4, <2>5, <2>6 DEF Written, Answers
<1> QED BY <1>5, <1>6, <1>7

\* Leases that are only dropped or left leave the others exclusive.
LEMMA FewerExclusive ==
  ASSUME NEW F, NEW S, Exclusive(F), \A i \in Proc : S[i] = None \/ S[i] = F[i]
  PROVE  Exclusive(S)
BY DEF Exclusive, Live

\* renew writes what it may.
LEMMA RenewWrites ==
  ASSUME NEW p \in Proc, NEW job \in AnyJob, NEW F, Readable(p, F), job.op = "renew"
  PROVE  Written(p, F, renewLease(job, F))
<1> DEFINE longer == [F[job.of] EXCEPT !.until = clock + job.ttl]
           S      == sweepExpired(F)
           T      == [S EXCEPT ![job.of] = longer]
           out    == renewLease(job, F)
<1> SUFFICES Written(p, F, out)
  OBVIOUS
<1>1. S \in Leases /\ \A i \in Proc : S[i] = IF Live(F[i]) THEN F[i] ELSE None
  BY Swept DEF Readable
<1>2. job.of \in Proc /\ clock + job.ttl \in Nat
  BY JobType DEF Readable
<1>3. CASE ~Live(F[job.of])
  <2>1. out = [leases |-> None, got |-> "LEASE_NOT_FOUND", lease |-> None]
    BY <1>3 DEF renewLease
  <2> HIDE DEF out, S, longer, T
  <2>2. out.leases = None /\ out.got = "LEASE_NOT_FOUND" /\ out.lease = None
    BY <2>1
  <2> QED BY <2>2 DEF Written, Answers
<1>4. CASE Live(F[job.of])
  <2>1. out = [leases |-> T, got |-> "granted", lease |-> longer]
    BY <1>4 DEF renewLease
  <2>2. F[job.of] \in Lease /\ F[job.of] # None /\ F[job.of].id = job.of
    BY <1>2, <1>4 DEF Live, Readable, Leases, Exclusive
  <2>3. longer \in Lease /\ longer.id = job.of /\ longer.alias = F[job.of].alias
        /\ longer.tab = F[job.of].tab /\ longer # None
    BY <1>2, <2>2, LongerLease, LeaseFields
  <2>4. T \in Leases /\ T[job.of] = longer /\ \A i \in Proc \ {job.of} : T[i] = S[i]
    BY <1>1, <1>2, <2>3 DEF Leases
  <2>5. \A i \in Proc : T[i] # None => F[i] # None
    BY <1>1, <2>2, <2>4
  <2> HIDE DEF out, S, longer, T
  <2>6. \A i \in Proc : T[i] # None => T[i].id = i /\ ConfigFits
    BY <1>1, <1>2, <2>2, <2>3, <2>4 DEF Readable, Exclusive
  <2>7. \A i \in Proc : Live(T[i]) =>
          Live(F[i]) /\ T[i].alias = F[i].alias /\ T[i].tab = F[i].tab
    BY <1>1, <1>4, <2>3, <2>4 DEF Live
  <2>8. Exclusive(T)
    BY <2>6, <2>7 DEF Readable, Exclusive
  <2>9. out.leases = T /\ out.got = "granted" /\ out.lease = longer /\ T # None
    BY <2>1, <2>4
  <2> QED BY <2>3, <2>4, <2>5, <2>8, <2>9 DEF Written, Answers
<1> QED BY <1>3, <1>4

\* The other commands write leases they have read, or none at all.
LEMMA FewerWritten ==
  ASSUME NEW p \in Proc, NEW F, Readable(p, F), NEW out,
         out.got \in Answers \ {"granted"}, out.lease = None,
         out.leases \in Leases \cup {None},
         out.leases # None => \A i \in Proc : out.leases[i] = None \/ out.leases[i] = F[i]
  PROVE  Written(p, F, out)
BY FewerExclusive DEF Written, Readable

\* What any command makes of the leases it has read may be written.
LEMMA OutcomeWrites ==
  ASSUME NEW p \in Proc, NEW job \in AnyJob, NEW F, Readable(p, F),
         job.op = "acquire" => ConfigFits
  PROVE  Written(p, F, Outcome(p, job, F))
<1> DEFINE S == sweepExpired(F)
<1>1. S \in Leases /\ \A i \in Proc : S[i] = None \/ S[i] = F[i]
  BY Swept DEF Readable
<1>2. CASE job.op = "acquire"
  BY <1>2, AcquireWrites DEF Outcome
<1>3. CASE job.op = "renew"
  BY <1>3, RenewWrites DEF Outcome
<1>4. CASE job.op = "release"
  <2> DEFINE T == [S EXCEPT ![job.of] = None]
             out == releaseLease(job, F)
  <2>1. T \in Leases /\ \A i \in Proc : T[i] = None \/ T[i] = F[i]
    BY <1>1 DEF Leases
  <2>2. out.leases = T /\ out.got = "ok" /\ out.lease = None
    BY DEF releaseLease
  <2> HIDE DEF T, out
  <2>3. Written(p, F, out)
    BY <2>1, <2>2, FewerWritten DEF Answers
  <2> QED BY <1>4, <2>3 DEF Outcome, out
<1>5. CASE job.op = "reclaim"
  <2> DEFINE held == HeldOn(job.alias, F)
             T == [i \in Proc |-> IF i \in held THEN None ELSE S[i]]
             out == reclaimAlias(job, F)
  <2>1. T \in Leases /\ \A i \in Proc : T[i] = None \/ T[i] = F[i]
    <3> HIDE DEF S, held
    <3> QED BY <1>1 DEF Leases
  <2>2. CASE held # {} /\ ~job.yes
    <3>1. out.leases = None /\ out.got = "RECLAIM_CONFIRMATION_REQUIRED" /\ out.lease = None
      BY <2>2 DEF reclaimAlias
    <3> HIDE DEF T, out, held
    <3>2. Written(p, F, out)
      BY <3>1, FewerWritten DEF Answers
    <3> QED BY <1>5, <3>2 DEF Outcome, out
  <2>3. CASE ~(held # {} /\ ~job.yes)
    <3>1. out.leases = T /\ out.got = "ok" /\ out.lease = None
      BY <2>3 DEF reclaimAlias
    <3> HIDE DEF T, out, held
    <3>2. Written(p, F, out)
      BY <2>1, <3>1, FewerWritten DEF Answers
    <3> QED BY <1>5, <3>2 DEF Outcome, out
  <2> QED BY <2>2, <2>3
<1>6. CASE job.op = "list"
  <2> DEFINE out == List(F)
  <2>1. out.leases \in {None, S} /\ out.got = "ok" /\ out.lease = None
    BY DEF List
  <2> HIDE DEF out, S
  <2>2. Written(p, F, out)
    BY <1>1, <2>1, FewerWritten DEF Answers
  <2> QED BY <1>6, <2>2 DEF Outcome, out
<1> QED BY <1>2, <1>3, <1>4, <1>5, <1>6, JobType

\* Whatever the file holds, the outcome is one.
Typed(out) ==
  /\ out.leases \in Leases \cup {None} /\ out.got \in Answers /\ out.lease \in Lease \cup {None}
  /\ out.got = "granted" => out.leases # None /\ out.lease # None

\* The types of that.
LEMMA OutcomeTypes ==
  ASSUME NEW p \in Proc, NEW job \in AnyJob, NEW F \in Leases, clock \in Nat
  PROVE  Typed(Outcome(p, job, F))
<1> DEFINE S == sweepExpired(F)
<1>1. S \in Leases /\ S # None
  BY Swept
<1>2. clock + job.ttl \in Nat /\ \A i \in Proc : F[i] \in Lease \cup {None}
  BY JobType DEF Leases
<1>3. ASSUME NEW out, out.leases \in Leases \cup {None}, out.got \in Answers \ {"granted"},
             out.lease = None
      PROVE  Typed(out)
  BY <1>3 DEF Typed
<1>4. ASSUME NEW out, out.leases \in Leases, out.got = "granted", out.lease \in Lease
      PROVE  Typed(out)
  BY <1>4 DEF Typed, Answers
<1>5. CASE job.op = "acquire"
  <2> DEFINE reused == {i \in HeldOn(job.alias, F) : job.key # None /\ F[i].key = job.key}
             given  == [id |-> p, alias |-> job.alias, tab |-> job.tab, key |-> job.key,
                        until |-> clock + job.ttl]
             out    == acquireLease(p, job, F)
  <2>1. given \in Lease
    BY <1>2, JobType DEF Lease
  <2>2. CASE reused # {}
    <3> DEFINE r == CHOOSE i \in reused : TRUE
    <3>1. r \in Proc /\ Live(F[r])
      BY <2>2 DEF HeldOn
    <3>2. out = [leases |-> S, got |-> "granted", lease |-> F[r]]
      BY <2>2 DEF acquireLease
    <3> HIDE DEF r, S, out, reused
    <3>3. F[r] \in Lease
      BY <1>2, <3>1 DEF Live
    <3>4. Typed(out)
      BY <1>1, <1>4, <3>2, <3>3
    <3> QED BY <1>5, <3>4 DEF Outcome, out
  <2>3. CASE reused = {} /\ Conflicts(job, F)
    <3>1. out = [leases |-> None, got |-> "CONFLICT", lease |-> None]
      BY <2>3 DEF acquireLease
    <3> HIDE DEF S, out, reused, given
    <3>2. Typed(out)
      BY <1>3, <3>1 DEF Answers
    <3> QED BY <1>5, <3>2 DEF Outcome, out
  <2>4. CASE reused = {} /\ ~Conflicts(job, F)
    <3>1. out = [leases |-> [S EXCEPT ![p] = given], got |-> "granted", lease |-> given]
      BY <2>4 DEF acquireLease
    <3> HIDE DEF S, out, reused, given
    <3>2. [S EXCEPT ![p] = given] \in Leases
      BY <1>1, <2>1 DEF Leases
    <3>3. Typed(out)
      BY <1>4, <2>1, <3>1, <3>2
    <3> QED BY <1>5, <3>3 DEF Outcome, out
  <2> QED BY <2>2, <2>3, <2>4
<1>6. CASE job.op = "renew"
  <2> DEFINE longer == [F[job.of] EXCEPT !.until = clock + job.ttl]
             out    == renewLease(job, F)
  <2>1. job.of \in Proc
    BY <1>6, JobType
  <2>2. CASE ~Live(F[job.of])
    <3>1. out = [leases |-> None, got |-> "LEASE_NOT_FOUND", lease |-> None]
      BY <2>2 DEF renewLease
    <3> HIDE DEF out
    <3>2. Typed(out)
      BY <1>3, <3>1 DEF Answers
    <3> QED BY <1>6, <3>2 DEF Outcome, out
  <2>3. CASE Live(F[job.of])
    <3>1. out = [leases |-> [S EXCEPT ![job.of] = longer], got |-> "granted", lease |-> longer]
      BY <2>3 DEF renewLease
    <3>2. F[job.of] \in Lease
      BY <1>2, <2>1, <2>3 DEF Live
    <3>3. longer \in Lease
      BY <1>2, <3>2, LongerLease
    <3> HIDE DEF out, S, longer
    <3>4. [S EXCEPT ![job.of] = longer] \in Leases
      BY <1>1, <3>3 DEF Leases
    <3>5. Typed(out)
      BY <1>4, <3>1, <3>3, <3>4
    <3> QED BY <1>6, <3>5 DEF Outcome, out
  <2> QED BY <2>2, <2>3
<1>7. CASE job.op = "release"
  <2> DEFINE out == releaseLease(job, F)
  <2>1. out = [leases |-> [S EXCEPT ![job.of] = None], got |-> "ok", lease |-> None]
    BY DEF releaseLease
  <2> HIDE DEF out, S
  <2>2. [S EXCEPT ![job.of] = None] \in Leases
    BY <1>1 DEF Leases
  <2>3. Typed(out)
    BY <1>3, <2>1, <2>2 DEF Answers
  <2> QED BY <1>7, <2>3 DEF Outcome, out
<1>8. CASE job.op = "reclaim"
  <2> DEFINE held == HeldOn(job.alias, F)
             T    == [i \in Proc |-> IF i \in held THEN None ELSE S[i]]
             out  == reclaimAlias(job, F)
  <2>1. T \in Leases
    <3> HIDE DEF held, S
    <3> QED BY <1>1 DEF Leases
  <2>2. \/ out = [leases |-> None, got |-> "RECLAIM_CONFIRMATION_REQUIRED", lease |-> None]
        \/ out = [leases |-> T, got |-> "ok", lease |-> None]
    BY DEF reclaimAlias
  <2> HIDE DEF out, T
  <2>3. Typed(out)
    BY <1>3, <2>1, <2>2 DEF Answers
  <2> QED BY <1>8, <2>3 DEF Outcome, out
<1>9. CASE job.op = "list"
  <2> DEFINE out == List(F)
  <2>1. out.leases \in {None, S} /\ out.got = "ok" /\ out.lease = None
    BY DEF List
  <2> HIDE DEF out, S
  <2>2. Typed(out)
    BY <1>1, <1>3, <2>1 DEF Answers
  <2> QED BY <1>9, <2>2 DEF Outcome, out
<1> QED BY <1>5, <1>6, <1>7, <1>8, <1>9, JobType

\* What a command gives up of a promise leaves the rest of it as it was.
LEMMA StillRelied ==
  ASSUME NEW job \in AnyJob, promised \in [Proc -> Lease \cup {None}], clock \in Nat,
         NEW q \in Proc, GivenUp(job)[q] # None
  PROVE  LET l == GivenUp(job)[q]
         IN /\ promised[q] \in Lease /\ promised[q] # None /\ l \in Lease
            /\ l.id = promised[q].id /\ l.alias = promised[q].alias /\ l.tab = promised[q].tab
            /\ l.until <= promised[q].until
            /\ job.op = "renew" /\ l.id = job.of => l.until <= clock + job.ttl
            /\ job.op = "release" => l.id # job.of
            /\ job.op = "reclaim" /\ job.yes => l.alias # job.alias
<1> DEFINE l == promised[q]
           cut == [l EXCEPT !.until = clock + job.ttl]
<1>1. l \in Lease /\ l # None /\ clock + job.ttl \in Nat
  BY JobType DEF GivenUp
<1>2. /\ ~(job.op = "release" /\ l.id = job.of)
      /\ ~(job.op = "reclaim" /\ job.yes /\ l.alias = job.alias)
      /\ GivenUp(job)[q] = IF job.op = "renew" /\ l.id = job.of /\ clock + job.ttl < l.until
                           THEN cut ELSE l
  BY DEF GivenUp
<1>3. /\ cut \in Lease /\ cut.id = l.id /\ cut.alias = l.alias /\ cut.tab = l.tab
      /\ cut.until = clock + job.ttl
  BY <1>1, LongerLease
<1> HIDE DEF l, cut
<1>4. l \in Lease /\ l.until \in Nat
  BY <1>1, LeaseFields
<1> QED BY <1>1, <1>2, <1>3, <1>4 DEF l

\* What is written has every lease that callers still rely on, for as long.
LEMMA OutcomeCovers ==
  ASSUME NEW p \in Proc, NEW job \in AnyJob, NEW F, Readable(p, F), Covers(F),
         promised \in [Proc -> Lease \cup {None}],
         \A q \in Proc : promised[q] # None => promised[q].id = q,
         Outcome(p, job, F).leases # None,
         NEW q \in Proc, Live(GivenUp(job)[q])
  PROVE  Has(Outcome(p, job, F).leases, GivenUp(job)[q])
<1> DEFINE l == GivenUp(job)[q]
           S == sweepExpired(F)
<1>1. S \in Leases /\ S[q] = IF Live(F[q]) THEN F[q] ELSE None
  BY Swept DEF Readable
<1>2. /\ promised[q] \in Lease /\ promised[q] # None /\ l \in Lease /\ l # None
      /\ l.id = q /\ l.alias = promised[q].alias /\ l.tab = promised[q].tab
      /\ l.until <= promised[q].until
      /\ job.op = "renew" /\ q = job.of => l.until <= clock + job.ttl
      /\ job.op = "release" => q # job.of
      /\ job.op = "reclaim" /\ job.yes => l.alias # job.alias
  BY StillRelied DEF Live, Readable
<1>3. Live(l) /\ clock \in Nat
  BY DEF Readable
<1> HIDE DEF l
<1>4. l.until \in Nat /\ promised[q].until \in Nat /\ l.until > clock /\ F[q] \in Lease \cup {None}
  BY <1>2, <1>3, LeaseFields DEF Live, Readable, Leases
<1>5. Has(F, promised[q])
  <2>1. promised[q].until > clock
    BY <1>2, <1>3, <1>4
  <2> QED BY <1>2, <2>1 DEF Covers, Live
<1>6. F[q] \in Lease /\ F[q] # None /\ F[q].alias = l.alias /\ F[q].tab = l.tab
      /\ F[q].until >= l.until
  BY <1>2, <1>4, <1>5, LeaseFields DEF Has
<1>7. Live(F[q]) /\ S[q] = F[q] /\ q # p
  BY <1>1, <1>3, <1>4, <1>6, LeaseFields DEF Live, Readable
<1>8. ASSUME NEW T, T[q] = F[q] PROVE Has(T, l)
  BY <1>2, <1>6, <1>8 DEF Has
<1> DEFINE out == Outcome(p, job, F)
<1> HIDE DEF S
<1>9. CASE job.op = "acquire"
  <2>1. out = acquireLease(p, job, F)
    BY <1>9 DEF Outcome
  <2>2. out.leases = S \/ \E x : out.leases = [S EXCEPT ![p] = x]
    <3> DEFINE reused == {i \in HeldOn(job.alias, F) : job.key # None /\ F[i].key = job.key}
    <3>1. acquireLease(p, job, F).leases # None
      BY <2>1
    <3>2. CASE reused # {}
      BY <2>1, <3>2 DEF acquireLease, S
    <3>3. CASE reused = {} /\ Conflicts(job, F)
      BY <3>1, <3>3 DEF acquireLease
    <3>4. CASE reused = {} /\ ~Conflicts(job, F)
      <4> DEFINE given == [id |-> p, alias |-> job.alias, tab |-> job.tab, key |-> job.key,
                           until |-> clock + job.ttl]
      <4>1. acquireLease(p, job, F) =
              [leases |-> [S EXCEPT ![p] = given], got |-> "granted", lease |-> given]
        BY <3>4 DEF acquireLease, S
      <4> HIDE DEF given
      <4>2. out.leases = [S EXCEPT ![p] = given]
        BY <2>1, <4>1
      <4> QED BY <4>2
    <3> QED BY <3>2, <3>3, <3>4
  <2> HIDE DEF out
  <2>3. out.leases[q] = S[q]
    BY <1>1, <1>7, <2>2 DEF Leases
  <2> QED BY <1>7, <1>8, <2>3 DEF l, out
<1>10. CASE job.op = "renew"
  <2> DEFINE longer == [F[job.of] EXCEPT !.until = clock + job.ttl]
  <2>1. out = renewLease(job, F) /\ renewLease(job, F).leases # None /\ job.of \in Proc
    BY <1>10, JobType DEF Outcome
  <2>2. out.leases = [S EXCEPT ![job.of] = longer]
    BY <2>1 DEF renewLease, S
  <2> HIDE DEF out, longer
  <2>3. CASE q = job.of
    <3>1. out.leases[q] = longer
      BY <1>1, <2>2, <2>3 DEF Leases
    <3>2. clock + job.ttl \in Nat
      BY <1>3, JobType
    <3>3. longer \in Lease /\ longer.alias = F[q].alias /\ longer.tab = F[q].tab
          /\ longer.until = clock + job.ttl
      BY <1>6, <2>3, <3>2, LongerLease DEF longer
    <3>4. longer # None
      BY <3>3
    <3>5. l.until <= clock + job.ttl
      BY <1>2, <1>10, <2>3
    <3>6. longer.until >= l.until
      BY <1>4, <3>2, <3>3, <3>5
    <3>7. Has(out.leases, l)
      BY <1>2, <1>6, <3>1, <3>3, <3>4, <3>6 DEF Has
    <3> QED BY <3>7 DEF l, out
  <2>4. CASE q # job.of
    <3>1. out.leases[q] = S[q]
      BY <1>1, <2>2, <2>4 DEF Leases
    <3> QED BY <1>7, <1>8, <3>1 DEF l, out
  <2> QED BY <2>3, <2>4
<1>11. CASE job.op = "release"
  <2>1. out.leases = [S EXCEPT ![job.of] = None]
    BY <1>11 DEF Outcome, releaseLease, S
  <2> HIDE DEF out
  <2>2. out.leases[q] = S[q]
    BY <1>1, <1>2, <1>11, <2>1 DEF Leases
  <2> QED BY <1>7, <1>8, <2>2 DEF l, out
<1>12. CASE job.op = "reclaim"
  <2>1. out = reclaimAlias(job, F) /\ reclaimAlias(job, F).leases # None
    BY <1>12 DEF Outcome
  <2>2. /\ HeldOn(job.alias, F) = {} \/ job.yes
        /\ out.leases = [i \in Proc |-> IF i \in HeldOn(job.alias, F) THEN None ELSE S[i]]
    BY <2>1, JobType DEF reclaimAlias, S
  <2>3. q \notin HeldOn(job.alias, F)
    BY <1>2, <1>6, <1>12, <2>2 DEF HeldOn
  <2> HIDE DEF out
  <2>4. out.leases[q] = S[q]
    BY <2>2, <2>3
  <2> QED BY <1>7, <1>8, <2>4 DEF l, out
<1>13. CASE job.op = "list"
  <2>1. out = List(F) /\ List(F).leases # None
    BY <1>13 DEF Outcome
  <2>2. out.leases = S
    BY <2>1 DEF List, S
  <2> HIDE DEF out
  <2> QED BY <1>7, <1>8, <2>2 DEF l, out
<1> QED BY <1>9, <1>10, <1>11, <1>12, <1>13, JobType

----------------------------------------------------------------------------
(* What a step leaves as it was *)

\* A kept promise is kept while time passes.
LEMMA KeptLater ==
  ASSUME NEW S, Kept(S), clock \in Nat, clock' \in Nat, clock' >= clock,
         promised \in [Proc -> Lease \cup {None}], UNCHANGED <<config, promised>>
  PROVE  Kept(S)'
<1>1. S \in Leases /\ Exclusive(S) /\ Covers(S)
  BY DEF Kept
<1>2. ASSUME NEW l \in Lease \cup {None}, Live(l)' PROVE Live(l)
  BY <1>2, LeaseFields DEF Live
<1>3. \A i \in Proc : S[i] \in Lease \cup {None} /\ promised[i] \in Lease \cup {None}
  BY <1>1 DEF Leases
<1>4. ConfigFits' = ConfigFits
  BY DEF ConfigFits
<1>5. Exclusive(S)'
  BY <1>1, <1>2, <1>3, <1>4 DEF Exclusive
<1>6. Covers(S)'
  BY <1>1, <1>2, <1>3 DEF Covers, Has
<1> QED BY <1>1, <1>5, <1>6 DEF Kept

\* So is a write that is about to be.
LEMMA PendingLater ==
  ASSUME NEW p \in Proc, NEW S, Pending(p, S), clock \in Nat, clock' \in Nat, clock' >= clock,
         promised \in [Proc -> Lease \cup {None}], UNCHANGED <<config, promised>>,
         calls'[p].got = calls[p].got, calls'[p].lease = calls[p].lease,
         \A i \in Proc \ {p} : calls[i].at \in {"done", "dead"} => calls'[i].at \in {"done", "dead"}
  PROVE  Pending(p, S)'
<1>1. Kept(S)'
  BY KeptLater DEF Pending
<1> QED BY <1>1 DEF Pending, CreatedBut

\* The same while nothing but this call moves.
LEMMA PendingSame ==
  ASSUME PoolInv, NEW p \in Proc, NEW S, Pending(p, S), UNCHANGED <<clock, config, promised>>,
         calls'[p].got = calls[p].got, calls'[p].lease = calls[p].lease,
         \A i \in Proc \ {p} : calls'[i] = calls[i]
  PROVE  Pending(p, S)'
<1>1. clock \in Nat /\ clock' \in Nat /\ clock' >= clock
      /\ promised \in [Proc -> Lease \cup {None}] /\ UNCHANGED <<config, promised>>
  BY DEF PoolInv, PoolType, PoolTypeOK
<1> QED BY <1>1, PendingLater

\* A call that has ended stays as it is, so that the others fit as before.
LEMMA OthersFit ==
  ASSUME PoolInv, NEW p \in Proc, UNCHANGED config, calls[p].at # "done",
         calls' \in [Proc -> Call], \A q \in Proc \ {p} : calls'[q] = calls[q],
         \A q \in Proc \ {p} : fd[q] # "none" => fd'[q] # "none", CallFits(p)'
  PROVE  \A q \in Proc : CallFits(q)'
<1> SUFFICES ASSUME NEW q \in Proc \ {p} PROVE CallFits(q)'
  OBVIOUS
<1>1. CallFits(q) /\ ConfigFits' = ConfigFits
  BY DEF PoolInv, ConfigFits
<1>2. ASSUME NEW r \in Proc, calls[r].at = "done" PROVE calls'[r].at = "done"
  BY <1>2
<1>3. calls[q] \in Call /\ calls'[q] = calls[q]
  BY DEF PoolInv, PoolType
<1>4. calls[q].job \in AnyJob => calls[q].job.of \in Proc \cup {None}
  BY JobType
<1> QED BY <1>1, <1>2, <1>3, <1>4 DEF CallFits

\* The types of the calls after a step of one of them.
LEMMA CallsType ==
  ASSUME PoolInv, NEW p \in Proc, calls' \in [Proc -> Call],
         \A q \in Proc \ {p} : calls'[q] = calls[q],
         calls'[p].at = "done" => calls'[p].got # None
  PROVE  /\ \A q \in Proc : calls'[q].at \in Critical \cup
              {"new", "mkdir", "stat", "steal", "done", "dead"}
         /\ \A q \in Proc : calls'[q].at = "done" => calls'[q].got # None
<1>1. \A q \in Proc : calls'[q] \in Call
  OBVIOUS
<1>2. \A q \in Proc : calls'[q].at = "done" => calls'[q].got # None
  BY DEF PoolInv, PoolType, PoolTypeOK
<1> QED BY <1>1, <1>2 DEF Call

\* While it has no lock a call disturbs nobody.
LEMMA IdleCalm ==
  ASSUME PoolInv, Calm, NEW p \in Proc, calls[p].at \in {"new", "mkdir", "stat"},
         calls' \in [Proc -> Call], \A q \in Proc \ {p} : calls'[q] = calls[q],
         calls'[p].at \notin Critical,
         UNCHANGED <<clock, config, lock, file, tmp, fd, promised>>
  PROVE  Calm'
<1>1. clock \in Nat /\ promised \in [Proc -> Lease \cup {None}] /\ Kept(file) /\ Created(file)
  BY DEF PoolInv, PoolType, PoolTypeOK, Calm
<1>2. Kept(file)'
  BY <1>1, KeptLater
<1>3. Created(file)'
  BY <1>1 DEF Created
<1>4. fd[p] = "none"
  BY DEF Calm, Critical
<1>5. ASSUME NEW q \in Proc, calls'[q].at \in Critical PROVE WorksAlone(q)'
  <2>1. q # p /\ calls'[q] = calls[q] /\ WorksAlone(q)
    BY <1>5 DEF Calm
  <2>2. ASSUME NEW S, Pending(q, S) PROVE Pending(q, S)'
    BY <1>1, <2>1, <2>2, PendingLater
  <2>3. \A r \in Proc \ {q} : calls'[r].at \notin Critical /\ fd'[r] = "none"
    BY <2>1 DEF WorksAlone
  <2>4. calls[q].at \in {"open", "write"} => Pending(q, calls[q].leases)'
    BY <2>1, <2>2 DEF WorksAlone
  <2>5. calls[q].at = "rename" => Pending(q, tmp)'
    BY <2>1, <2>2 DEF WorksAlone
  <2> QED BY <2>1, <2>3, <2>4, <2>5 DEF WorksAlone
<1>6. \A q \in Proc : fd'[q] # "none" => calls'[q].at \in Critical
  BY <1>4 DEF Calm
<1> QED BY <1>2, <1>3, <1>5, <1>6 DEF Calm

----------------------------------------------------------------------------
(* The lock *)

\* One lemma for each action: time.
LEMMA TickKeeps == ASSUME PoolInv, Tick PROVE PoolInv'
<1> USE DEF Tick
<1>1. clock \in Nat /\ clock' \in Nat /\ clock' >= clock /\ clock' \in 0 .. MaxTime
  BY DEF PoolInv, PoolType, PoolTypeOK
<1>2. PoolType'
  BY <1>1 DEF PoolInv, PoolType, PoolTypeOK
<1>3. \A p \in Proc : CallFits(p)' /\ (promised'[p] # None => promised'[p].id = p)
  BY DEF PoolInv, CallFits, ConfigFits
<1>4. ASSUME Calm PROVE Calm'
  <2>1. promised \in [Proc -> Lease \cup {None}] /\ Kept(file)
    BY <1>4 DEF PoolInv, PoolType, Calm
  <2>2. Kept(file)'
    BY <1>1, <2>1, KeptLater
  <2>3. ASSUME NEW q \in Proc, WorksAlone(q) PROVE WorksAlone(q)'
    <3>1. ASSUME NEW S, Pending(q, S) PROVE Pending(q, S)'
      BY <1>1, <2>1, <3>1, PendingLater
    <3>2. calls[q].at \in {"open", "write"} => Pending(q, calls[q].leases)'
      BY <2>3, <3>1 DEF WorksAlone
    <3>3. calls[q].at = "rename" => Pending(q, tmp)'
      BY <2>3, <3>1 DEF WorksAlone
    <3> QED BY <2>3, <3>2, <3>3 DEF WorksAlone
  <2>4. Created(file)'
    BY <1>4 DEF Created, Calm
  <2> QED BY <1>4, <2>2, <2>3, <2>4 DEF Calm
<1> QED BY <1>2, <1>3, <1>4 DEF PoolInv

\* A call begins.
LEMMA StartKeeps ==
  ASSUME PoolInv, NEW p \in Proc, NEW job \in Jobs[p], Start(p, job) PROVE PoolInv'
<1>1. /\ calls[p].at = "new" /\ UNCHANGED <<clock, config, lock, file, tmp, fd, promised, misjudged>>
      /\ UNCHANGED crashes /\ (job.of # None => calls[job.of].at = "done")
  BY DEF Start
<1>2. calls \in [Proc -> Call] /\ clock \in Nat /\ job \in AnyJob
  BY DEF PoolInv, PoolType, PoolTypeOK, AnyJob
<1>3. /\ calls' \in [Proc -> Call] /\ \A q \in Proc \ {p} : calls'[q] = calls[q]
      /\ calls'[p].at \in {"done", "mkdir"} /\ CallFits(p)'
      /\ calls'[p].at = "done" => calls'[p].got # None
  <2>1. CASE job.op = "acquire" /\ ~ConfigFits
    <3>1. Ends(p, "CONFIG_INVALID")
      BY <2>1 DEF Start, Ends
    <3>2. "CONFIG_INVALID" \in Answers
      BY DEF Answers
    <3> QED BY <1>2, <3>1, <3>2, EndsWith DEF CallFits, Critical
  <2>2. CASE ~(job.op = "acquire" /\ ~ConfigFits)
    <3>1. calls' = [calls EXCEPT ![p] = Locking(p, job, clock)]
      BY <2>2 DEF Start
    <3>2. /\ calls' \in [Proc -> Call] /\ calls'[p] = Locking(p, job, clock)
          /\ \A q \in Proc \ {p} : calls'[q] = calls[q]
      BY <1>2, <3>1, LockingType, OneCall
    <3>3. calls'[p].at = "mkdir" /\ calls'[p].job = job
      BY <1>2, <3>2, LockingType
    <3>4. ConfigFits' = ConfigFits
      BY <1>1 DEF ConfigFits
    <3>5. job.op = "acquire" => ConfigFits'
      BY <2>2, <3>4
    <3>6. job.of # None => calls'[job.of].at = "done"
      <4>1. job.of \in Proc \cup {None} /\ job.of # p
        BY <1>1, <1>2, JobType
      <4> QED BY <1>1, <3>2, <4>1
    <3>7. CallFits(p)'
      BY <1>2, <3>3, <3>5, <3>6 DEF CallFits, Critical
    <3> QED BY <3>2, <3>3, <3>7
  <2> QED BY <2>1, <2>2
<1>4. PoolType'
  BY <1>1, <1>3, CallsType DEF PoolInv, PoolType, PoolTypeOK
<1>5. \A q \in Proc : CallFits(q)'
  BY <1>1, <1>3, OthersFit
<1>6. Calm => Calm'
  BY <1>1, <1>3, IdleCalm DEF Critical
<1> QED BY <1>1, <1>4, <1>5, <1>6 DEF PoolInv

\* A call that goes on still has what it was asked for.
LEMMA GoesFits ==
  ASSUME PoolInv, NEW p \in Proc, UNCHANGED config, calls' \in [Proc -> Call],
         \A q \in Proc \ {p} : calls'[q] = calls[q],
         calls[p].at \in Critical \cup {"mkdir", "stat", "steal"},
         calls'[p].job = calls[p].job
  PROVE  /\ calls'[p].job \in AnyJob /\ (calls'[p].job.op = "acquire" => ConfigFits')
         /\ calls'[p].job.of # None => calls'[calls'[p].job.of].at = "done"
<1>1. CallFits(p)
  BY DEF PoolInv
<1>2. ConfigFits' = ConfigFits
  BY DEF ConfigFits
<1>3. calls[p].job \in AnyJob /\ (calls[p].job.op = "acquire" => ConfigFits)
      /\ (calls[p].job.of # None => calls[calls[p].job.of].at = "done")
  BY <1>1 DEF CallFits
<1>4. calls[p].job.of # None => calls[p].job.of \in Proc /\ calls[p].job.of # p
  BY <1>3, JobType DEF Critical
<1> QED BY <1>2, <1>3, <1>4

\* It takes the lock, or finds it taken.
LEMMA MkdirKeeps == ASSUME PoolInv, NEW p \in Proc, mkdirSync(p) PROVE PoolInv'
<1>1. /\ calls[p].at = "mkdir"
      /\ UNCHANGED <<clock, config, file, tmp, fd, promised, misjudged, crashes>>
  BY DEF mkdirSync
<1>2. calls \in [Proc -> Call] /\ clock \in Nat /\ promised \in [Proc -> Lease \cup {None}]
      /\ CallFits(p)
  BY DEF PoolInv, PoolType, PoolTypeOK
<1>3. ASSUME NEW at \in {"read", "stat"}, Goes(p, at), lock' = lock \/ lock' = clock
      PROVE  /\ calls' \in [Proc -> Call] /\ calls'[p].at = at
             /\ \A q \in Proc \ {p} : calls'[q] = calls[q]
             /\ PoolType' /\ \A q \in Proc : CallFits(q)'
  <2>1. /\ calls' \in [Proc -> Call] /\ calls'[p] = [calls[p] EXCEPT !.at = at]
        /\ \A q \in Proc \ {p} : calls'[q] = calls[q]
    BY <1>2, <1>3, GoesTo DEF Critical
  <2>2. calls'[p].at = at /\ calls'[p].job = calls[p].job
    BY <1>2, <2>1 DEF Call
  <2>3. PoolType'
    <3>1. lock' = None \/ lock' \in 0 .. clock'
      BY <1>1, <1>2, <1>3 DEF PoolInv, PoolType, PoolTypeOK
    <3>2. calls'[p].at # "done"
      BY <1>3, <2>2
    <3> QED BY <1>1, <2>1, <3>1, <3>2, CallsType DEF PoolInv, PoolType, PoolTypeOK
  <2>4. CallFits(p)'
    BY <1>1, <2>1, <2>2, GoesFits DEF CallFits, Critical
  <2> QED BY <1>1, <2>1, <2>2, <2>3, <2>4, OthersFit
<1>4. CASE lock # None
  <2>1. Goes(p, "stat") /\ lock' = lock
    BY <1>4 DEF mkdirSync
  <2>2. Calm => Calm'
    BY <1>1, <1>3, <2>1, IdleCalm DEF Critical
  <2> QED BY <1>1, <1>3, <2>1, <2>2 DEF PoolInv
<1>5. CASE lock = None
  <2>1. Goes(p, "read") /\ lock' = clock
    BY <1>5 DEF mkdirSync
  <2>2. ASSUME Calm PROVE Calm'
    <3>1. \A q \in Proc : calls[q].at \notin Critical /\ fd[q] = "none"
      BY <1>5, <2>2 DEF Calm, WorksAlone
    <3>2. Kept(file)' /\ Created(file)'
      BY <1>1, <1>2, <1>3, <2>1, <2>2, KeptLater DEF Calm, Created
    <3>3. lock' # None
      BY <1>2, <2>1
    <3>4. \A q \in Proc : calls'[q].at \in Critical => q = p
      BY <1>3, <2>1, <3>1
    <3>5. WorksAlone(p)'
      BY <1>1, <1>3, <2>1, <3>1, <3>3 DEF WorksAlone
    <3> QED BY <1>1, <3>1, <3>2, <3>4, <3>5 DEF Calm
  <2> QED BY <1>1, <1>3, <2>1, <2>2 DEF PoolInv
<1> QED BY <1>4, <1>5

\* It looks how old the lock is.
LEMMA StatKeeps == ASSUME PoolInv, NEW p \in Proc, statSync(p) PROVE PoolInv'
<1>1. /\ calls[p].at = "stat"
      /\ UNCHANGED <<clock, config, lock, file, tmp, fd, promised, misjudged, crashes>>
  BY DEF statSync
<1>2. calls \in [Proc -> Call]
  BY DEF PoolInv, PoolType
<1>3. /\ calls' \in [Proc -> Call] /\ \A q \in Proc \ {p} : calls'[q] = calls[q]
      /\ calls'[p].at \in {"steal", "mkdir", "done"} /\ CallFits(p)'
      /\ calls'[p].at = "done" => calls'[p].got # None
  <2>1. ASSUME NEW at \in {"steal", "mkdir"}, Goes(p, at)
        PROVE  /\ calls' \in [Proc -> Call] /\ calls'[p].at = at
               /\ \A q \in Proc \ {p} : calls'[q] = calls[q]
               /\ CallFits(p)'
    <3>1. /\ calls' \in [Proc -> Call] /\ calls'[p] = [calls[p] EXCEPT !.at = at]
          /\ \A q \in Proc \ {p} : calls'[q] = calls[q]
      BY <1>2, <2>1, GoesTo
    <3>2. calls'[p].at = at /\ calls'[p].job = calls[p].job
      BY <1>2, <3>1 DEF Call
    <3>3. CallFits(p)'
      BY <1>1, <3>1, <3>2, GoesFits DEF CallFits, Critical
    <3> QED BY <3>1, <3>2, <3>3
  <2>2. ASSUME Ends(p, "STATE_BUSY")
        PROVE  /\ calls' \in [Proc -> Call] /\ \A q \in Proc \ {p} : calls'[q] = calls[q]
               /\ calls'[p].at = "done" /\ calls'[p].got # None /\ CallFits(p)'
    <3>1. "STATE_BUSY" \in Answers
      BY DEF Answers
    <3> QED BY <1>2, <2>2, <3>1, EndsWith DEF CallFits, Critical
  <2>3. Goes(p, "steal") \/ Goes(p, "mkdir") \/ Ends(p, "STATE_BUSY")
    BY DEF statSync
  <2>4. CASE Goes(p, "steal") \/ Goes(p, "mkdir")
    BY <2>1, <2>4
  <2>5. CASE Ends(p, "STATE_BUSY")
    BY <2>2, <2>5
  <2> QED BY <2>3, <2>4, <2>5
<1>4. PoolType'
  BY <1>1, <1>3, CallsType DEF PoolInv, PoolType, PoolTypeOK
<1>5. \A q \in Proc : CallFits(q)'
  BY <1>1, <1>3, OthersFit
<1>6. Calm => Calm'
  BY <1>1, <1>3, IdleCalm DEF Critical
<1> QED BY <1>1, <1>4, <1>5, <1>6 DEF PoolInv

\* It removes an old one.
LEMMA StealKeeps == ASSUME PoolInv, NEW p \in Proc, Steal(p) PROVE PoolInv'
<1>1. /\ calls[p].at = "steal" /\ lock' = None
      /\ calls' = [calls EXCEPT ![p].at = "mkdir", ![p].stole = TRUE]
      /\ UNCHANGED <<clock, config, file, tmp, fd, promised, crashes>>
      /\ misjudged' = (misjudged \/ \E q \in Proc : calls[q].at \in Critical)
  BY DEF Steal
<1>2. calls \in [Proc -> Call] /\ clock \in Nat /\ promised \in [Proc -> Lease \cup {None}]
  BY DEF PoolInv, PoolType, PoolTypeOK
<1>3. /\ calls' \in [Proc -> Call] /\ \A q \in Proc \ {p} : calls'[q] = calls[q]
      /\ calls'[p].at = "mkdir" /\ calls'[p].job = calls[p].job
  <2> DEFINE c == [calls[p] EXCEPT !.at = "mkdir", !.stole = TRUE]
  <2>1. calls[p] \in Call
    BY <1>2
  <2>2. c \in Call /\ c.at = "mkdir" /\ c.job = calls[p].job
    BY <2>1 DEF Call
  <2>3. calls' = [calls EXCEPT ![p] = c]
    BY <1>1, <1>2
  <2> HIDE DEF c
  <2> QED BY <1>2, <2>2, <2>3
<1>4. PoolType'
  <2>1. misjudged' \in BOOLEAN
    BY <1>1 DEF PoolInv, PoolType, PoolTypeOK
  <2> QED BY <1>1, <1>3, <2>1, CallsType DEF PoolInv, PoolType, PoolTypeOK
<1>5. CallFits(p)'
  BY <1>1, <1>3, GoesFits DEF CallFits, Critical
<1>6. \A q \in Proc : CallFits(q)'
  BY <1>1, <1>3, <1>5, OthersFit
<1>7. ASSUME ~misjudged' PROVE Calm'
  <2>1. Calm /\ \A q \in Proc : calls[q].at \notin Critical
    BY <1>1, <1>7 DEF PoolInv
  <2>2. Kept(file)' /\ Created(file)'
    BY <1>1, <1>2, <1>3, <2>1, KeptLater DEF Calm, Created
  <2>3. \A q \in Proc : calls'[q].at \notin Critical /\ fd'[q] = "none"
    BY <1>1, <1>3, <2>1 DEF Calm, Critical
  <2> QED BY <2>2, <2>3 DEF Calm
<1> QED BY <1>1, <1>4, <1>6, <1>7 DEF PoolInv

\* It removes its own, or the one that is there.
LEMMA UnlockKeeps == ASSUME PoolInv, NEW p \in Proc, Unlock(p) PROVE PoolInv'
<1> DEFINE c == calls[p]
           retries == c.got = "CONFLICT" /\ c.job.timeout > 0 /\ clock - c.since < c.job.timeout
<1>1. /\ c.at = "unlock" /\ lock' = None /\ fd' = [fd EXCEPT ![p] = "none"]
      /\ misjudged' = (misjudged \/ \E q \in Proc \ {p} : calls[q].at \in Critical)
      /\ promised' = IF c.got = "granted" /\ c.job.op \in {"acquire", "renew"}
                     THEN [promised EXCEPT ![c.lease.id] = c.lease] ELSE promised
      /\ UNCHANGED <<clock, config, file, tmp, crashes>>
  BY DEF Unlock
<1>2. /\ calls \in [Proc -> Call] /\ clock \in Nat /\ promised \in [Proc -> Lease \cup {None}]
      /\ fd \in [Proc -> {"none", "tmp", "file", "gone"}]
      /\ CallFits(p) /\ c \in Call
  BY DEF PoolInv, PoolType, PoolTypeOK
<1>3. c.job \in AnyJob /\ c.got \in Answers /\ c.since \in Nat
      /\ c.lease \in Lease \cup {None} /\ (c.got = "granted" => c.lease \in Lease)
  BY <1>1, <1>2, Fields DEF CallFits, Critical
<1>4. /\ calls' \in [Proc -> Call] /\ \A q \in Proc \ {p} : calls'[q] = calls[q]
      /\ calls'[p].at \in {"done", "mkdir"} /\ CallFits(p)'
      /\ calls'[p].at = "done" => calls'[p].got # None
      /\ c.got = "granted" => calls'[p].at = "done"
  <2>1. ASSUME NEW got \in Answers, Ends(p, got)
        PROVE  /\ calls' \in [Proc -> Call] /\ \A q \in Proc \ {p} : calls'[q] = calls[q]
               /\ calls'[p].at = "done" /\ calls'[p].got # None /\ CallFits(p)'
    BY <1>2, <2>1, EndsWith DEF CallFits, Critical
  <2>2. CASE retries
    <3>1. calls' = [calls EXCEPT ![p] = Locking(p, c.job, c.since)]
      <4>1. ~(clock - c.since >= c.job.timeout)
        BY <1>2, <1>3, <2>2, JobType
      <4> QED BY <2>2, <4>1 DEF Unlock
    <3>2. /\ Locking(p, c.job, c.since) \in Call /\ Locking(p, c.job, c.since).at = "mkdir"
          /\ Locking(p, c.job, c.since).job = c.job
      BY <1>2, <1>3, LockingType
    <3> HIDE DEF c
    <3>3. /\ calls' \in [Proc -> Call] /\ calls'[p].at = "mkdir" /\ calls'[p].job = c.job
          /\ \A q \in Proc \ {p} : calls'[q] = calls[q]
      BY <1>2, <3>1, <3>2
    <3>4. CallFits(p)'
      BY <1>1, <3>3, GoesFits DEF CallFits, Critical, c
    <3> QED BY <2>2, <3>3, <3>4
  <2>3. CASE ~retries
    <3>1. Ends(p, "EXHAUSTED") \/ Ends(p, c.got)
      BY <1>2, <1>3, <2>3, JobType DEF Unlock
    <3>2. "EXHAUSTED" \in Answers
      BY DEF Answers
    <3> QED BY <1>3, <2>1, <3>1, <3>2
  <2> QED BY <2>2, <2>3
<1>5. /\ promised' \in [Proc -> Lease \cup {None}]
      /\ \A q \in Proc : promised'[q] = promised[q] \/ (c.got = "granted" /\ promised'[q] = c.lease /\ c.lease.id = q)
  <2> HIDE DEF c
  <2> QED BY <1>1, <1>2, <1>3, LeaseFields
<1>6. PoolType'
  <2>1. misjudged' \in BOOLEAN
    BY <1>1 DEF PoolInv, PoolType, PoolTypeOK
  <2>2. fd' \in [Proc -> {"none", "tmp", "file", "gone"}] /\ \A q \in Proc : fd'[q] = "tmp" => fd[q] = "tmp"
    BY <1>1, <1>2
  <2> QED BY <1>1, <1>4, <1>5, <2>1, <2>2, CallsType DEF PoolInv, PoolType, PoolTypeOK
<1>7. \A q \in Proc : CallFits(q)'
  BY <1>1, <1>2, <1>4, OthersFit
<1>8. \A q \in Proc : promised'[q] # None => promised'[q].id = q
  BY <1>3, <1>5 DEF PoolInv
<1>9. ASSUME ~misjudged' PROVE Calm'
  <2>1. Calm /\ \A q \in Proc \ {p} : calls[q].at \notin Critical
    BY <1>1, <1>9 DEF PoolInv
  <2>2. WorksAlone(p)
    BY <1>1, <2>1 DEF Calm, Critical
  <2>3. \A q \in Proc : calls'[q].at \notin Critical /\ fd'[q] = "none"
    BY <1>1, <1>2, <1>4, <2>1, <2>2 DEF WorksAlone, Critical
  <2>4. file \in Leases /\ Exclusive(file) /\ Covers(file) /\ Created(file)
    BY <2>1 DEF Calm, Kept
  <2>5. Created(file)'
    <3> SUFFICES ASSUME NEW i \in Proc, file[i] # None PROVE calls'[i].at \in {"done", "dead"}
      BY <1>1 DEF Created
    <3>1. CASE i = p
      BY <1>1, <1>4, <2>4, <3>1 DEF Created
    <3>2. CASE i # p
      BY <1>4, <2>1, <2>4, <3>2 DEF Created, Critical
    <3> QED BY <3>1, <3>2
  <2>6. Covers(file)'
    <3> SUFFICES ASSUME NEW q \in Proc, Live(promised'[q]) PROVE Has(file, promised'[q])
      BY <1>1 DEF Covers, Live, Has
    <3>1. CASE promised'[q] = promised[q]
      BY <2>4, <3>1 DEF Covers
    <3>2. CASE c.got = "granted" /\ promised'[q] = c.lease /\ c.lease.id = q
      <4>1. file[c.lease.id] = c.lease /\ c.lease \in Lease
        BY <1>1, <1>3, <2>2, <3>2 DEF WorksAlone
      <4> HIDE DEF c
      <4> QED BY <3>2, <4>1, LeaseFields DEF Has
    <3> QED BY <1>5, <3>1, <3>2
  <2>7. Exclusive(file)'
    BY <1>1, <2>4 DEF Exclusive, ConfigFits, Live
  <2> QED BY <1>1, <2>3, <2>4, <2>5, <2>6, <2>7 DEF Calm, Kept
<1> QED BY <1>6, <1>7, <1>8, <1>9 DEF PoolInv

\* It dies.
LEMMA CrashKeeps == ASSUME PoolInv, NEW p \in Proc, Crash(p) PROVE PoolInv'
<1>1. /\ calls[p].at \in Critical /\ crashes < MaxCrashes /\ crashes' = crashes + 1
      /\ calls' = [calls EXCEPT ![p] = [Fresh EXCEPT !.at = "dead"]]
      /\ fd' = [fd EXCEPT ![p] = "none"]
      /\ UNCHANGED <<clock, config, lock, file, tmp, promised, misjudged>>
  BY DEF Crash
<1>2. /\ calls \in [Proc -> Call] /\ clock \in Nat /\ promised \in [Proc -> Lease \cup {None}]
      /\ fd \in [Proc -> {"none", "tmp", "file", "gone"}] /\ crashes' \in 0 .. MaxCrashes
  BY <1>1 DEF PoolInv, PoolType, PoolTypeOK
<1>3. /\ calls' \in [Proc -> Call] /\ \A q \in Proc \ {p} : calls'[q] = calls[q]
      /\ calls'[p].at = "dead"
  <2>1. [Fresh EXCEPT !.at = "dead"] \in Call /\ [Fresh EXCEPT !.at = "dead"].at = "dead"
    BY DEF Fresh, Call
  <2> QED BY <1>1, <1>2, <2>1, OneCall
<1>4. \A q \in Proc : fd'[q] = IF q = p THEN "none" ELSE fd[q]
  BY <1>1, <1>2
<1>5. PoolType'
  <2>1. fd' \in [Proc -> {"none", "tmp", "file", "gone"}]
    BY <1>1, <1>2
  <2> QED BY <1>1, <1>2, <1>3, <1>4, <2>1, CallsType DEF PoolInv, PoolType, PoolTypeOK
<1>6. CallFits(p)'
  BY <1>3 DEF CallFits, Critical
<1>7. \A q \in Proc : CallFits(q)'
  BY <1>1, <1>3, <1>4, <1>6, OthersFit DEF Critical
<1>8. ASSUME Calm PROVE Calm'
  <2>1. WorksAlone(p)
    BY <1>1, <1>8 DEF Calm
  <2>2. \A q \in Proc : calls'[q].at \notin Critical /\ fd'[q] = "none"
    BY <1>3, <1>4, <2>1 DEF WorksAlone, Critical
  <2>3. Kept(file)' /\ Created(file)'
    BY <1>1, <1>2, <1>3, <1>8, KeptLater DEF Calm, Created
  <2> QED BY <2>2, <2>3 DEF Calm
<1> QED BY <1>1, <1>5, <1>7, <1>8 DEF PoolInv

----------------------------------------------------------------------------
(* The state file *)

\* Promises that are given up or cut short are still covered.
LEMMA CoversLess ==
  ASSUME PoolInv, NEW job \in AnyJob, promised' = GivenUp(job), clock' = clock,
         NEW S \in Leases, Covers(S)
  PROVE  Covers(S)'
<1> SUFFICES ASSUME NEW q \in Proc, Live(promised'[q]) PROVE Has(S, promised'[q])
  BY DEF Covers, Live, Has
<1>1. promised \in [Proc -> Lease \cup {None}] /\ clock \in Nat
  BY DEF PoolInv, PoolType, PoolTypeOK
<1>2. GivenUp(job)[q] # None /\ promised'[q] = GivenUp(job)[q]
  BY DEF Live
<1>3. /\ promised[q] \in Lease /\ promised[q] # None /\ promised'[q] \in Lease
      /\ promised'[q].id = promised[q].id /\ promised'[q].alias = promised[q].alias
      /\ promised'[q].tab = promised[q].tab /\ promised'[q].until <= promised[q].until
  BY <1>1, <1>2, StillRelied
<1>4. promised'[q].until > clock /\ promised'[q].until \in Nat /\ promised[q].until \in Nat
  BY <1>3, LeaseFields DEF Live
<1>5. Has(S, promised[q])
  <2>1. promised[q].until > clock
    BY <1>1, <1>3, <1>4
  <2> QED BY <1>3, <2>1 DEF Live, Covers
<1>6. S[promised[q].id] \in Lease /\ S[promised[q].id].until \in Nat
  BY <1>3, <1>5, LeaseFields DEF Has, Leases
<1> QED BY <1>3, <1>4, <1>5, <1>6 DEF Has

\* What a call has in hand once it has read the file.
HasRead(p) ==
  LET out == Outcome(p, calls[p].job, file)
  IN /\ calls' \in [Proc -> Call] /\ \A q \in Proc \ {p} : calls'[q] = calls[q]
     /\ calls'[p].job = calls[p].job
     /\ \/ calls'[p].at = "unlock" /\ calls'[p].got \in Answers \ {"granted"}
        \/ /\ calls'[p].at = "open" /\ calls'[p].got = out.got /\ calls'[p].lease = out.lease
           /\ calls'[p].leases = out.leases /\ out.leases # None /\ file \in Leases

\* The file as a call may find it, unless a lock was stolen wrongly.
LEMMA ReadableFile ==
  ASSUME PoolInv, Calm, NEW p \in Proc, calls[p].at = "read"
  PROVE  Readable(p, file)
BY DEF PoolInv, PoolType, PoolTypeOK, Calm, Kept, Created, Readable

\* What is read is the file.
LEMMA ReadTakes ==
  ASSUME PoolInv, NEW p \in Proc, readStateFile(p), calls[p].job \in AnyJob PROVE HasRead(p)
<1> DEFINE c == calls[p]
           out == Outcome(p, c.job, file)
           Fails(code) == calls' = [calls EXCEPT ![p].at = "unlock", ![p].got = code]
           Reads == calls' = [calls EXCEPT ![p].at = IF out.leases = None THEN "unlock" ELSE "open",
                                           ![p].got = out.got, ![p].lease = out.lease,
                                           ![p].leases = out.leases]
<1>1. \/ Fails("CONFIG_INVALID") \/ Fails("STATE_INVALID")
      \/ file # Torn /\ Reads
  BY DEF readStateFile
<1>2. calls \in [Proc -> Call] /\ c \in Call /\ file \in Leases \cup {Torn} /\ clock \in Nat
  BY DEF PoolInv, PoolType, PoolTypeOK, Text
<1>3. ASSUME NEW code \in Answers \ {"granted"}, Fails(code) PROVE HasRead(p)
  <2> DEFINE d == [c EXCEPT !.at = "unlock", !.got = code]
  <2>1. calls' = [calls EXCEPT ![p] = d]
    BY <1>2, <1>3
  <2>2. d \in Call /\ d.at = "unlock" /\ d.got = code /\ d.job = c.job
    <3> HIDE DEF c
    <3> QED BY <1>2 DEF Call, Critical
  <2> HIDE DEF d
  <2>3. /\ calls' \in [Proc -> Call] /\ \A q \in Proc \ {p} : calls'[q] = calls[q]
        /\ calls'[p].at = "unlock" /\ calls'[p].got = code /\ calls'[p].job = c.job
    BY <1>2, <2>1, <2>2
  <2> QED BY <2>3 DEF HasRead
<1>4. CASE file # Torn /\ Reads
  <2> HIDE DEF out
  <2>1. Typed(out) /\ file \in Leases
    BY <1>2, <1>4, OutcomeTypes DEF out
  <2> DEFINE at == IF out.leases = None THEN "unlock" ELSE "open"
             d  == [c EXCEPT !.at = at, !.got = out.got, !.lease = out.lease,
                             !.leases = out.leases]
  <2>2. calls' = [calls EXCEPT ![p] = d]
    BY <1>2, <1>4
  <2>3. d \in Call /\ d.at = at /\ d.got = out.got /\ d.lease = out.lease
        /\ d.leases = out.leases /\ d.job = c.job
    <3>1. at \in {"unlock", "open"} /\ c \in Call /\ Typed(out)
      BY <1>2, <2>1
    <3> HIDE DEF out, c, at
    <3> QED BY <3>1 DEF Call, Critical, Typed
  <2> HIDE DEF d
  <2>4. /\ calls' \in [Proc -> Call] /\ \A q \in Proc \ {p} : calls'[q] = calls[q]
        /\ calls'[p] = d
    BY <1>2, <2>2, <2>3, OneCall
  <2>5. out.leases = None => out.got # "granted"
    BY <2>1 DEF Typed
  <2>6. CASE out.leases = None
    <3> HIDE DEF out
    <3>1. calls'[p].at = "unlock" /\ calls'[p].got \in Answers \ {"granted"}
      BY <2>1, <2>3, <2>4, <2>5, <2>6 DEF Typed
    <3> QED BY <2>3, <2>4, <3>1 DEF HasRead
  <2>7. CASE out.leases # None
    <3> HIDE DEF out
    <3>1. /\ calls'[p].at = "open" /\ calls'[p].got = out.got /\ calls'[p].lease = out.lease
          /\ calls'[p].leases = out.leases
      BY <2>3, <2>4, <2>7
    <3>2. calls'[p].job = calls[p].job
      BY <2>3, <2>4
    <3>3. HasRead(p) <=>
            \/ calls'[p].at = "unlock" /\ calls'[p].got \in Answers \ {"granted"}
            \/ /\ calls'[p].at = "open" /\ calls'[p].got = out.got /\ calls'[p].lease = out.lease
               /\ calls'[p].leases = out.leases /\ out.leases # None /\ file \in Leases
      BY <2>4, <3>2 DEF HasRead, out
    <3> QED BY <2>1, <2>7, <3>1, <3>3
  <2> HIDE DEF out
  <2> QED BY <2>6, <2>7
<1>5. "CONFIG_INVALID" \in Answers \ {"granted"} /\ "STATE_INVALID" \in Answers \ {"granted"}
  BY DEF Answers
<1> HIDE DEF out, Fails, Reads, c
<1>6. CASE Fails("CONFIG_INVALID") \/ Fails("STATE_INVALID")
  BY <1>3, <1>5, <1>6
<1> QED BY <1>1, <1>4, <1>6

\* It reads the leases and decides.
LEMMA ReadKeeps == ASSUME PoolInv, NEW p \in Proc, readStateFile(p) PROVE PoolInv'
<1> DEFINE job == calls[p].job
           out == Outcome(p, job, file)
<1>1. /\ calls[p].at = "read" /\ promised' = GivenUp(job)
      /\ UNCHANGED <<clock, config, lock, file, tmp, fd, misjudged, crashes>>
  BY DEF readStateFile
<1>2. /\ calls \in [Proc -> Call] /\ clock \in Nat /\ promised \in [Proc -> Lease \cup {None}]
      /\ CallFits(p)
  BY DEF PoolInv, PoolType, PoolTypeOK
<1>3. job \in AnyJob /\ (job.op = "acquire" => ConfigFits)
  BY <1>1, <1>2 DEF CallFits, Critical
<1> HIDE DEF out
<1>4. /\ calls' \in [Proc -> Call] /\ \A q \in Proc \ {p} : calls'[q] = calls[q]
      /\ calls'[p].job = job
      /\ \/ calls'[p].at = "unlock" /\ calls'[p].got \in Answers \ {"granted"}
         \/ /\ calls'[p].at = "open" /\ calls'[p].got = out.got /\ calls'[p].lease = out.lease
            /\ calls'[p].leases = out.leases /\ out.leases # None /\ Typed(out)
  BY <1>2, <1>3, ReadTakes, OutcomeTypes DEF HasRead, out
<1> HIDE DEF job
<1>5. ASSUME NEW q \in Proc
      PROVE  /\ promised'[q] \in Lease \cup {None}
             /\ promised'[q] # None => promised'[q].id = q
  BY <1>1, <1>2, <1>3, <1>5, StillRelied DEF PoolInv
<1>6. PoolType'
  <2>1. promised' = [q \in Proc |-> promised'[q]]
    BY <1>1 DEF GivenUp
  <2>2. promised' \in [Proc -> Lease \cup {None}]
    BY <1>5, <2>1
  <2> QED BY <1>1, <1>4, <2>2, CallsType DEF PoolInv, PoolType, PoolTypeOK
<1>7. CallFits(p)'
  <2>1. /\ calls'[p].job \in AnyJob /\ (calls'[p].job.op = "acquire" => ConfigFits')
        /\ calls'[p].job.of # None => calls'[calls'[p].job.of].at = "done"
    BY <1>1, <1>4, GoesFits DEF Critical, job
  <2> QED BY <1>4, <2>1 DEF CallFits, Typed
<1>8. \A q \in Proc : CallFits(q)'
  BY <1>1, <1>4, <1>7, OthersFit
<1>9. ASSUME Calm PROVE Calm'
  <2>1. WorksAlone(p) /\ file \in Leases /\ Covers(file) /\ Created(file) /\ Readable(p, file)
    BY <1>1, <1>9, ReadableFile DEF Calm, Kept, Critical
  <2>2. \A i \in Proc \ {p} : file[i] # None => calls[i].at \in {"done", "dead"}
    BY <2>1 DEF Created, WorksAlone, Critical
  <2>3. Covers(file)' /\ Exclusive(file)'
    BY <1>1, <1>3, <2>1, CoversLess DEF Readable, Exclusive, ConfigFits, Live
  <2>4. Created(file)'
    BY <1>1, <1>4, <2>1, <2>2 DEF Created
  <2>5. ASSUME NEW S, S = out.leases, calls'[p].at = "open" PROVE Pending(p, S)'
    <3>1. Written(p, file, out) /\ S \in Leases /\ S # None
      BY <1>3, <1>4, <2>1, <2>5, OutcomeWrites DEF out, Typed
    <3>2. Covers(S)'
      <4> SUFFICES ASSUME NEW q \in Proc, Live(promised'[q]) PROVE Has(S, promised'[q])
        BY <1>1 DEF Covers, Live, Has
      <4>1. Live(GivenUp(job)[q])
        BY <1>1
      <4>2. Outcome(p, job, file).leases = S
        BY <2>5 DEF out
      <4>3. Has(S, GivenUp(job)[q])
        BY <1>2, <1>3, <2>1, <3>1, <4>1, <4>2, OutcomeCovers DEF PoolInv
      <4> QED BY <1>1, <4>3
    <3>3. /\ Exclusive(S) /\ \A i \in Proc \ {p} : S[i] # None => file[i] # None
          /\ out.got = "granted" => S[out.lease.id] = out.lease
          /\ S[p] # None => out.got = "granted"
      BY <2>5, <3>1 DEF Written
    <3>4. Exclusive(S)'
      BY <1>1, <3>3 DEF Exclusive, ConfigFits, Live
    <3>5. CreatedBut(p, S)'
      BY <1>4, <2>2, <3>3 DEF CreatedBut
    <3>6. calls'[p].got = out.got /\ calls'[p].lease = out.lease
      BY <1>4, <2>5
    <3> QED BY <3>1, <3>2, <3>3, <3>4, <3>5, <3>6 DEF Pending, Kept
  <2>6. WorksAlone(p)'
    <3>1. PICK S : S = out.leases
      OBVIOUS
    <3>2. calls'[p].at = "open" => Pending(p, S)' /\ calls'[p].leases = S
      BY <1>4, <2>5, <3>1
    <3> QED BY <1>1, <1>4, <2>1, <3>2 DEF WorksAlone
  <2>7. \A q \in Proc \ {p} : calls'[q].at \notin Critical /\ fd'[q] = "none"
    BY <1>1, <1>4, <2>1 DEF WorksAlone
  <2>8. calls'[p].at \in Critical
    BY <1>4 DEF Critical
  <2> QED BY <1>1, <2>1, <2>3, <2>4, <2>6, <2>7, <2>8 DEF Calm, Kept
<1> QED BY <1>1, <1>5, <1>6, <1>8, <1>9 DEF PoolInv

\* It empties the temporary file.
LEMMA OpenKeeps == ASSUME PoolInv, NEW p \in Proc, openTmp(p) PROVE PoolInv'
<1>1. /\ calls[p].at = "open" /\ Goes(p, "write") /\ tmp' = Torn /\ fd' = [fd EXCEPT ![p] = "tmp"]
      /\ UNCHANGED <<clock, config, lock, file, promised, misjudged, crashes>>
  BY DEF openTmp
<1>2. /\ calls \in [Proc -> Call] /\ clock \in Nat /\ promised \in [Proc -> Lease \cup {None}]
      /\ fd \in [Proc -> {"none", "tmp", "file", "gone"}] /\ CallFits(p)
  BY DEF PoolInv, PoolType, PoolTypeOK
<1>3. /\ calls' \in [Proc -> Call] /\ calls'[p] = [calls[p] EXCEPT !.at = "write"]
      /\ \A q \in Proc \ {p} : calls'[q] = calls[q]
  BY <1>1, <1>2, GoesTo DEF Critical
<1>4. /\ calls'[p].at = "write" /\ calls'[p].job = calls[p].job /\ calls'[p].got = calls[p].got
      /\ calls'[p].lease = calls[p].lease /\ calls'[p].leases = calls[p].leases
  BY <1>2, <1>3 DEF Call
<1>5. \A q \in Proc : fd'[q] = IF q = p THEN "tmp" ELSE fd[q]
  BY <1>1, <1>2
<1>6. PoolType'
  <2>1. fd' \in [Proc -> {"none", "tmp", "file", "gone"}] /\ tmp' # None /\ tmp' \in Text
    BY <1>1, <1>2 DEF Text
  <2> QED BY <1>1, <1>3, <1>4, <2>1, CallsType DEF PoolInv, PoolType, PoolTypeOK
<1>7. CallFits(p)'
  <2>1. /\ calls'[p].job \in AnyJob /\ (calls'[p].job.op = "acquire" => ConfigFits')
        /\ calls'[p].job.of # None => calls'[calls'[p].job.of].at = "done"
    BY <1>1, <1>3, <1>4, GoesFits DEF Critical
  <2> QED BY <1>1, <1>2, <1>4, <1>5, <2>1 DEF CallFits
<1>8. \A q \in Proc : CallFits(q)'
  BY <1>1, <1>3, <1>5, <1>7, OthersFit
<1>9. ASSUME Calm PROVE Calm'
  <2>1. WorksAlone(p) /\ Kept(file) /\ Created(file)
    BY <1>1, <1>9 DEF Calm, Critical
  <2>2. Kept(file)' /\ Created(file)'
    BY <1>1, <1>2, <1>3, <1>4, <2>1, KeptLater DEF Created
  <2>3. PICK S : S = calls[p].leases
    OBVIOUS
  <2>4. Pending(p, S)'
    <3>1. Pending(p, S)
      BY <1>1, <2>1, <2>3 DEF WorksAlone
    <3> QED BY <1>1, <1>3, <1>4, <3>1, PendingSame
  <2>5. WorksAlone(p)'
    BY <1>1, <1>3, <1>4, <1>5, <2>1, <2>3, <2>4 DEF WorksAlone
  <2>6. calls'[p].at \in Critical
    BY <1>4 DEF Critical
  <2>7. \A q \in Proc \ {p} : calls'[q].at \notin Critical /\ fd'[q] = "none"
    BY <1>3, <1>5, <2>1 DEF WorksAlone
  <2> QED BY <2>2, <2>5, <2>6, <2>7 DEF Calm
<1> QED BY <1>1, <1>6, <1>8, <1>9 DEF PoolInv

\* It fills the temporary file.
LEMMA WriteKeeps == ASSUME PoolInv, NEW p \in Proc, writeTmp(p) PROVE PoolInv'
<1> DEFINE d == [calls[p] EXCEPT !.at = "rename", !.leases = None]
<1>1. /\ calls[p].at = "write"
      /\ calls' = [calls EXCEPT ![p].at = "rename", ![p].leases = None]
      /\ UNCHANGED <<clock, config, lock, fd, promised, misjudged, crashes>>
  BY DEF writeTmp
<1>2. /\ calls \in [Proc -> Call] /\ clock \in Nat /\ promised \in [Proc -> Lease \cup {None}]
      /\ fd \in [Proc -> {"none", "tmp", "file", "gone"}] /\ CallFits(p)
      /\ file \in Text /\ tmp \in Text \cup {None} /\ calls[p] \in Call
  BY DEF PoolInv, PoolType, PoolTypeOK
<1>3. calls[p].leases \in Leases /\ fd[p] \in {"tmp", "file", "gone"}
  BY <1>1, <1>2, Fields DEF CallFits
<1>4. /\ fd[p] = "tmp" => tmp' \in Filled(tmp, calls[p].leases) /\ UNCHANGED file
      /\ fd[p] = "file" => file' \in Filled(file, calls[p].leases) /\ UNCHANGED tmp
      /\ fd[p] = "gone" => UNCHANGED <<file, tmp>>
  BY DEF writeTmp
<1>5. d \in Call /\ d.at = "rename" /\ d.job = calls[p].job /\ d.got = calls[p].got
      /\ d.lease = calls[p].lease
  BY <1>2 DEF Call, Critical
<1>6. calls' = [calls EXCEPT ![p] = d]
  BY <1>1, <1>2
<1> HIDE DEF d
<1>7. /\ calls' \in [Proc -> Call] /\ calls'[p].at = "rename" /\ calls'[p].job = calls[p].job
      /\ calls'[p].got = calls[p].got /\ calls'[p].lease = calls[p].lease
      /\ \A q \in Proc \ {p} : calls'[q] = calls[q]
  BY <1>2, <1>5, <1>6
<1>8. PoolType'
  <2>1. file' \in Text /\ tmp' \in Text \cup {None} /\ (tmp # None => tmp' # None)
    BY <1>2, <1>3, <1>4 DEF Text, Filled
  <2> QED BY <1>1, <1>7, <2>1, CallsType DEF PoolInv, PoolType, PoolTypeOK
<1>9. CallFits(p)'
  <2>1. /\ calls'[p].job \in AnyJob /\ (calls'[p].job.op = "acquire" => ConfigFits')
        /\ calls'[p].job.of # None => calls'[calls'[p].job.of].at = "done"
    BY <1>1, <1>7, GoesFits DEF Critical
  <2> QED BY <1>1, <1>2, <1>7, <2>1 DEF CallFits
<1>10. \A q \in Proc : CallFits(q)'
  BY <1>1, <1>7, <1>9, OthersFit
<1>11. ASSUME Calm PROVE Calm'
  <2>1. WorksAlone(p) /\ Kept(file) /\ Created(file)
    BY <1>1, <1>11 DEF Calm, Critical
  <2>2. PICK S : S = calls[p].leases
    OBVIOUS
  <2>3. Pending(p, S) /\ tmp' = S /\ file' = file /\ fd'[p] = "tmp"
    BY <1>1, <1>4, <2>1, <2>2 DEF WorksAlone, Filled
  <2>4. Kept(file)' /\ Created(file)'
    BY <1>1, <1>2, <1>7, <2>1, <2>3, KeptLater DEF Created
  <2>5. Pending(p, S)'
    BY <1>1, <1>7, <2>3, PendingSame
  <2>6. WorksAlone(p)'
    BY <1>1, <1>7, <2>1, <2>3, <2>5 DEF WorksAlone
  <2>7. calls'[p].at \in Critical
    BY <1>7 DEF Critical
  <2>8. \A q \in Proc \ {p} : calls'[q].at \notin Critical /\ fd'[q] = "none"
    BY <1>1, <1>7, <2>1 DEF WorksAlone
  <2> QED BY <2>4, <2>6, <2>7, <2>8 DEF Calm
<1> QED BY <1>1, <1>8, <1>10, <1>11 DEF PoolInv

\* It makes the temporary file the state.
LEMMA RenameKeeps == ASSUME PoolInv, NEW p \in Proc, renameTmp(p) PROVE PoolInv'
<1>1. /\ calls[p].at = "rename" /\ UNCHANGED <<clock, config, lock, promised, misjudged, crashes>>
  BY DEF renameTmp
<1>2. /\ calls \in [Proc -> Call] /\ clock \in Nat /\ promised \in [Proc -> Lease \cup {None}]
      /\ fd \in [Proc -> {"none", "tmp", "file", "gone"}] /\ CallFits(p) /\ calls[p] \in Call
      /\ file \in Text /\ tmp \in Text \cup {None}
  BY DEF PoolInv, PoolType, PoolTypeOK
<1>3. CASE tmp = None
  <2> DEFINE d == [calls[p] EXCEPT !.at = "unlock", !.got = "STATE_UNWRITABLE"]
  <2>1. calls' = [calls EXCEPT ![p].at = "unlock", ![p].got = "STATE_UNWRITABLE"]
        /\ UNCHANGED <<file, tmp, fd>>
    BY <1>3 DEF renameTmp
  <2>2. d \in Call /\ d.at = "unlock" /\ d.got = "STATE_UNWRITABLE" /\ d.job = calls[p].job
    BY <1>2 DEF Call, Critical, Answers
  <2>3. calls' = [calls EXCEPT ![p] = d]
    BY <1>2, <2>1
  <2> HIDE DEF d
  <2>4. /\ calls' \in [Proc -> Call] /\ calls'[p].at = "unlock" /\ calls'[p].job = calls[p].job
        /\ calls'[p].got = "STATE_UNWRITABLE" /\ \A q \in Proc \ {p} : calls'[q] = calls[q]
    BY <1>2, <2>2, <2>3
  <2>5. PoolType'
    BY <1>1, <2>1, <2>4, CallsType DEF PoolInv, PoolType, PoolTypeOK
  <2>6. CallFits(p)'
    <3>1. /\ calls'[p].job \in AnyJob /\ (calls'[p].job.op = "acquire" => ConfigFits')
          /\ calls'[p].job.of # None => calls'[calls'[p].job.of].at = "done"
      BY <1>1, <2>4, GoesFits DEF Critical
    <3>2. "STATE_UNWRITABLE" # None
      BY DEF Answers
    <3> QED BY <2>4, <3>1, <3>2 DEF CallFits
  <2>7. \A q \in Proc : CallFits(q)'
    BY <1>1, <2>1, <2>4, <2>6, OthersFit
  <2>8. ~Calm
    BY <1>1, <1>3 DEF Calm, WorksAlone, Pending, Kept, Critical
  <2> QED BY <1>1, <2>5, <2>7, <2>8 DEF PoolInv
<1>4. CASE tmp # None
  <2>1. /\ Goes(p, "unlock") /\ file' = tmp /\ tmp' = None
        /\ fd' = [q \in Proc |-> CASE fd[q] = "tmp" -> "file" [] fd[q] = "file" -> "gone"
                                   [] OTHER -> fd[q]]
    BY <1>4 DEF renameTmp
  <2>2. /\ calls' \in [Proc -> Call] /\ calls'[p] = [calls[p] EXCEPT !.at = "unlock"]
        /\ \A q \in Proc \ {p} : calls'[q] = calls[q]
    BY <1>2, <2>1, GoesTo DEF Critical
  <2>3. /\ calls'[p].at = "unlock" /\ calls'[p].job = calls[p].job /\ calls'[p].got = calls[p].got
        /\ calls'[p].lease = calls[p].lease
    BY <1>2, <2>2 DEF Call
  <2>4. \A q \in Proc : fd'[q] \in {"none", "file", "gone"} /\ (fd[q] = "none" <=> fd'[q] = "none")
    BY <1>2, <2>1
  <2>5. PoolType'
    <3>1. fd' \in [Proc -> {"none", "tmp", "file", "gone"}] /\ \A q \in Proc : fd'[q] # "tmp"
      BY <2>1, <2>4
    <3> QED BY <1>1, <1>2, <1>4, <2>1, <2>2, <2>3, <3>1, CallsType DEF PoolInv, PoolType, PoolTypeOK
  <2>6. CallFits(p)'
    <3>1. /\ calls'[p].job \in AnyJob /\ (calls'[p].job.op = "acquire" => ConfigFits')
          /\ calls'[p].job.of # None => calls'[calls'[p].job.of].at = "done"
      BY <1>1, <2>2, <2>3, GoesFits DEF Critical
    <3> QED BY <1>1, <1>2, <2>3, <3>1 DEF CallFits
  <2>7. \A q \in Proc : CallFits(q)'
    BY <1>1, <2>2, <2>4, <2>6, OthersFit
  <2>8. ASSUME Calm PROVE Calm'
    <3>1. WorksAlone(p)
      BY <1>1, <2>8 DEF Calm, Critical
    <3>2. PICK S : S = tmp
      OBVIOUS
    <3>3. Pending(p, S) /\ file' = S
      BY <1>1, <2>1, <3>1, <3>2 DEF WorksAlone
    <3>4. Pending(p, S)'
      BY <1>1, <2>2, <2>3, <3>3, PendingSame
    <3>5. Kept(file)' /\ Created(file)'
      BY <2>2, <2>3, <3>3, <3>4 DEF Pending, Created, CreatedBut
    <3>6. \A q \in Proc \ {p} : calls'[q].at \notin Critical /\ fd'[q] = "none"
      BY <2>2, <2>4, <3>1 DEF WorksAlone
    <3>7. WorksAlone(p)'
      BY <1>1, <2>3, <3>1, <3>3, <3>4, <3>6 DEF WorksAlone, Pending
    <3>8. calls'[p].at \in Critical
      BY <2>3 DEF Critical
    <3> QED BY <3>5, <3>6, <3>7, <3>8 DEF Calm
  <2> QED BY <1>1, <2>5, <2>7, <2>8 DEF PoolInv
<1> QED BY <1>3, <1>4

----------------------------------------------------------------------------
(* The theorems *)

\* An empty pool.
LEMMA InitInv == PoolInit => PoolInv
<1> SUFFICES ASSUME PoolInit PROVE PoolInv
  OBVIOUS
<1>1. /\ clock = 0 /\ lock = None /\ file = NoLeases /\ tmp = None /\ misjudged = FALSE
      /\ calls = [p \in Proc |-> Fresh] /\ fd = [p \in Proc |-> "none"]
      /\ promised = [p \in Proc |-> None] /\ crashes = 0
  BY DEF PoolInit
<1>2. Fresh \in Call /\ Fresh.at = "new"
  BY FreshType DEF Fresh
<1>3. \A p \in Proc : calls[p] \in Call /\ calls[p].at = "new" /\ fd[p] = "none"
                      /\ promised[p] = None /\ NoLeases[p] = None
  BY <1>1, <1>2 DEF NoLeases
<1>4. NoLeases \in Leases
  BY DEF NoLeases, Leases
<1>5. PoolType
  <2>1. /\ calls \in [Proc -> Call] /\ promised \in [Proc -> Lease \cup {None}]
        /\ fd \in [Proc -> {"none", "tmp", "file", "gone"}] /\ file \in Text
        /\ tmp \in Text \cup {None}
    BY <1>1, <1>2, <1>4 DEF Text
  <2>2. PoolTypeOK
    <3>1. 0 \in 0 .. MaxTime /\ 0 \in 0 .. MaxCrashes
      OBVIOUS
    <3>2. clock \in 0 .. MaxTime /\ crashes \in 0 .. MaxCrashes
      BY <1>1, <3>1
    <3>3. misjudged \in BOOLEAN /\ lock = None
      BY <1>1
    <3> QED BY <1>3, <2>1, <3>2, <3>3 DEF PoolTypeOK
  <2> QED BY <2>1, <2>2 DEF PoolType
<1>6. \A p \in Proc : CallFits(p)
  BY <1>3 DEF CallFits, Critical
<1>7. Calm
  BY <1>1, <1>3, <1>4 DEF Calm, Kept, Exclusive, Covers, Created, Live, Critical
<1> QED BY <1>3, <1>5, <1>6, <1>7 DEF PoolInv

\* Nothing happens.
LEMMA StutterKeeps == ASSUME PoolInv, UNCHANGED poolVars PROVE PoolInv'
<1> USE DEF poolVars
<1>1. PoolType'
  BY DEF PoolInv, PoolType, PoolTypeOK
<1>2. \A p \in Proc : CallFits(p)' /\ (promised'[p] # None => promised'[p].id = p)
  BY DEF PoolInv, CallFits, ConfigFits
<1>3. Calm => Calm'
  BY DEF Calm, Kept, Exclusive, ConfigFits, Covers, Has, Created, WorksAlone, Pending, CreatedBut, Live
<1> QED BY <1>1, <1>2, <1>3 DEF PoolInv

\* Every step keeps the invariant.
LEMMA NextInv == PoolInv /\ [PoolNext]_poolVars => PoolInv'
<1> SUFFICES ASSUME PoolInv, [PoolNext]_poolVars PROVE PoolInv'
  OBVIOUS
<1>1. CASE Tick
  BY <1>1, TickKeeps
<1>2. ASSUME NEW p \in Proc, Steps(p) \/ Crash(p) \/ \E job \in Jobs[p] : Start(p, job)
      PROVE  PoolInv'
  BY <1>2, MkdirKeeps, StatKeeps, StealKeeps, UnlockKeeps, ReadKeeps, OpenKeeps, WriteKeeps,
     RenameKeeps, CrashKeeps, StartKeeps DEF Steps
<1>3. CASE UNCHANGED poolVars
  BY <1>3, StutterKeeps
<1> QED BY <1>1, <1>2, <1>3 DEF PoolNext

\* Unless a lock is stolen from a call that was only slow, one call works on the
\* state file at a time, and the leases it has read, computed, written or renamed
\* cover every promise and exclude each other.
THEOREM PoolInvariant == PoolSpec => []PoolInv
BY InitInv, NextInv, PTL DEF PoolSpec

\* Leases that were granted hold, and exclude each other on the physical profile,
\* until a lock is stolen from a call that was only slow.
THEOREM GrantedLeasesHold == PoolSpec => []LeasesHold
<1>1. PoolInv => LeasesHold
  <2> SUFFICES ASSUME PoolInv PROVE LeasesHold
    OBVIOUS
  <2>1. PoolTypeOK
    BY DEF PoolInv, PoolType
  <2>2. HeldAloneUnlessMisjudged
    <3> SUFFICES ASSUME ~misjudged, NEW p \in Proc, NEW q \in Proc, p # q,
                        calls[p].at \in Critical, calls[q].at \in Critical
                 PROVE  FALSE
      BY DEF HeldAloneUnlessMisjudged
    <3> QED BY DEF PoolInv, Calm, WorksAlone
  <2>3. ASSUME ~misjudged, NEW l \in Granted
        PROVE  /\ file \in Leases /\ l.id \in Proc /\ file[l.id] # None /\ Live(file[l.id])
               /\ file[l.id].alias = l.alias /\ file[l.id].tab = l.tab /\ promised[l.id] = l
    <3>1. PICK p \in Proc : l = promised[p] /\ Live(promised[p])
      BY <2>3 DEF Granted
    <3>2. l.id = p /\ l \in Lease /\ clock \in Nat
      BY <3>1 DEF PoolInv, PoolType, PoolTypeOK, Live
    <3>3. file \in Leases /\ Has(file, l)
      BY <2>3, <3>1 DEF PoolInv, Calm, Kept, Covers
    <3>4. file[l.id] \in Lease
      BY <3>2, <3>3 DEF Has, Leases
    <3>5. file[l.id].until > clock
      BY <3>1, <3>2, <3>3, <3>4, LeaseFields DEF Live, Has
    <3> QED BY <3>1, <3>2, <3>3, <3>5 DEF Live, Has
  <2>4. LeasesExclude
    <3> SUFFICES ASSUME ~misjudged, NEW l \in Granted, NEW m \in Granted, l # m,
                        config[l.alias] = config[m.alias]
                 PROVE  l.tab = "shared" /\ m.tab = "shared"
      BY DEF LeasesExclude
    <3>1. Exclusive(file)
      BY DEF PoolInv, Calm, Kept
    <3>2. l.id # m.id /\ l.id \in Proc /\ m.id \in Proc
      BY <2>3
    <3>3. ConfigFits
      BY <2>3, <3>1 DEF Exclusive
    <3>4. l.alias = m.alias
      <4>1. l.alias \in Alias /\ m.alias \in Alias
        BY LeaseFields DEF Granted, PoolInv, PoolType, Live
      <4> QED BY <3>3, <4>1 DEF ConfigFits
    <3> QED BY <2>3, <3>1, <3>2, <3>4 DEF Exclusive
  <2>5. PromisedLeasesStand
    BY <2>3 DEF PromisedLeasesStand, PoolInv, Calm, Kept
  <2> QED BY <2>1, <2>2, <2>4, <2>5 DEF LeasesHold
<1> QED BY <1>1, PoolInvariant, PTL
=============================================================================
