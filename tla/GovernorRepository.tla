------------------------- MODULE GovernorRepository -------------------------
(***************************************************************************)
(* The single-writer rule of the governor's state file                     *)
(* (profile-governor/repository.mjs).  The gateway and the command line    *)
(* tools are processes of one machine; each opens the repository by making *)
(* the directory <state>.writer, puts owner.json in it, and steals the     *)
(* directory of a process that no longer exists.  Every file system call   *)
(* is an action of its own: processes interleave and die between any two.  *)
(***************************************************************************)
EXTENDS Naturals

CONSTANTS
  Process,    \* process identifiers; one is used again after its process died
  MaxOpens,   \* bound of the model: repositories opened under one identifier
  MaxCommits  \* bound of the model: transactions started below this generation

ASSUME BoundsAssumption == MaxOpens \in Nat /\ MaxCommits \in Nat

VARIABLES
  pc,         \* where each process is
  opens,      \* repositories opened under each identifier: the writerId
  writerDir,  \* the writer directory
  version,    \* writerGeneration of the state file
  base,       \* the generation that the transaction of a process has read
  commits,    \* history: state files put in place
  contested   \* history: two processes were stealing at the same time

vars == <<pc, opens, writerDir, version, base, commits, contested>>

Phase == {"dead", "idle", "starting", "made", "inspect", "steal", "unlinked",
          "writer", "read", "checked", "closing", "emptied"}

\* The directory without owner.json, and no directory at all.
Bare   == [dir |-> TRUE, pid |-> {}, id |-> 0]
Absent == [dir |-> FALSE, pid |-> {}, id |-> 0]
OwnedBy(p) == [dir |-> TRUE, pid |-> {p}, id |-> opens[p]]

Goto(p, phase) == pc' = [pc EXCEPT ![p] = phase]

Stealing(p) == pc[p] \in {"steal", "unlinked"}
Starting(p) == Stealing(p) \/ pc[p] \in {"starting", "made", "inspect"}
Holding(p)  == pc[p] \in {"writer", "read", "checked"}

Init ==
  /\ pc = [p \in Process |-> "dead"]
  /\ opens = [p \in Process |-> 0]
  /\ writerDir = Absent
  /\ version = 0 /\ base = [p \in Process |-> 0]
  /\ commits = 0 /\ contested = FALSE

----------------------------------------------------------------------------
(* Opening the repository: _acquireWriter *)

Open(p) ==
  /\ pc[p] = "idle" /\ opens[p] < MaxOpens
  /\ opens' = [opens EXCEPT ![p] = @ + 1]
  /\ Goto(p, "starting")
  /\ UNCHANGED <<writerDir, version, base, commits, contested>>

MakeDirectory(p) ==
  /\ pc[p] = "starting"
  /\ \/ ~writerDir.dir /\ writerDir' = Bare /\ Goto(p, "made")
     \/ writerDir.dir /\ Goto(p, "inspect") /\ UNCHANGED writerDir
  /\ UNCHANGED <<opens, version, base, commits, contested>>

\* owner.json is created exclusively: an owner.json that is there already
\* sends the process to inspect it, a directory that is gone refuses it.
WriteOwner(p) ==
  /\ pc[p] = "made"
  /\ \/ writerDir = Bare /\ writerDir' = OwnedBy(p) /\ Goto(p, "writer")
     \/ writerDir.dir /\ writerDir # Bare /\ Goto(p, "inspect") /\ UNCHANGED writerDir
     \/ ~writerDir.dir /\ Goto(p, "idle") /\ UNCHANGED writerDir
  /\ UNCHANGED <<opens, version, base, commits, contested>>

\* kill(pid, 0), which is not asked of one's own pid.
Alive(p, q) == q = p \/ pc[q] # "dead"

FoundDead(p) == \E q \in writerDir.pid : ~Alive(p, q)

\* Mutant: the owner is not asked for a sign of life.
InspectBlindly(p) ==
  /\ pc[p] = "inspect" /\ writerDir.pid # {}
  /\ Goto(p, "steal")
  /\ contested' = (contested \/ \E q \in Process \ {p} : Stealing(q))
  /\ UNCHANGED <<opens, writerDir, version, base, commits>>

Inspect(p) ==
  /\ pc[p] = "inspect" /\ FoundDead(p)
  /\ Goto(p, "steal")
  /\ contested' = (contested \/ \E q \in Process \ {p} : Stealing(q))
  /\ UNCHANGED <<opens, writerDir, version, base, commits>>

\* Another writer is active, or who owns the directory cannot be read.
Refused(p) ==
  /\ pc[p] = "inspect" /\ ~FoundDead(p)
  /\ Goto(p, "idle")
  /\ UNCHANGED <<opens, writerDir, version, base, commits, contested>>

\* Mutant: the removal of owner.json fails, and its error is swallowed.
StealOwnerFailing(p) ==
  /\ pc[p] = "steal"
  /\ Goto(p, "unlinked")
  /\ UNCHANGED <<opens, writerDir, version, base, commits, contested>>

\* rmSync of the directory is two system calls.  It removes the owner.json
\* that is there now, whoever wrote it.
StealOwner(p) ==
  /\ pc[p] = "steal"
  /\ writerDir' = IF writerDir.dir THEN Bare ELSE writerDir
  /\ Goto(p, "unlinked")
  /\ UNCHANGED <<opens, version, base, commits, contested>>

\* A directory that is not empty stays.  After two seconds of this the
\* process gives up.
StealDirectory(p) ==
  /\ pc[p] = "unlinked"
  /\ writerDir' = IF writerDir = Bare THEN Absent ELSE writerDir
  /\ Goto(p, "starting") \/ Goto(p, "idle")
  /\ UNCHANGED <<opens, version, base, commits, contested>>

----------------------------------------------------------------------------
(* transact and close *)

\* _assertWriter: pid and writerId of owner.json are those of this repository.
IsWriter(p) == writerDir = OwnedBy(p)

Read(p) ==
  /\ pc[p] = "writer" /\ IsWriter(p) /\ version < MaxCommits
  /\ base' = [base EXCEPT ![p] = version]
  /\ Goto(p, "read")
  /\ UNCHANGED <<opens, writerDir, version, commits, contested>>

Check(p) ==
  /\ pc[p] = "read"
  /\ Goto(p, IF IsWriter(p) THEN "checked" ELSE "writer")
  /\ UNCHANGED <<opens, writerDir, version, base, commits, contested>>

Rename(p) ==
  /\ pc[p] = "checked"
  /\ version' = base[p] + 1 /\ commits' = commits + 1
  /\ Goto(p, "writer")
  /\ UNCHANGED <<opens, writerDir, base, contested>>

Close(p) ==
  /\ pc[p] = "writer" /\ IsWriter(p)
  /\ Goto(p, "closing")
  /\ UNCHANGED <<opens, writerDir, version, base, commits, contested>>

CloseOwner(p) ==
  /\ pc[p] = "closing"
  /\ writerDir' = IF writerDir.dir THEN Bare ELSE writerDir
  /\ Goto(p, "emptied")
  /\ UNCHANGED <<opens, version, base, commits, contested>>

CloseDirectory(p) ==
  /\ pc[p] = "emptied"
  /\ writerDir' = IF writerDir = Bare THEN Absent ELSE writerDir
  /\ Goto(p, "idle")
  /\ UNCHANGED <<opens, version, base, commits, contested>>

----------------------------------------------------------------------------
(* Processes come and go *)

Boot(p) ==
  /\ pc[p] = "dead"
  /\ Goto(p, "idle")
  /\ UNCHANGED <<opens, writerDir, version, base, commits, contested>>

Die(p) ==
  /\ pc[p] # "dead"
  /\ Goto(p, "dead")
  /\ UNCHANGED <<opens, writerDir, version, base, commits, contested>>

\* What a process does on its own, once it has begun.
Proceed(p) ==
  \/ MakeDirectory(p) \/ WriteOwner(p) \/ Inspect(p) \/ Refused(p)
  \/ StealOwner(p) \/ StealDirectory(p)
  \/ Check(p) \/ Rename(p) \/ CloseOwner(p) \/ CloseDirectory(p)

Next == \E p \in Process : Open(p) \/ Read(p) \/ Close(p) \/ Proceed(p) \/ Boot(p) \/ Die(p)

\* The calls are synchronous: a process that lives gets through them.
Fairness == \A p \in Process : WF_vars(Proceed(p))

Spec == Init /\ [][Next]_vars /\ Fairness

----------------------------------------------------------------------------
(* Correctness *)

\* Every variable keeps its shape; an owner is a process and a writerId that
\* was drawn for this repository.
TypeOK ==
  /\ pc \in [Process -> Phase]
  /\ opens \in [Process -> Nat]
  /\ writerDir \in {Bare, Absent} \cup [dir : {TRUE}, pid : {{p} : p \in Process}, id : 1..MaxOpens]
  /\ version \in Nat /\ base \in [Process -> Nat]
  /\ commits \in Nat /\ contested \in BOOLEAN

\* Of two repositories that are open one has to have been refused.
OneWriter == \A p, q \in Process : Holding(p) /\ Holding(q) => p = q

\* The writer directory keeps writers apart through every death and restart,
\* unless two processes went on to steal it from the same dead owner.
OneWriterUnlessRaced == contested \/ OneWriter

\* writerGeneration counts the transactions: none was overwritten by one that
\* had read an older state.
UpdatesNotLost == contested \/ version = commits

\* Opening ends, with a repository or a refusal, whatever the others do.
OpeningEnds == \A p \in Process : Starting(p) ~> ~Starting(p)

\* The state file has one writer at a time and keeps what was written.
StateFileSafe == TypeOK /\ OneWriterUnlessRaced /\ UpdatesNotLost
=============================================================================
