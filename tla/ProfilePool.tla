----------------------------- MODULE ProfilePool -----------------------------
(***************************************************************************)
(* The legacy profile pool (lib/profile-pool): broker calls, each a        *)
(* process of its own, share one state file.  A lock directory serializes  *)
(* them; one that is old is taken for that of a crashed call and stolen.   *)
(* Every step is one call of the file system.                              *)
(***************************************************************************)
EXTENDS Naturals, FiniteSets

CONSTANTS
  Proc,          \* broker calls; a lease is known by the call that created it
  Alias,
  Configs,       \* the config files there may be: the physical profile of each alias
  Jobs,          \* what each call may be asked for
  LOCK_RETRY_MS, LOCK_STALE_MS,  \* in ticks
  MaxTime, MaxCrashes,           \* bounds of the model
  Torn,          \* the text of a file written halfway
  None

Tabs == {"own", "shared"}
Keys == {j.key : j \in UNION {Jobs[p] : p \in Proc}}
Lease == [id : Proc, alias : Alias, tab : Tabs, key : Keys, until : Nat]

\* state.leases, by lease id.
Leases == [Proc -> Lease \cup {None}]
NoLeases == [p \in Proc |-> None]

\* What a call may answer.
Answers ==
  {"granted", "ok", "CONFIG_INVALID", "STATE_BUSY", "STATE_INVALID", "STATE_UNWRITABLE",
   "CONFLICT", "EXHAUSTED", "LEASE_NOT_FOUND", "RECLAIM_CONFIRMATION_REQUIRED"}

ASSUME PoolAssumption ==
  /\ \A p \in Proc : \A j \in Jobs[p] :
       /\ j.op \in {"acquire", "renew", "release", "reclaim", "list"} /\ j.alias \in Alias
       /\ j.tab \in Tabs /\ j.ttl \in Nat /\ j.timeout \in Nat /\ j.yes \in BOOLEAN
       /\ j.of \in Proc \cup {None} /\ (j.op \in {"renew", "release"} => j.of # None)
  /\ LOCK_RETRY_MS \in Nat /\ LOCK_STALE_MS \in Nat /\ MaxTime \in Nat /\ MaxCrashes \in Nat

ASSUME DistinctAssumption ==
  /\ None # Torn /\ Torn \notin Leases
  /\ None \notin Nat /\ None \notin Answers /\ None \notin Proc
  /\ None \notin Lease /\ None \notin Leases

VARIABLES
  clock,
  config,    \* the physical profile of each alias
  lock,      \* the lock directory: when it was made, or None
  file,      \* the leases of the state file, or Torn
  tmp,       \* the temporary file, None while there is none
  calls,     \* how far each call is
  fd,        \* where the file a call has opened is by now
  promised,  \* history: the lease every call was granted, or None
  misjudged, \* history: a lock was stolen that was not that of a dead call
  crashes

poolVars == <<clock, config, lock, file, tmp, calls, fd, promised, misjudged, crashes>>

Critical == {"read", "open", "write", "rename", "unlock"}
Fresh == [at |-> "new", job |-> None, since |-> 0, deadline |-> 0, stole |-> FALSE,
          leases |-> None, got |-> None, lease |-> None]

PoolTypeOK ==
  /\ clock \in 0 .. MaxTime /\ crashes \in 0 .. MaxCrashes /\ misjudged \in BOOLEAN
  /\ lock = None \/ lock \in 0 .. clock
  /\ \A p \in Proc : calls[p].at \in Critical \cup
       {"new", "mkdir", "stat", "steal", "done", "dead"}
  /\ \A p \in Proc : calls[p].at = "done" => calls[p].got # None
  /\ fd \in [Proc -> {"none", "tmp", "file", "gone"}]
  /\ tmp # None \/ \A p \in Proc : fd[p] # "tmp"

PoolInit ==
  /\ clock = 0 /\ config \in Configs /\ lock = None /\ file = NoLeases /\ tmp = None
  /\ calls = [p \in Proc |-> Fresh] /\ fd = [p \in Proc |-> "none"]
  /\ promised = [p \in Proc |-> None] /\ misjudged = FALSE /\ crashes = 0

-----------------------------------------------------------------------------
(* Leases *)

Live(lease) == lease # None /\ lease.until > clock

sweepExpired(leases) == [i \in Proc |-> IF Live(leases[i]) THEN leases[i] ELSE None]

\* readProfilePoolConfig refuses two aliases of one physical profile.
ConfigFits == \A a, b \in Alias : config[a] = config[b] => a = b

HeldOn(alias, leases) == {i \in Proc : Live(leases[i]) /\ leases[i].alias = alias}

Conflicts(job, leases) ==
  LET held == HeldOn(job.alias, leases)
  IN held # {} /\ (job.tab = "own" \/ \E i \in held : leases[i].tab = "own")

\* What a call makes of the leases it has read: the leases to be written, or None
\* when nothing is written, what it answers, and the lease granted.
acquireLease(p, job, leases) ==
  LET reused == {i \in HeldOn(job.alias, leases) : job.key # None /\ leases[i].key = job.key}
      lease  == [id |-> p, alias |-> job.alias, tab |-> job.tab, key |-> job.key,
                 until |-> clock + job.ttl]
  IN CASE reused # {} ->
            [leases |-> sweepExpired(leases), got |-> "granted",
             lease |-> leases[CHOOSE i \in reused : TRUE]]
       [] reused = {} /\ Conflicts(job, leases) ->
            [leases |-> None, got |-> "CONFLICT", lease |-> None]
       [] OTHER ->
            [leases |-> [sweepExpired(leases) EXCEPT ![p] = lease], got |-> "granted",
             lease |-> lease]

renewLease(job, leases) ==
  LET longer == [leases[job.of] EXCEPT !.until = clock + job.ttl]
  IN IF ~Live(leases[job.of]) THEN [leases |-> None, got |-> "LEASE_NOT_FOUND", lease |-> None]
     ELSE [leases |-> [sweepExpired(leases) EXCEPT ![job.of] = longer], got |-> "granted",
           lease |-> longer]

releaseLease(job, leases) ==
  [leases |-> [sweepExpired(leases) EXCEPT ![job.of] = None], got |-> "ok", lease |-> None]

reclaimAlias(job, leases) ==
  LET held == HeldOn(job.alias, leases)
  IN IF held # {} /\ ~job.yes
     THEN [leases |-> None, got |-> "RECLAIM_CONFIRMATION_REQUIRED", lease |-> None]
     ELSE [leases |-> [i \in Proc |-> IF i \in held THEN None ELSE sweepExpired(leases)[i]],
           got |-> "ok", lease |-> None]

\* list and status write only when something has expired.  (Left out: an unreadable
\* configuration, or an alias it does not have, ends a call with an error of its own.)
List(leases) ==
  [leases |-> IF sweepExpired(leases) = leases THEN None ELSE sweepExpired(leases),
   got |-> "ok", lease |-> None]

Outcome(p, job, leases) ==
  CASE job.op = "acquire" -> acquireLease(p, job, leases)
    [] job.op = "renew"   -> renewLease(job, leases)
    [] job.op = "release" -> releaseLease(job, leases)
    [] job.op = "reclaim" -> reclaimAlias(job, leases)
    [] job.op = "list"    -> List(leases)

-----------------------------------------------------------------------------
(* The lock *)

Goes(p, at) == calls' = [calls EXCEPT ![p].at = at]
Ends(p, got) == calls' = [calls EXCEPT ![p] = [Fresh EXCEPT !.at = "done", !.got = got]]

\* withStateLock begins: acquire has checked the config, the others have not.
Locking(p, job, since) ==
  [at |-> "mkdir", job |-> job, since |-> since, deadline |-> clock + LOCK_RETRY_MS,
   stole |-> FALSE, leases |-> None, got |-> None, lease |-> None]

\* A lease is known to others once it has been granted.
Start(p, job) ==
  /\ calls[p].at = "new" /\ clock + job.timeout + LOCK_RETRY_MS <= MaxTime
  /\ job.of # None => calls[job.of].at = "done"
  /\ calls' = [calls EXCEPT ![p] =
                 IF job.op = "acquire" /\ ~ConfigFits
                 THEN [Fresh EXCEPT !.at = "done", !.got = "CONFIG_INVALID"]
                 ELSE Locking(p, job, clock)]
  /\ UNCHANGED <<clock, config, lock, file, tmp, fd, promised, misjudged, crashes>>

mkdirSync(p) ==
  /\ calls[p].at = "mkdir"
  /\ IF lock = None THEN lock' = clock /\ Goes(p, "read")
     ELSE Goes(p, "stat") /\ UNCHANGED lock
  /\ UNCHANGED <<clock, config, file, tmp, fd, promised, misjudged, crashes>>

\* Mutant: a call waits for the lock without a deadline.
StatsForever(p) ==
  /\ calls[p].at = "stat"
  /\ IF lock # None /\ clock - lock > LOCK_STALE_MS /\ ~calls[p].stole THEN Goes(p, "steal")
     ELSE Goes(p, "mkdir")
  /\ UNCHANGED <<clock, config, lock, file, tmp, fd, promised, misjudged, crashes>>

\* A lock that is gone is tried again at once, a stale one stolen once, and past
\* the deadline the call gives up.
statSync(p) ==
  /\ calls[p].at = "stat"
  /\ IF lock # None /\ clock - lock > LOCK_STALE_MS /\ ~calls[p].stole THEN Goes(p, "steal")
     ELSE IF lock # None /\ clock >= calls[p].deadline THEN Ends(p, "STATE_BUSY")
     ELSE Goes(p, "mkdir")
  /\ UNCHANGED <<clock, config, lock, file, tmp, fd, promised, misjudged, crashes>>

\* The thief removes the lock that is there now, which may be a newer one than it
\* has looked at, or that of a call that is only slow.
Steal(p) ==
  /\ calls[p].at = "steal"
  /\ lock' = None /\ calls' = [calls EXCEPT ![p].at = "mkdir", ![p].stole = TRUE]
  /\ misjudged' = (misjudged \/ \E q \in Proc : calls[q].at \in Critical)
  /\ UNCHANGED <<clock, config, file, tmp, fd, promised, crashes>>

\* finally: the lock directory goes, whoever has made it.  An acquire that met a
\* conflict tries again while its time lasts.
Unlock(p) ==
  LET c == calls[p]
  IN /\ c.at = "unlock" /\ lock' = None
     /\ fd' = [fd EXCEPT ![p] = "none"]
     /\ misjudged' = (misjudged \/ \E q \in Proc \ {p} : calls[q].at \in Critical)
     /\ IF c.got = "CONFLICT" /\ c.job.timeout > 0
        THEN IF clock - c.since >= c.job.timeout THEN Ends(p, "EXHAUSTED")
             ELSE calls' = [calls EXCEPT ![p] = Locking(p, c.job, c.since)]
        ELSE Ends(p, c.got)
     /\ promised' = IF c.got = "granted" /\ c.job.op \in {"acquire", "renew"}
                    THEN [promised EXCEPT ![c.lease.id] = c.lease] ELSE promised
  /\ UNCHANGED <<clock, config, file, tmp, crashes>>

-----------------------------------------------------------------------------
(* The state file *)

\* Who releases or reclaims gives the leases up, and who renews one takes it for
\* the time named now, be it shorter: whatever becomes of the call then.
GivenUp(job) ==
  [p \in Proc |->
     LET l == promised[p]
     IN IF \/ l = None
           \/ job.op = "release" /\ l.id = job.of
           \/ job.op = "reclaim" /\ job.yes /\ l.alias = job.alias
        THEN None
        ELSE IF job.op = "renew" /\ l.id = job.of /\ clock + job.ttl < l.until
        THEN [l EXCEPT !.until = clock + job.ttl] ELSE l]

\* Under the lock the file is read and the change computed in one go.
readStateFile(p) ==
  /\ calls[p].at = "read"
  /\ LET job == calls[p].job
         out == Outcome(p, job, file)
         Fails(code) == calls' = [calls EXCEPT ![p].at = "unlock", ![p].got = code]
     IN IF job.op = "reclaim" /\ ~ConfigFits THEN Fails("CONFIG_INVALID")
        ELSE IF file = Torn THEN Fails("STATE_INVALID")
        ELSE calls' = [calls EXCEPT ![p].at = IF out.leases = None THEN "unlock" ELSE "open",
                                    ![p].got = out.got, ![p].lease = out.lease,
                                    ![p].leases = out.leases]
  /\ promised' = GivenUp(calls[p].job)
  /\ UNCHANGED <<clock, config, lock, file, tmp, fd, misjudged, crashes>>

\* Mutant: the state file itself is opened and filled.
OpenInPlace(p) ==
  /\ calls[p].at = "open" /\ Goes(p, "write")
  /\ file' = Torn /\ fd' = [fd EXCEPT ![p] = "file"]
  /\ UNCHANGED <<clock, config, lock, tmp, promised, misjudged, crashes>>

\* writeStateFile: all calls share one temporary file.  It is emptied by opening
\* it, filled, and renamed.
openTmp(p) ==
  /\ calls[p].at = "open" /\ Goes(p, "write")
  /\ tmp' = Torn /\ fd' = [fd EXCEPT ![p] = "tmp"]
  /\ UNCHANGED <<clock, config, lock, file, promised, misjudged, crashes>>

\* Of two who fill one file either wins, or the text is neither's.
Filled(now, new) == IF now = Torn THEN {new} ELSE {new, Torn}

writeTmp(p) ==
  /\ calls[p].at = "write" /\ calls' = [calls EXCEPT ![p].at = "rename", ![p].leases = None]
  /\ CASE fd[p] = "tmp"  -> tmp' \in Filled(tmp, calls[p].leases) /\ UNCHANGED file
       [] fd[p] = "file" -> file' \in Filled(file, calls[p].leases) /\ UNCHANGED tmp
       [] fd[p] = "gone" -> UNCHANGED <<file, tmp>>
  /\ UNCHANGED <<clock, config, lock, fd, promised, misjudged, crashes>>

\* The file the others have open goes with its name.
renameTmp(p) ==
  /\ calls[p].at = "rename"
  /\ IF tmp = None
     THEN /\ calls' = [calls EXCEPT ![p].at = "unlock", ![p].got = "STATE_UNWRITABLE"]
          /\ UNCHANGED <<file, tmp, fd>>
     ELSE /\ Goes(p, "unlock") /\ file' = tmp /\ tmp' = None
          /\ fd' = [q \in Proc |-> CASE fd[q] = "tmp" -> "file" [] fd[q] = "file" -> "gone"
                                     [] OTHER -> fd[q]]
  /\ UNCHANGED <<clock, config, lock, promised, misjudged, crashes>>

-----------------------------------------------------------------------------
\* A call that dies without the lock leaves nothing behind.
Crash(p) ==
  /\ calls[p].at \in Critical /\ crashes < MaxCrashes
  /\ crashes' = crashes + 1 /\ calls' = [calls EXCEPT ![p] = [Fresh EXCEPT !.at = "dead"]] /\ fd' = [fd EXCEPT ![p] = "none"]
  /\ UNCHANGED <<clock, config, lock, file, tmp, promised, misjudged>>

Tick ==
  /\ clock < MaxTime /\ clock' = clock + 1
  /\ UNCHANGED <<config, lock, file, tmp, calls, fd, promised, misjudged, crashes>>

Steps(p) ==
  \/ mkdirSync(p) \/ statSync(p) \/ Steal(p) \/ Unlock(p)
  \/ readStateFile(p) \/ openTmp(p) \/ writeTmp(p) \/ renameTmp(p)

PoolNext ==
  \/ Tick
  \/ \E p \in Proc : \/ Steps(p) \/ Crash(p)
                     \/ \E job \in Jobs[p] : Start(p, job)

\* A call that is not dead goes on, and time passes.
PoolFairness == WF_poolVars(Tick) /\ \A p \in Proc : WF_poolVars(Steps(p))

PoolSpec == PoolInit /\ [][PoolNext]_poolVars /\ PoolFairness

-----------------------------------------------------------------------------
\* Two calls are between lock and unlock at once only after a lock was stolen
\* from a call that was not dead.
HeldAloneUnlessMisjudged ==
  (\E p, q \in Proc : p # q /\ calls[p].at \in Critical /\ calls[q].at \in Critical) => misjudged

Granted == {promised[p] : p \in {q \in Proc : Live(promised[q])}}

\* Until then leases that callers rely on and that have not expired exclude each
\* other as they should, on the physical profile and not only on the alias.
LeasesExclude ==
  ~misjudged => \A l, m \in Granted :
    l # m /\ config[l.alias] = config[m.alias] => l.tab = "shared" /\ m.tab = "shared"

\* And the state file, which is always whole, still has them: no call that reads
\* it and writes it back, and none that crashes on the way, loses one.
PromisedLeasesStand ==
  ~misjudged => file # Torn /\ \A l \in Granted : Live(file[l.id])

\* Every call that is not killed is answered, whoever died with the lock in hand:
\* again and again none is waiting.
CallsAnswered == []<>(\A p \in Proc : calls[p].at \in {"new", "done", "dead"})

\* Leases that were granted hold, and exclude each other, until a lock is stolen
\* from a call that was only slow.
LeasesHold == PoolTypeOK /\ HeldAloneUnlessMisjudged /\ LeasesExclude /\ PromisedLeasesStand
=============================================================================
