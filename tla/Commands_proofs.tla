-------------------------- MODULE Commands_proofs --------------------------
(***************************************************************************)
(* What launching and closing Chrome promises, for any commands, any       *)
(* directories, processes and profiles, and any flags; and what the shadow *)
(* loop promises, for any pages, limits and answers.                       *)
(***************************************************************************)
EXTENDS ShadowLoop, Launcher, LaunchGuard, Arrays_proofs

----------------------------------------------------------------------------
(* Which profile is launched *)

\* A profile that would be launched by its name alone, and is on the disk by now.
MayBeFound(p) ==
  p.kind = "managed" /\ (Same(p.id, Full[newProfileName]) \/ Same(p.name, newProfileName))

\* What has been chosen is what the project pins, or is to be made by a name that the
\* environment allows; and whatever is found by that name came after the choice.
ChoiceStands ==
  stage \in {"chosen", "gated"} =>
    /\ hint # Broken
    /\ hint # Nothing => (profile # Nothing /\ Meets(profile, hint)) \/ (profile = Nothing /\ MayCreate)
    /\ profile = Nothing /\ ~ask.forceCreate =>
         \/ hint = Nothing /\ ask.profileId = Nothing /\ ask.name = Nothing
         \/ \A p \in disk : MayBeFound(p) => p \in newcomers

\* The gate has seen the profile that was chosen.
GateStands == stage = "gated" => args = (profile # Nothing /\ profile.proxy)

GuardInv == GuardTypeOK /\ ChoiceStands /\ GateStands /\ LaunchedIsPinned /\ ProxyIsUsed

\* Every profile that a pin selects, and that agrees with all of it, is what it says.
LEMMA PinnedMeets ==
  ASSUME NEW h \in Hint, NEW b \in Pinned(h), disk \subseteq Profile, Agrees(h, b)
  PROVE  Meets(b, h) /\ b \in disk
<1>1. b \in ManagedProfiles /\ b \in Profile /\ b \in disk
  BY DEF Pinned, WithId, InDir, NamedBy, InSub, ManagedProfiles
<1>2. Nothing \notin Word /\ Nothing \notin Sub
  BY GuardNames
<1>3. ASSUME h.id = Nothing, h.dir = Nothing, h.sub = Nothing PROVE Same(b.name, h.name)
  <2>1. \A p \in ManagedProfiles : p.id # Nothing /\ p.sub # Nothing
    BY <1>2 DEF ManagedProfiles, Profile
  <2>2. QED
    BY <1>3, <2>1 DEF Pinned, WithId, InDir, NamedBy, InSub
<1>4. QED
  BY <1>1, <1>3 DEF Meets, Agrees, ManagedProfiles

\* A search that finds nothing: no profile on the disk has the id or the name.
LEMMA NothingFound ==
  ASSUME disk \subseteq Profile, NEW q, Nothing \in ByNameOrId(q)
  PROVE  \A p \in disk : p.kind = "managed" => ~Same(p.id, Full[q]) /\ ~Same(p.name, q)
<1>1. Nothing \notin disk
  BY GuardNames
<1>2. findManagedProfilesMatching(q) = {}
  BY <1>1 DEF ByNameOrId, OneOf, findManagedProfilesMatching, ManagedProfiles
<1>3. QED
  BY <1>2 DEF findManagedProfilesMatching, ManagedProfiles

LEMMA FoundOnDisk ==
  ASSUME NEW q
  PROVE  /\ ByNameOrId(q) \subseteq disk \cup {Nothing}
         /\ findProfileById(q) \subseteq disk \cup {Nothing}
         /\ findManagedProfilesMatching(q) \subseteq disk
  BY DEF ByNameOrId, findProfileById, OneOf, findManagedProfilesMatching, ManagedProfiles, Exactly

\* The search at the end finds what may be found.
LEMMA MatchingMayBeFound ==
  ASSUME NEW p \in findManagedProfilesMatching(newProfileName)
  PROVE  p \in disk /\ MayBeFound(p)
  BY DEF findManagedProfilesMatching, ManagedProfiles, MayBeFound

LEMMA GuardInitInv == GuardInit => GuardInv
  BY GuardAssumption, GuardNames
     DEF GuardInit, GuardFrom, GuardInv, GuardTypeOK, ChoiceStands, GateStands, LaunchedIsPinned, ProxyIsUsed

LEMMA RefusedInv == GuardInv /\ stage # "launched" /\ Refused => GuardInv'
  BY DEF GuardInv, Refused, GuardTypeOK, ChoiceStands, GateStands, LaunchedIsPinned, ProxyIsUsed

\* A choice that stands when it is made.
LEMMA ChosenInv ==
  ASSUME GuardInv, stage = "asked", NEW p \in disk \cup {Nothing}, Chosen(p), hint # Broken,
         hint # Nothing => (p # Nothing /\ Meets(p, hint)) \/ (p = Nothing /\ MayCreate),
         p = Nothing /\ ~ask.forceCreate =>
           \/ hint = Nothing /\ ask.profileId = Nothing /\ ask.name = Nothing
           \/ \A q \in disk : ~MayBeFound(q)
  PROVE  GuardInv'
<1>1. /\ stage' = "chosen" /\ profile' = p
      /\ UNCHANGED <<disk, hint, ask, args, target, newcomers>>
  BY DEF Chosen
<1>2. GuardTypeOK'
  BY <1>1 DEF GuardInv, GuardTypeOK
<1>3. newProfileName' = newProfileName /\ MayCreate' = MayCreate
  BY <1>1 DEF newProfileName, MayCreate
<1>4. \A q : MayBeFound(q)' = MayBeFound(q)
  BY <1>3 DEF MayBeFound
<1>5. ChoiceStands'
  BY <1>1, <1>3, <1>4 DEF ChoiceStands, Meets
<1>6. QED
  BY <1>1, <1>2, <1>5 DEF GuardInv, GateStands, LaunchedIsPinned, ProxyIsUsed

\* A name that nothing was found by.
LEMMA NoneByName ==
  ASSUME disk \subseteq Profile, ask.name # Nothing, Nothing \in ByNameOrId(ask.name)
  PROVE  \A q \in disk : ~MayBeFound(q)
  BY NothingFound DEF MayBeFound, newProfileName

\* The choice where a project pins b.
LEMMA BoundInv ==
  ASSUME GuardInv, stage = "asked", hint \in Hint, NEW b \in disk \cup {Nothing}, Bound(b),
         (b # Nothing /\ Meets(b, hint)) \/ (b = Nothing /\ MayCreate)
  PROVE  GuardInv'
<1>1. hint # Nothing /\ hint # Broken
  BY GuardNames
<1>2. disk \subseteq Profile
  BY DEF GuardInv, GuardTypeOK
<1>3. CASE Refused
  BY <1>3, RefusedInv
<1>4. CASE b # Nothing /\ Chosen(b)
  BY <1>1, <1>4, ChosenInv
<1>5. CASE ByNameBound(b) /\ ~Refused /\ ~(b # Nothing /\ Chosen(b))
  <2>1. PICK p \in ByNameOrId(ask.name) : p = Nothing /\ ask.allowCreate /\ Chosen(Nothing)
    BY <1>5 DEF ByNameBound, IsBound
  <2>2. ask.name # Nothing /\ MayCreate
    BY <1>5, <2>1 DEF ByNameBound, MayCreate
  <2>3. \A q \in disk : ~MayBeFound(q)
    BY <1>2, <2>1, <2>2, NoneByName
  <2>4. QED
    BY <1>1, <2>1, <2>2, <2>3, ChosenInv
<1>6. QED
  BY <1>3, <1>4, <1>5 DEF Bound, ByIdBound, ByNameBound, MayCreate

LEMMA ChooseBoundInv == GuardInv /\ ChooseBound => GuardInv'
<1> SUFFICES ASSUME GuardInv, ChooseBound PROVE GuardInv'
  OBVIOUS
<1>1. disk \subseteq Profile /\ hint \in Hint /\ stage = "asked"
  BY DEF GuardInv, GuardTypeOK, ChooseBound
<1>2. CASE Refused
  BY <1>1, <1>2, RefusedInv
<1>3. CASE ~Refused
  <2>1. PICK b \in OneOf(Pinned(hint)) :
          (IF b = Nothing THEN MayCreate ELSE Agrees(hint, b)) /\ Bound(b)
    BY <1>3 DEF ChooseBound
  <2>2. b = Nothing \/ b \in Pinned(hint)
    BY DEF OneOf
  <2>3. b # Nothing => Meets(b, hint) /\ b \in disk
    BY <1>1, <2>1, <2>2, PinnedMeets
  <2>4. QED
    BY <1>1, <2>1, <2>3, BoundInv
<1>4. QED
  BY <1>2, <1>3

LEMMA ChooseFreeInv == GuardInv /\ ChooseFree => GuardInv'
<1> SUFFICES ASSUME GuardInv, ChooseFree PROVE GuardInv'
  OBVIOUS
<1>1. disk \subseteq Profile /\ hint = Nothing /\ hint # Broken /\ stage = "asked"
  BY GuardNames DEF GuardInv, GuardTypeOK, ChooseFree
<1>2. CASE Refused
  BY <1>1, <1>2, RefusedInv
<1>3. ASSUME NEW p \in findProfileById(ask.profileId), p # Nothing, Chosen(p) PROVE GuardInv'
  BY <1>1, <1>3, FoundOnDisk, ChosenInv
<1>4. ASSUME NEW p \in ByNameOrId(ask.name), ask.name # Nothing, Chosen(p) PROVE GuardInv'
  BY <1>1, <1>4, FoundOnDisk, NoneByName, ChosenInv
<1>5. CASE ask.profileId = Nothing /\ (ask.name = Nothing \/ ask.forceCreate) /\ Chosen(Nothing)
  BY <1>1, <1>5, ChosenInv
<1>6. QED
  BY <1>2, <1>3, <1>4, <1>5 DEF ChooseFree

LEMMA ProxyGateInv == GuardInv /\ ProxyGate => GuardInv'
<1> SUFFICES ASSUME GuardInv, ProxyGate PROVE GuardInv'
  OBVIOUS
<1>1. stage = "chosen" /\ UNCHANGED <<disk, hint, ask, profile, target, newcomers>>
  BY DEF ProxyGate
<1>2. \/ stage' = "gated" /\ args' = (profile # Nothing /\ profile.proxy)
      \/ stage' = "refused" /\ UNCHANGED args
  BY DEF ProxyGate
<1>3. args' \in BOOLEAN
  BY <1>2 DEF GuardInv, GuardTypeOK
<1>4. GuardTypeOK'
  BY <1>1, <1>2, <1>3 DEF GuardInv, GuardTypeOK
<1>5. newProfileName' = newProfileName /\ MayCreate' = MayCreate
  BY <1>1 DEF newProfileName, MayCreate
<1>6. \A q : MayBeFound(q)' = MayBeFound(q)
  BY <1>5 DEF MayBeFound
<1>7. ChoiceStands'
  BY <1>1, <1>2, <1>5, <1>6 DEF GuardInv, ChoiceStands, Meets
<1>8. QED
  BY <1>1, <1>2, <1>4, <1>7 DEF GuardInv, GateStands, LaunchedIsPinned, ProxyIsUsed

\* What is launched in the end.
LEMMA LaunchedInv ==
  ASSUME GuardInv, stage = "gated", NEW p \in Profile, Launched(p), disk' \subseteq Profile,
         hint # Nothing => (profile = Nothing /\ MayCreate) \/ Meets(p, hint),
         p.proxy => \/ args \/ p \in newcomers
                    \/ hint = Nothing /\ ask.profileId = Nothing /\ ask.name = Nothing
  PROVE  GuardInv'
<1>1. stage' = "launched" /\ target' = p /\ UNCHANGED <<hint, ask, profile, args, newcomers>>
  BY DEF Launched
<1>2. p # Nothing
  BY GuardNames
<1>3. GuardTypeOK'
  BY <1>1, <1>2 DEF GuardInv, GuardTypeOK
<1>4. MayCreate' = MayCreate
  BY <1>1 DEF MayCreate
<1>5. LaunchedIsPinned' /\ ProxyIsUsed'
  BY <1>1, <1>4 DEF LaunchedIsPinned, ProxyIsUsed, Meets
<1>6. QED
  BY <1>1, <1>3, <1>5 DEF GuardInv, ChoiceStands, GateStands

LEMMA LaunchChosenInv == GuardInv /\ LaunchChosen => GuardInv'
<1> SUFFICES ASSUME GuardInv, LaunchChosen PROVE GuardInv'
  OBVIOUS
<1>1. /\ stage = "gated" /\ profile # Nothing /\ Launched(profile) /\ disk' = disk
      /\ profile \in Profile /\ disk \subseteq Profile
  BY DEF LaunchChosen, GuardInv, GuardTypeOK
<1>2. profile.proxy => args
  BY <1>1 DEF GuardInv, GateStands
<1>3. hint # Nothing => Meets(profile, hint)
  BY <1>1 DEF GuardInv, ChoiceStands
<1>4. QED
  BY <1>1, <1>2, <1>3, LaunchedInv

\* A new profile matches its own name and has no proxy; what has been found instead
\* is new, or was looked for without a name.
LEMMA LaunchNamedInv == GuardInv /\ LaunchNamed => GuardInv'
<1> SUFFICES ASSUME GuardInv, LaunchNamed PROVE GuardInv'
  OBVIOUS
<1>1. stage = "gated" /\ profile = Nothing /\ disk \subseteq Profile
  BY DEF LaunchNamed, GuardInv, GuardTypeOK
<1>2. hint # Nothing => MayCreate
  BY <1>1 DEF GuardInv, ChoiceStands
<1>3. CASE Refused
  BY <1>1, <1>3, RefusedInv
<1>4. ASSUME ~ask.forceCreate, NEW p \in findManagedProfilesMatching(newProfileName),
             Launched(p), disk' = disk
      PROVE  GuardInv'
  <2>1. p \in disk /\ MayBeFound(p)
    BY <1>4, MatchingMayBeFound
  <2>2. \/ hint = Nothing /\ ask.profileId = Nothing /\ ask.name = Nothing
        \/ \A q \in disk : MayBeFound(q) => q \in newcomers
    BY <1>1, <1>4 DEF GuardInv, ChoiceStands
  <2>3. QED
    BY <1>1, <1>2, <1>4, <2>1, <2>2, LaunchedInv
<1>5. ASSUME NEW w \in NewId, Launched(createManagedProfile(w)),
             disk' = disk \cup {createManagedProfile(w)}
      PROVE  GuardInv'
  <2> DEFINE new == createManagedProfile(w)
  <2>1. newProfileName \in Word
    BY GuardAssumption DEF newProfileName, GuardInv, GuardTypeOK, LaunchAsk
  <2>2. new \in Profile /\ new.proxy = FALSE
    BY <2>1, GuardAssumption DEF createManagedProfile, Profile
  <2>3. disk' \subseteq Profile
    BY <1>1, <1>5, <2>2
  <2>4. QED
    BY <1>1, <1>2, <1>5, <2>2, <2>3, LaunchedInv
<1>6. QED
  BY <1>3, <1>4, <1>5 DEF LaunchNamed

\* What another command creates is new.
LEMMA AppearsInv == GuardInv /\ Appears => GuardInv'
<1> SUFFICES ASSUME GuardInv, Appears PROVE GuardInv'
  OBVIOUS
<1>1. PICK p \in Newcomers : disk' = disk \cup {p} /\ newcomers' = newcomers \cup {p}
  BY DEF Appears
<1>2. stage \notin {"launched", "refused"} /\ UNCHANGED <<hint, ask, stage, profile, args, target>>
  BY DEF Appears
<1>3. GuardTypeOK'
  BY <1>1, <1>2, GuardAssumption DEF GuardInv, GuardTypeOK
<1>4. newProfileName' = newProfileName /\ MayCreate' = MayCreate
  BY <1>2 DEF newProfileName, MayCreate
<1>5. \A q : MayBeFound(q)' = MayBeFound(q)
  BY <1>4 DEF MayBeFound
<1>6. ChoiceStands'
  BY <1>1, <1>2, <1>4, <1>5 DEF GuardInv, ChoiceStands, Meets
<1>7. QED
  BY <1>2, <1>3, <1>6 DEF GuardInv, GateStands, LaunchedIsPinned, ProxyIsUsed

LEMMA GuardStutters == GuardInv /\ UNCHANGED guardVars => GuardInv'
<1> SUFFICES ASSUME GuardInv, UNCHANGED guardVars PROVE GuardInv'
  OBVIOUS
<1>1. UNCHANGED <<disk, hint, ask, stage, profile, args, target, newcomers>>
  BY DEF guardVars
<1>2. newProfileName' = newProfileName /\ MayCreate' = MayCreate
  BY <1>1 DEF newProfileName, MayCreate
<1>3. \A q : MayBeFound(q)' = MayBeFound(q)
  BY <1>2 DEF MayBeFound
<1>4. GuardTypeOK' /\ GateStands'
  BY <1>1 DEF GuardInv, GuardTypeOK, GateStands
<1>5. ChoiceStands'
  BY <1>1, <1>2, <1>3 DEF GuardInv, ChoiceStands, Meets
<1>6. LaunchedIsPinned' /\ ProxyIsUsed'
  BY <1>1, <1>2 DEF GuardInv, LaunchedIsPinned, ProxyIsUsed, Meets
<1>7. QED
  BY <1>4, <1>5, <1>6 DEF GuardInv

\* In a project only the pinned profile is launched, and a profile with a proxy not
\* without it: whatever is asked for, and whatever other commands create meanwhile.
THEOREM LaunchIsGuarded == GuardSpec => []LaunchGuarded
<1>1. GuardInv /\ [GuardNext]_guardVars => GuardInv'
  <2>1. ASSUME GuardInv, BrokenHint PROVE GuardInv'
    BY <2>1, RefusedInv DEF BrokenHint
  <2>2. QED
    BY <2>1, ChooseBoundInv, ChooseFreeInv, ProxyGateInv, LaunchChosenInv, LaunchNamedInv,
       AppearsInv, GuardStutters DEF GuardNext
<1>2. GuardInv => LaunchGuarded
  BY DEF GuardInv, LaunchGuarded
<1>3. QED
  BY <1>1, <1>2, GuardInitInv, PTL DEF GuardSpec

----------------------------------------------------------------------------
(* Which processes are stopped, and which are still listed *)

\* How far a command is, and what it has by then.
Shape(s) ==
  /\ s.at = "new" => s = Fresh
  /\ s.at = "done" => s = Over
  /\ s.at \notin {"new", "done"} => s.job \in Job
  /\ s.at \in {"live", "look", "stop", "clean", "wait", "forget"} => s.dir \in Dir
  /\ s.at \in {"live", "look", "stop"} => s.job.op = "launch"
  /\ s.at \in {"live", "look", "stop"} \/ (s.at \in {"load", "truncate", "write"} /\ s.next = "live") =>
       (s.job.mode = "managed" <=> s.dir \in Managed)
  /\ s.at \in {"close", "forget"} \/ (s.at = "load" /\ s.next = "close") => s.job.op # "launch"
  /\ s.at \in {"spawn", "remember"} => s.dir \in Key
  /\ s.at = "spawn" => s.next \in {"remember", "done"}
  /\ s.at = "load" => s.next \in {"live", "remember", "close"}
  /\ s.at \in {"truncate", "write"} => s.next \in {"live", "remember", "done", "quit"}
  /\ s.at \in {"load", "truncate", "write"} /\ s.next = "live" => s.job.op = "launch" /\ s.dir \in Dir
  /\ s.at \in {"load", "truncate", "write"} /\ s.next = "remember" => s.pid # NoProcess
  /\ s.at = "remember" => s.next = "remember" /\ s.pid # NoProcess
  /\ s.at = "cleanAll" => \/ s.next = "done"
                          \/ s.next = "wait" /\ s.job.op = "launch" /\ s.dir \in Dir
  /\ s.pid # NoProcess => /\ s.at \in {"load", "truncate", "write", "remember"} /\ s.dir \in Key
                          /\ s.next = "remember" \/ (s.next = "done" /\ s.sessions[s.dir] = s.pid)
Shaped == \A c \in Cmd : Shape(cmds[c])

\* An id that is alive and written down is that of the process it was written for.
Locks   == \A d \in Dir : isPidAlive(lock[d]) => proc[lock[d]] = d
Entries == \A k \in Key : isPidAlive(Loaded[k]) => proc[Loaded[k]] = k
Read    == \A c \in Cmd, k \in Key :
             isPidAlive(cmds[c].sessions[k]) => proc[cmds[c].sessions[k]] = k
Spawned == \A c \in Cmd : isPidAlive(cmds[c].pid) => proc[cmds[c].pid] = cmds[c].dir
NamesTrue == reused \/ (Locks /\ Entries /\ Read /\ Spawned)

\* What a command has read and would not write again is dead, or told to terminate.
Copies(s) ==
  s.base # Torn =>
    \A k \in Key : isPidAlive(s.base[k]) /\ s.base[k] \notin told => s.sessions[k] = s.base[k]
Copied == reused \/ doubled \/ \A c \in Cmd : Copies(cmds[c])

\* So is what it is about to forget.
GivesUp(s) ==
  s.at \in {"wait", "clean", "forget"} /\ s.job.op # "launch" =>
    ~isPidAlive(s.sessions[s.dir]) \/ s.sessions[s.dir] \in told
GivenUp == reused \/ \A c \in Cmd : GivesUp(cmds[c])

\* Who has read half a file, or writes beside another, has raced.
ReadWhole == raced \/ \A c \in Cmd : cmds[c].base # Torn
WritesAlone ==
  raced \/ \A c \in Cmd : cmds[c].at = "write" =>
             file = Torn /\ \A x \in Cmd : cmds[x].at = "write" => x = c

SessionsInv ==
  /\ LauncherTypeOK /\ Shaped /\ NamesTrue /\ Copied /\ GivenUp /\ ReadWhole /\ WritesAlone
  /\ StopsItsOwn /\ KnownIsListed

\* Everything but the commands.
WorldOK ==
  /\ file \in Sessions \cup {Torn}
  /\ proc \in [Pid -> Key \cup {NoProcess, "other"}] /\ lock \in [Dir -> Pid \cup {NoProcess, "odd"}]
  /\ starting \subseteq {p \in Pid : proc[p] \in Dir}
  /\ told \subseteq {p \in Pid : proc[p] # NoProcess} /\ known \subseteq {p \in Pid : proc[p] \in Key}
  /\ strays \subseteq [dir : Dir, of : Key \cup {"other"}, by : {"pid", "ps", "quit"}]
  /\ reused \in BOOLEAN /\ raced \in BOOLEAN /\ doubled \in BOOLEAN
  /\ byHand \in 0 .. MaxByHand /\ deaths \in 0 .. MaxDeaths

LEMMA Typed == LauncherTypeOK <=> WorldOK /\ cmds \in [Cmd -> CmdState]
  BY DEF LauncherTypeOK, WorldOK

LEMMA Names ==
  /\ NoProcess \notin Pid /\ "odd" \notin Pid /\ Dir \subseteq Key /\ NoProcess \notin Key
  /\ "gateway" \in Key /\ NoProcess # "other"
  BY LauncherNames DEF Key

LEMMA EmptyIsSessions ==
  NoSessions \in Sessions /\ NoSessions # Torn /\ \A k \in Key : NoSessions[k] = NoProcess
<1>1. NoSessions \in Sessions
  BY DEF NoSessions, Sessions
<1>2. QED
  BY <1>1, LauncherNames DEF NoSessions

LEMMA FreshIsState ==
  /\ Fresh \in CmdState /\ Over \in CmdState
  /\ Fresh.at = "new" /\ Over.at = "done"
  /\ \A s \in {Fresh, Over} : /\ s.pid = NoProcess /\ s.sessions = NoSessions /\ s.base = NoSessions
                              /\ s.todo = {} /\ s.dir = NoProcess
  /\ Shape(Fresh) /\ Shape(Over)
<1>1. Fresh \in CmdState
  BY EmptyIsSessions DEF Fresh, CmdState, Places
<1>2. Over = [at |-> "done", job |-> NoProcess, sessions |-> NoSessions, base |-> NoSessions,
              todo |-> {}, dir |-> NoProcess, pid |-> NoProcess, next |-> "done"]
  BY DEF Over, Fresh
<1>3. Over \in CmdState
  BY <1>2, EmptyIsSessions DEF CmdState, Places
<1>4. QED
  BY <1>1, <1>2, <1>3 DEF Fresh, Shape

LEMMA ReadIsSessions == WorldOK => Loaded \in Sessions
  BY EmptyIsSessions DEF WorldOK, Loaded

\* A command that is not writing and does not begin to comes from s to t: what it has in
\* t is what it had, what is in the file, or its own process.
Follows(s, t) ==
  /\ s.at # "write" \/ raced'
  /\ t.at # "write" /\ t \in CmdState /\ Shape(t)
  /\ \A k \in Key : \/ t.sessions[k] \in {s.sessions[k], Loaded[k], NoProcess}
                    \/ k = s.dir /\ t.sessions[k] = s.pid
  /\ t.pid = NoProcess \/ (t.pid = s.pid /\ t.dir = s.dir)
  /\ raced' \/ t.base # Torn
  /\ reused \/ doubled' \/ Copies(t)
  /\ reused \/ (t.at \in {"wait", "clean", "forget"} /\ t.job.op # "launch" =>
                  LET p == t.sessions[t.dir]
                  IN  ~isPidAlive(p) \/ proc'[p] = NoProcess \/ p \in told')

LEMMA OverFollows ==
  ASSUME NEW s, s.at # "write" \/ raced'
  PROVE  Follows(s, Over)
<1>1. ~isPidAlive(NoProcess)
  BY Names DEF isPidAlive
<1>2. QED
  BY <1>1, FreshIsState, EmptyIsSessions DEF Follows, Copies

\* Alive after the step.
AliveThen(p) == p \in Pid /\ proc'[p] # NoProcess

\* No process begins, and the file stays: processes may end, locks be removed or be
\* taken by their own Chrome, and commands move.
QuietWorld ==
  /\ WorldOK' /\ StopsItsOwn'
  /\ file' = file /\ reused' = reused /\ (raced => raced') /\ (doubled => doubled')
  /\ \A p \in Pid : proc'[p] \in {proc[p], NoProcess}
  /\ \A p \in told : p \in told' \/ proc'[p] = NoProcess
  /\ known' \subseteq known
  /\ \A d \in Dir : lock'[d] \in {lock[d], NoProcess} \/ proc'[lock'[d]] = d

LEMMA Quiet ==
  ASSUME SessionsInv, QuietWorld, cmds' \in [Cmd -> CmdState],
         \A x \in Cmd : cmds'[x] = cmds[x] \/ Follows(cmds[x], cmds'[x])
  PROVE  SessionsInv'
<1>1. /\ WorldOK /\ cmds \in [Cmd -> CmdState] /\ WorldOK'
      /\ file' = file /\ reused' = reused /\ (raced => raced') /\ (doubled => doubled')
  BY Typed DEF SessionsInv, QuietWorld
<1>2. LauncherTypeOK'
  BY <1>1 DEF WorldOK, LauncherTypeOK
<1>3. \A x \in Cmd : cmds'[x] \in CmdState /\ cmds[x] \in CmdState
  BY <1>1
<1>4. Shaped'
  BY DEF Follows, SessionsInv, Shaped
<1>5. Loaded' = Loaded /\ Loaded \in Sessions
  BY <1>1, ReadIsSessions DEF Loaded
<1>6. \A p : AliveThen(p) => p \in Pid /\ isPidAlive(p) /\ proc'[p] = proc[p]
  BY Names DEF QuietWorld, isPidAlive, AliveThen
<1>7. NamesTrue'
  <2>1. SUFFICES ASSUME ~reused PROVE (Locks /\ Entries /\ Read /\ Spawned)'
    BY <1>1 DEF NamesTrue
  <2>2. Locks /\ Entries /\ Read /\ Spawned
    BY <2>1 DEF SessionsInv, NamesTrue
  <2>3. Locks'
    BY <1>6, <2>2, Names DEF Locks, QuietWorld, isPidAlive, AliveThen
  <2>4. Entries'
    BY <1>5, <1>6, <2>2 DEF Entries, isPidAlive, AliveThen
  <2>5. Read'
    <3>1. SUFFICES ASSUME NEW x \in Cmd, NEW k \in Key, AliveThen(cmds'[x].sessions[k])
                   PROVE  proc'[cmds'[x].sessions[k]] = k
      BY DEF Read, isPidAlive, AliveThen
    <3> DEFINE p == cmds'[x].sessions[k]
    <3>2. isPidAlive(p) /\ p # NoProcess /\ proc'[p] = proc[p]
      BY <1>6, <3>1, Names DEF isPidAlive, AliveThen
    <3>3. \/ p \in {cmds[x].sessions[k], Loaded[k]}
          \/ k = cmds[x].dir /\ p = cmds[x].pid
      BY <3>2 DEF Follows
    <3>4. proc[p] = k
      BY <2>2, <3>2, <3>3 DEF Read, Entries, Spawned
    <3>5. QED
      BY <3>2, <3>4
  <2>6. Spawned'
    <3>1. SUFFICES ASSUME NEW x \in Cmd, AliveThen(cmds'[x].pid)
                   PROVE  proc'[cmds'[x].pid] = cmds'[x].dir
      BY DEF Spawned, isPidAlive, AliveThen
    <3>2. isPidAlive(cmds'[x].pid) /\ cmds'[x].pid # NoProcess /\ proc'[cmds'[x].pid] = proc[cmds'[x].pid]
      BY <1>6, <3>1, Names DEF isPidAlive, AliveThen
    <3>3. cmds'[x].pid = cmds[x].pid /\ cmds'[x].dir = cmds[x].dir
      BY <3>2 DEF Follows
    <3>4. QED
      BY <2>2, <3>2, <3>3 DEF Spawned
  <2>7. QED
    BY <2>3, <2>4, <2>5, <2>6
<1>8. Copied'
  <2>1. SUFFICES ASSUME ~reused, ~doubled', NEW x \in Cmd, cmds'[x].base # Torn, NEW k \in Key,
                        AliveThen(cmds'[x].base[k]), cmds'[x].base[k] \notin told'
                 PROVE  cmds'[x].sessions[k] = cmds'[x].base[k]
    BY <1>1 DEF Copied, Copies, isPidAlive, AliveThen
  <2>2. isPidAlive(cmds'[x].base[k]) /\ cmds'[x].base[k] \notin told
    BY <1>6, <2>1 DEF QuietWorld, isPidAlive, AliveThen
  <2>3. Copies(cmds[x])
    BY <1>1, <2>1 DEF SessionsInv, Copied
  <2>4. Copies(cmds'[x])
    BY <2>1, <2>3 DEF Follows
  <2>5. QED
    BY <2>1, <2>2, <2>4 DEF Copies
<1>9. GivenUp'
  <2>1. SUFFICES ASSUME ~reused, NEW x \in Cmd, cmds'[x].at \in {"wait", "clean", "forget"},
                        cmds'[x].job.op # "launch", AliveThen(cmds'[x].sessions[cmds'[x].dir])
                 PROVE  cmds'[x].sessions[cmds'[x].dir] \in told'
    BY <1>1 DEF GivenUp, GivesUp, isPidAlive, AliveThen
  <2> DEFINE p == cmds'[x].sessions[cmds'[x].dir]
  <2>2. isPidAlive(p) /\ proc'[p] # NoProcess
    BY <1>6, <2>1 DEF isPidAlive, AliveThen
  <2>3. CASE cmds'[x] = cmds[x]
    <3>1. GivesUp(cmds[x])
      BY <2>1 DEF SessionsInv, GivenUp
    <3>2. p \in told
      BY <2>1, <2>2, <2>3, <3>1 DEF GivesUp
    <3>3. QED
      BY <2>2, <3>2 DEF QuietWorld
  <2>4. CASE Follows(cmds[x], cmds'[x])
    BY <2>1, <2>2, <2>4 DEF Follows
  <2>5. QED
    BY <2>3, <2>4
<1>10. ReadWhole' /\ WritesAlone'
  BY <1>1 DEF SessionsInv, ReadWhole, WritesAlone, Follows
<1>11. KnownIsListed'
  <2>1. SUFFICES ASSUME NEW p \in known', p \notin told', ~raced', ~doubled', ~reused'
                 PROVE  \/ file' # Torn /\ file'[proc'[p]] = p
                        \/ \E c \in Cmd : cmds'[c].at = "write" /\ cmds'[c].sessions[proc'[p]] = p
    BY DEF KnownIsListed
  <2>2. p \in Pid /\ proc'[p] \in Key /\ proc'[p] = proc[p] /\ p \in known /\ p \notin told
    BY <1>1, <2>1, Names DEF WorldOK, QuietWorld
  <2>3. \/ file # Torn /\ file[proc[p]] = p
        \/ \E c \in Cmd : cmds[c].at = "write" /\ cmds[c].sessions[proc[p]] = p
    BY <1>1, <2>1, <2>2 DEF SessionsInv, KnownIsListed
  <2>4. QED
    BY <1>1, <2>1, <2>2, <2>3 DEF Follows
<1>12. QED
  BY <1>2, <1>4, <1>7, <1>8, <1>9, <1>10, <1>11 DEF SessionsInv, QuietWorld

LEMMA QuietMove ==
  ASSUME SessionsInv, QuietWorld, NEW c \in Cmd,  NEW s, Moves(c, s),
         cmds[c].at # "write" \/ raced', s.at = "done" \/ Follows(cmds[c], s)
  PROVE  SessionsInv'
<1> DEFINE t == IF s.at = "done" THEN Over ELSE s
<1>1. Follows(cmds[c], t) /\ t \in CmdState
  BY OverFollows, FreshIsState DEF Follows
<1>2. cmds \in [Cmd -> CmdState] /\ cmds' = [cmds EXCEPT ![c] = t]
  BY Typed DEF SessionsInv, Moves
<1>3. cmds' \in [Cmd -> CmdState]
  BY <1>1, <1>2
<1>4. \A x \in Cmd : cmds'[x] = cmds[x] \/ Follows(cmds[x], cmds'[x])
  BY <1>1, <1>2
<1>5. QED
  BY <1>3, <1>4, Quiet

\* Nothing changes but what commands think.
LEMMA Still ==
  ASSUME SessionsInv,
         UNCHANGED <<file, chromeVars, byHand, deaths, told, known, strays, reused>>,
         raced' \in BOOLEAN, doubled' \in BOOLEAN, raced => raced', doubled => doubled'
  PROVE  QuietWorld
<1>1. WorldOK /\ StopsItsOwn
  BY Typed DEF SessionsInv
<1>2. UNCHANGED <<file, proc, starting, lock, byHand, deaths, told, known, strays, reused>>
  BY DEF chromeVars
<1>3. WorldOK'
  BY <1>1, <1>2 DEF WorldOK
<1>4. StopsItsOwn'
  BY <1>1, <1>2 DEF StopsItsOwn
<1>5. QED
  BY <1>2, <1>3, <1>4 DEF QuietWorld

LEMMA StillAll ==
  ASSUME SessionsInv, UNCHANGED <<fileVars, chromeVars, byHand, deaths, history>>
  PROVE  QuietWorld
<1>1. raced \in BOOLEAN /\ doubled \in BOOLEAN
  BY Typed DEF SessionsInv, WorldOK
<1>2. UNCHANGED <<file, chromeVars, byHand, deaths, told, known, strays, reused, raced, doubled>>
  BY DEF fileVars, history
<1>3. QED
  BY <1>1, <1>2, Still

LEMMA CmdTyped ==
  ASSUME SessionsInv, NEW c \in Cmd
  PROVE  cmds[c] \in CmdState /\ Shape(cmds[c]) /\ WorldOK
  BY Typed DEF SessionsInv, Shaped

\* A command that goes on with what it has read.
LEMMA GoesOn ==
  ASSUME SessionsInv, QuietWorld, NEW c \in Cmd, cmds[c].at # "write",
         NEW t \in CmdState, Shape(t), t.at # "write",
         t.sessions = cmds[c].sessions, t.base = cmds[c].base, t.pid = cmds[c].pid,
         t.pid = NoProcess \/ t.dir = cmds[c].dir,
         reused \/ (t.at \in {"wait", "clean", "forget"} /\ t.job.op # "launch" =>
                      LET p == t.sessions[t.dir]
                      IN  ~isPidAlive(p) \/ proc'[p] = NoProcess \/ p \in told')
  PROVE  Follows(cmds[c], t)
<1>1. raced' \/ t.base # Torn
  BY DEF SessionsInv, ReadWhole, QuietWorld
<1>2. reused \/ doubled' \/ Copies(t)
  BY DEF SessionsInv, Copied, Copies, QuietWorld
<1>3. QED
  BY <1>1, <1>2 DEF Follows

\* What is written down for one place only stays what it was.
LEMMA KeepsGivenUp ==
  ASSUME SessionsInv, QuietWorld, NEW c \in Cmd, cmds[c].at \in {"wait", "clean", "forget"},
         cmds[c].job.op # "launch", ~reused
  PROVE  LET p == cmds[c].sessions[cmds[c].dir]
         IN  ~isPidAlive(p) \/ proc'[p] = NoProcess \/ p \in told'
  BY DEF SessionsInv, GivenUp, GivesUp, QuietWorld

\* A new command.
LEMMA Begins ==
  ASSUME SessionsInv, NEW c \in Cmd, NEW s, cmds[c].at = "new", Moves(c, s),
         UNCHANGED <<fileVars, chromeVars, byHand, deaths, history>>,
         s \in CmdState, Shape(s), s.at \in {"load", "spawn"}, s.pid = NoProcess,
         s.sessions = NoSessions, s.base = NoSessions
  PROVE  SessionsInv'
<1>1. QuietWorld
  BY StillAll
<1>2. ~isPidAlive(NoProcess)
  BY Names DEF isPidAlive
<1>3. Follows(cmds[c], s)
  BY <1>2, EmptyIsSessions DEF Follows, Copies
<1>4. QED
  BY <1>1, <1>3, QuietMove

LEMMA launchInv == ASSUME SessionsInv, NEW c \in Cmd, launchChrome(c) PROVE SessionsInv'
<1>1. PICK j \in Jobs[c] :
        /\ j.op = "launch"
        /\ Moves(c, [Fresh EXCEPT !.at = "load", !.next = "live", !.job = j, !.dir = j.dir])
  BY DEF launchChrome, Asked, Fresh
<1> DEFINE s == [Fresh EXCEPT !.at = "load", !.next = "live", !.job = j, !.dir = j.dir]
<1>2. j \in Job /\ j.dir \in Dir /\ (j.mode = "managed" <=> j.dir \in Managed)
  BY <1>1, LauncherAssumption DEF Job, Key
<1>3. s \in CmdState /\ Shape(s)
  BY <1>1, <1>2, EmptyIsSessions, Names DEF Fresh, CmdState, Places, Shape
<1>4. cmds[c].at = "new" /\ UNCHANGED <<fileVars, chromeVars, byHand, deaths, history>>
  BY DEF launchChrome, Asked
<1>5. QED
  BY <1>1, <1>3, <1>4, Begins DEF Fresh

LEMMA gatewayInv == ASSUME SessionsInv, NEW c \in Cmd, ensureGatewayRunning(c) PROVE SessionsInv'
<1>1. PICK j \in Jobs[c] :
        Moves(c, [Fresh EXCEPT !.at = "spawn", !.next = "remember", !.job = j, !.dir = j.dir])
  BY DEF ensureGatewayRunning, Asked, Fresh
<1> DEFINE s == [Fresh EXCEPT !.at = "spawn", !.next = "remember", !.job = j, !.dir = j.dir]
<1>2. j \in Job /\ j.dir \in Key
  BY LauncherAssumption DEF Job
<1>3. s \in CmdState /\ Shape(s)
  BY <1>2, EmptyIsSessions, Names DEF Fresh, CmdState, Places, Shape
<1>4. cmds[c].at = "new" /\ UNCHANGED <<fileVars, chromeVars, byHand, deaths, history>>
  BY DEF ensureGatewayRunning, Asked
<1>5. QED
  BY <1>1, <1>3, <1>4, Begins DEF Fresh

LEMMA closeInv == ASSUME SessionsInv, NEW c \in Cmd, closeChrome(c) PROVE SessionsInv'
<1>1. PICK j \in Jobs[c] :
        /\ j.op # "launch"
        /\ Moves(c, [Fresh EXCEPT !.at = "load", !.next = "close", !.job = j, !.dir = NoProcess])
  BY DEF closeChrome, Asked, Fresh
<1> DEFINE s == [Fresh EXCEPT !.at = "load", !.next = "close", !.job = j, !.dir = NoProcess]
<1>2. j \in Job
  BY LauncherAssumption
<1>3. s \in CmdState /\ Shape(s)
  BY <1>1, <1>2, EmptyIsSessions, Names DEF Fresh, CmdState, Places, Shape
<1>4. cmds[c].at = "new" /\ UNCHANGED <<fileVars, chromeVars, byHand, deaths, history>>
  BY DEF closeChrome, Asked
<1>5. QED
  BY <1>1, <1>3, <1>4, Begins DEF Fresh

\* hasLiveManagedSession, isProfileLocked and cleanStaleLocks only decide what is next.
LEMMA isLiveInv == ASSUME SessionsInv, NEW c \in Cmd, isLive(c) PROVE SessionsInv'
<1>1. QuietWorld
  BY StillAll DEF isLive
<1>2. cmds[c] \in CmdState /\ Shape(cmds[c]) /\ cmds[c].at = "live"
  BY CmdTyped DEF isLive
<1>3. \E at \in {"spawn", "look"}, next \in {"done", cmds[c].next} :
        Moves(c, [cmds[c] EXCEPT !.at = at, !.next = next]) /\ (at = "spawn" => next = "done")
  <2>1. [cmds[c] EXCEPT !.at = "look"] = [cmds[c] EXCEPT !.at = "look", !.next = cmds[c].next]
    BY <1>2 DEF CmdState
  <2>2. QED
    BY <2>1 DEF isLive, Goes
<1>4. PICK at \in {"spawn", "look"}, next \in {"done", cmds[c].next} :
        Moves(c, [cmds[c] EXCEPT !.at = at, !.next = next]) /\ (at = "spawn" => next = "done")
  BY <1>3
<1> DEFINE t == [cmds[c] EXCEPT !.at = at, !.next = next]
<1>5. t \in CmdState /\ Shape(t)
  BY <1>2, <1>4, Names DEF CmdState, Places, Shape
<1>6. Follows(cmds[c], t)
  BY <1>1, <1>2, <1>5, GoesOn DEF CmdState
<1>7. QED
  BY <1>1, <1>2, <1>4, <1>6, QuietMove

\* An unlocked directory lets a launch spawn and a close forget.
LEMMA UnlockedInv ==
  ASSUME SessionsInv, QuietWorld, NEW c \in Cmd, Unlocked(c),
         cmds[c].at \in {"look", "wait", "clean"}
  PROVE  SessionsInv'
<1>1. cmds[c] \in CmdState /\ Shape(cmds[c])
  BY CmdTyped
<1>2. CASE cmds[c].job.op = "launch"
  <2> DEFINE t == [cmds[c] EXCEPT !.at = "spawn", !.next = "remember"]
  <2>1. t \in CmdState /\ Shape(t)
    BY <1>1, Names DEF CmdState, Places, Shape
  <2>2. Follows(cmds[c], t)
    BY <1>1, <2>1, GoesOn DEF CmdState
  <2>3. Moves(c, t)
    BY <1>2 DEF Unlocked
  <2>4. QED
    BY <2>2, <2>3, QuietMove
<1>3. CASE cmds[c].job.op # "launch"
  <2> DEFINE t == [cmds[c] EXCEPT !.at = "forget"]
  <2>1. cmds[c].at \in {"wait", "clean"}
    BY <1>1, <1>3 DEF Shape
  <2>2. t \in CmdState /\ Shape(t)
    BY <1>1, <1>3, <2>1 DEF CmdState, Places, Shape
  <2>3. reused \/ LET p == t.sessions[t.dir]
                  IN  ~isPidAlive(p) \/ proc'[p] = NoProcess \/ p \in told'
    BY <1>1, <1>3, <2>1, KeepsGivenUp DEF CmdState
  <2>4. Follows(cmds[c], t)
    BY <1>1, <2>1, <2>2, <2>3, GoesOn DEF CmdState
  <2>5. Moves(c, t)
    BY <1>3 DEF Unlocked, Goes
  <2>6. QED
    BY <2>1, <2>4, <2>5, QuietMove
<1>4. QED
  BY <1>2, <1>3

LEMMA isProfileLockedInv == ASSUME SessionsInv, NEW c \in Cmd, isProfileLocked(c) PROVE SessionsInv'
<1>1. QuietWorld
  BY StillAll DEF isProfileLocked
<1>2. cmds[c] \in CmdState /\ Shape(cmds[c]) /\ cmds[c].at \in {"look", "wait"}
  BY CmdTyped DEF isProfileLocked
<1>3. CASE Unlocked(c)
  BY <1>1, <1>2, <1>3, UnlockedInv
<1>4. CASE Goes(c, "clean")
  <2> DEFINE t == [cmds[c] EXCEPT !.at = "clean"]
  <2>1. t \in CmdState /\ Shape(t)
    BY <1>2 DEF CmdState, Places, Shape
  <2>2. reused \/ (t.job.op # "launch" => LET p == t.sessions[t.dir]
                                          IN  ~isPidAlive(p) \/ proc'[p] = NoProcess \/ p \in told')
    BY <1>1, <1>2, KeepsGivenUp DEF CmdState, Shape
  <2>3. Follows(cmds[c], t)
    BY <1>1, <1>2, <2>1, <2>2, GoesOn DEF CmdState
  <2>4. QED
    BY <1>1, <1>2, <1>4, <2>3, QuietMove DEF Goes
<1>5. CASE cmds[c].at = "look" /\ Goes(c, IF cmds[c].job.relaunch THEN "stop" ELSE "done")
  <2> DEFINE t == [cmds[c] EXCEPT !.at = "stop"]
             u == [cmds[c] EXCEPT !.at = "done"]
  <2>1. t \in CmdState /\ Shape(t) /\ u.at = "done"
    BY <1>2, <1>5 DEF CmdState, Places, Shape
  <2>2. Follows(cmds[c], t)
    BY <1>1, <1>2, <2>1, GoesOn DEF CmdState
  <2>3. QED
    BY <1>1, <1>2, <1>5, <2>1, <2>2, QuietMove DEF Goes
<1>6. QED
  BY <1>3, <1>4, <1>5 DEF isProfileLocked

\* Locks are removed, and nothing else in the world changes.
LEMMA LocksGo ==
  ASSUME SessionsInv, UNCHANGED <<fileVars, proc, starting, byHand, deaths, history>>,
         \A d \in Dir : lock'[d] \in {lock[d], NoProcess}, lock' \in [Dir -> Pid \cup {NoProcess, "odd"}]
  PROVE  QuietWorld
<1>1. WorldOK /\ StopsItsOwn
  BY Typed DEF SessionsInv
<1>2. UNCHANGED <<file, proc, starting, byHand, deaths, told, known, strays, reused, raced, doubled>>
  BY DEF fileVars, history
<1>3. WorldOK'
  BY <1>1, <1>2 DEF WorldOK
<1>4. StopsItsOwn'
  BY <1>1, <1>2 DEF StopsItsOwn
<1>5. QED
  BY <1>2, <1>3, <1>4 DEF QuietWorld

LEMMA cleanStaleLocksInv == ASSUME SessionsInv, NEW c \in Cmd, cleanStaleLocks(c) PROVE SessionsInv'
<1>1. lock \in [Dir -> Pid \cup {NoProcess, "odd"}] /\ lock' = [lock EXCEPT ![cmds[c].dir] = NoProcess]
  BY CmdTyped DEF cleanStaleLocks, WorldOK
<1>2. QuietWorld
  BY <1>1, LocksGo DEF cleanStaleLocks
<1>3. QED
  BY <1>2, UnlockedInv DEF cleanStaleLocks

LEMMA cleanAllInv == ASSUME SessionsInv, NEW c \in Cmd, cleanAll(c) PROVE SessionsInv'
<1>1. /\ lock \in [Dir -> Pid \cup {NoProcess, "odd"}]
      /\ lock' = [d \in Dir |-> IF d \in Managed THEN NoProcess ELSE lock[d]]
  BY CmdTyped DEF cleanAll, WorldOK
<1>2. QuietWorld
  BY <1>1, LocksGo DEF cleanAll
<1>3. cmds[c] \in CmdState /\ Shape(cmds[c]) /\ cmds[c].at = "cleanAll"
  BY CmdTyped DEF cleanAll
<1> DEFINE t == [cmds[c] EXCEPT !.at = cmds[c].next]
<1>4. Moves(c, t)
  BY DEF cleanAll, Goes
<1>5. CASE cmds[c].next = "done"
  BY <1>2, <1>3, <1>4, <1>5, QuietMove DEF CmdState
<1>6. CASE cmds[c].next = "wait"
  <2>1. t \in CmdState /\ Shape(t) /\ t.at = "wait" /\ t.job.op = "launch"
    BY <1>3, <1>6 DEF CmdState, Places, Shape
  <2>2. Follows(cmds[c], t)
    BY <1>2, <1>3, <2>1, GoesOn DEF CmdState
  <2>3. QED
    BY <1>2, <1>3, <1>4, <2>2, QuietMove
<1>7. QED
  BY <1>3, <1>5, <1>6 DEF Shape

\* Reading the file: to prune it, or to close what it lists.
LEMMA Reads ==
  ASSUME SessionsInv, NEW c \in Cmd, cmds[c].at = "load", NEW t \in CmdState, Shape(t),
         t.base = file, t.at \notin {"write", "wait", "clean", "forget"},
         \A k \in Key : t.sessions[k] \in {Loaded[k], NoProcess},
         \A k \in Key : isPidAlive(Loaded[k]) => t.sessions[k] = Loaded[k],
         t.pid = cmds[c].pid, t.pid = NoProcess \/ t.dir = cmds[c].dir,
         raced' = (raced \/ file = Torn), Moves(c, t),
         UNCHANGED <<file, chromeVars, byHand, deaths, history>>
  PROVE  SessionsInv'
<1>1. raced \in BOOLEAN /\ doubled \in BOOLEAN
  BY Typed DEF SessionsInv, WorldOK
<1>2. QuietWorld
  BY <1>1, Still DEF history
<1>3. Copies(t) /\ (raced' \/ t.base # Torn)
  BY DEF Copies, Loaded
<1>4. Follows(cmds[c], t)
  BY <1>3 DEF Follows
<1>5. QED
  BY <1>2, <1>4, QuietMove

LEMMA PrunedIs ==
  ASSUME NEW s \in Sessions
  PROVE  Pruned(s) \in Sessions /\ \A k \in Key : Pruned(s)[k] = IF isPidAlive(s[k]) THEN s[k] ELSE NoProcess
  BY DEF Pruned, Sessions

LEMMA pruneInv == ASSUME SessionsInv, NEW c \in Cmd, pruneDeadSessions(c) PROVE SessionsInv'
<1>1. cmds[c] \in CmdState /\ Shape(cmds[c]) /\ WorldOK
      /\ cmds[c].at = "load" /\ cmds[c].next \in {"live", "remember"}
  BY CmdTyped DEF pruneDeadSessions
<1>2. Loaded \in Sessions /\ file \in Sessions \cup {Torn}
  BY <1>1, ReadIsSessions DEF WorldOK
<1> DEFINE s == Pruned(Loaded)
           at == IF s = Loaded THEN cmds[c].next ELSE "truncate"
           t == [cmds[c] EXCEPT !.sessions = s, !.base = file, !.at = at]
<1>3. s \in Sessions /\ \A k \in Key : s[k] = IF isPidAlive(Loaded[k]) THEN Loaded[k] ELSE NoProcess
  BY <1>2, PrunedIs
<1>4. at \in {"live", "remember", "truncate"} /\ (at # "truncate" => at = cmds[c].next)
  BY <1>1
<1> HIDE DEF s, at
<1>5. t \in CmdState
  BY <1>1, <1>2, <1>3, <1>4 DEF CmdState, Places
<1>6. Shape(t)
  BY <1>1, <1>4, <1>5, Names DEF CmdState, Shape
<1>7. Moves(c, t)
  BY DEF pruneDeadSessions, s, at
<1>8. QED
  BY <1>1, <1>3, <1>4, <1>5, <1>6, <1>7, Reads DEF pruneDeadSessions, CmdState

LEMMA loadSessionsInv == ASSUME SessionsInv, NEW c \in Cmd, loadSessions(c) PROVE SessionsInv'
<1>1. cmds[c] \in CmdState /\ Shape(cmds[c]) /\ WorldOK
      /\ cmds[c].at = "load" /\ cmds[c].next = "close"
  BY CmdTyped DEF loadSessions
<1>2. Loaded \in Sessions /\ file \in Sessions \cup {Torn} /\ cmds[c].job \in Job
  BY <1>1, ReadIsSessions DEF WorldOK, Shape
<1> DEFINE todo == {d \in cmds[c].job.of : Loaded[d] # NoProcess}
           t == [cmds[c] EXCEPT !.at = "close", !.sessions = Loaded, !.base = file, !.todo = todo]
<1>3. todo \subseteq Dir
  BY <1>2 DEF Job
<1> HIDE DEF todo
<1>4. t \in CmdState
  BY <1>1, <1>2, <1>3 DEF CmdState, Places
<1>5. Shape(t)
  BY <1>1, <1>2, <1>4 DEF CmdState, Shape
<1>6. Moves(c, t)
  BY DEF loadSessions, todo
<1>7. QED
  BY <1>1, <1>4, <1>5, <1>6, Reads DEF loadSessions, CmdState

LEMMA rememberInv == ASSUME SessionsInv, NEW c \in Cmd, rememberSession(c) PROVE SessionsInv'
<1>1. /\ cmds[c] \in CmdState /\ Shape(cmds[c]) /\ WorldOK /\ cmds[c].at = "remember"
      /\ doubled' = (doubled \/ cmds[c].sessions[cmds[c].dir] \notin {NoProcess, cmds[c].pid})
  BY CmdTyped DEF rememberSession
<1> DEFINE s == cmds[c]
           t == [s EXCEPT !.sessions[s.dir] = s.pid, !.at = "truncate", !.next = "done"]
<1>2. QuietWorld
  <2>1. UNCHANGED <<file, chromeVars, byHand, deaths, told, known, strays, reused, raced>>
    BY DEF rememberSession, fileVars
  <2>2. QED
    BY <1>1, <2>1, Still DEF WorldOK
<1>3. s.dir \in Key /\ s.pid \in Pid /\ s.sessions \in Sessions /\ s.next = "remember"
  BY <1>1, Names DEF Shape, CmdState
<1>4. t.sessions \in Sessions /\ \A k \in Key : t.sessions[k] = IF k = s.dir THEN s.pid ELSE s.sessions[k]
  BY <1>1, <1>3 DEF Sessions, CmdState
<1>5. t \in CmdState /\ t.sessions[t.dir] = t.pid /\ t.pid = s.pid /\ t.dir = s.dir
      /\ t.base = s.base /\ t.at = "truncate" /\ t.next = "done" /\ t.job = s.job
  BY <1>1, <1>3, <1>4 DEF CmdState, Places
<1>6. Shape(t)
  BY <1>1, <1>3, <1>5 DEF Shape
<1>7. reused \/ doubled' \/ Copies(t)
  <2>1. SUFFICES ASSUME ~reused, ~doubled', s.base # Torn, NEW k \in Key, isPidAlive(s.base[k]),
                        s.base[k] \notin told
                 PROVE  t.sessions[k] = s.base[k]
    BY <1>5 DEF Copies
  <2>2. s.sessions[k] = s.base[k]
    BY <1>1, <2>1 DEF SessionsInv, Copied, Copies
  <2>3. QED
    BY <1>1, <1>4, <2>1, <2>2, Names DEF isPidAlive
<1>8. raced' \/ t.base # Torn
  BY <1>2, <1>5 DEF SessionsInv, ReadWhole, QuietWorld
<1>9. Follows(s, t)
  BY <1>1, <1>4, <1>5, <1>6, <1>7, <1>8 DEF Follows
<1>10. Moves(c, t)
  BY DEF rememberSession
<1>11. QED
  BY <1>1, <1>2, <1>9, <1>10, QuietMove

\* Processes are told to terminate.
LEMMA Telling ==
  ASSUME SessionsInv, UNCHANGED <<fileVars, chromeVars, byHand, deaths, known, reused, doubled>>,
         told \subseteq told', told' \subseteq {p \in Pid : proc[p] # NoProcess},
         strays' \subseteq [dir : Dir, of : Key \cup {"other"}, by : {"pid", "ps", "quit"}], StopsItsOwn'
  PROVE  QuietWorld
<1>1. WorldOK
  BY Typed DEF SessionsInv
<1>2. UNCHANGED <<file, proc, starting, lock, byHand, deaths, known, reused, raced, doubled>>
  BY DEF chromeVars, fileVars
<1>3. WorldOK'
  BY <1>1, <1>2 DEF WorldOK
<1>4. QED
  BY <1>2, <1>3 DEF QuietWorld

\* The signal goes to the Chrome of the directory, or to one that was looked up.
LEMMA HitsOwn ==
  ASSUME SessionsInv, NEW p \in Pid, proc[p] # NoProcess, NEW d \in Dir, NEW by \in {"pid", "ps"},
         Hits(p, d, by), reused' = reused,
         reused \/ proc[p] = d \/ (by = "ps" /\ proc[p] \in StartsWith[d])
  PROVE  /\ strays' \subseteq [dir : Dir, of : Key \cup {"other"}, by : {"pid", "ps", "quit"}]
         /\ StopsItsOwn'
<1>1. WorldOK /\ StopsItsOwn
  BY Typed DEF SessionsInv
<1>2. proc[p] \in Key \cup {"other"}
  BY <1>1 DEF WorldOK
<1> DEFINE x == [dir |-> d, of |-> proc[p], by |-> by]
<1>3. x \in [dir : Dir, of : Key \cup {"other"}, by : {"pid", "ps", "quit"}]
      /\ strays' \subseteq strays \cup {x} /\ (proc[p] = d => strays' = strays)
  BY <1>2 DEF Hits
<1>4. StopsItsOwn'
  BY <1>1, <1>3 DEF StopsItsOwn
<1>5. QED
  BY <1>1, <1>3, <1>4 DEF WorldOK

LEMMA Signalled ==
  ASSUME SessionsInv, NEW p, isPidAlive(p), NEW d \in Dir, NEW by \in {"pid", "ps"}, Signals(p, d, by),
         UNCHANGED <<fileVars, chromeVars, byHand, deaths>>,
         reused \/ proc[p] = d \/ (by = "ps" /\ proc[p] \in StartsWith[d])
  PROVE  QuietWorld /\ p \in told'
<1>1. p \in Pid /\ proc[p] # NoProcess /\ told' = told \cup {p} /\ Hits(p, d, by)
      /\ UNCHANGED <<known, reused, doubled>>
  BY DEF isPidAlive, Signals
<1>2. told' \subseteq {q \in Pid : proc[q] # NoProcess}
  BY <1>1, Typed DEF SessionsInv, WorldOK
<1>3. QED
  BY <1>1, <1>2, HitsOwn, Telling

\* All Chromes of known directories are told to terminate, which strays may record.
LEMMA ToldAll ==
  ASSUME SessionsInv, TellAll, UNCHANGED <<fileVars, chromeVars, byHand, deaths, known, reused, doubled>>,
         strays' \subseteq [dir : Dir, of : Key \cup {"other"}, by : {"pid", "ps", "quit"}], StopsItsOwn'
  PROVE  QuietWorld
<1>1. WorldOK
  BY Typed DEF SessionsInv
<1>2. told \subseteq told' /\ told' \subseteq {q \in Pid : proc[q] # NoProcess}
  BY <1>1, Names DEF WorldOK, TellAll
<1>3. QED
  BY <1>2, Telling

\* The Chromes of other directories, on account of a directory that is not managed.
LEMMA OthersAreExcepted ==
  ASSUME SessionsInv, NEW d \in Dir, d \notin Managed, strays' = strays \cup Others(d), reused' = reused
  PROVE  /\ strays' \subseteq [dir : Dir, of : Key \cup {"other"}, by : {"pid", "ps", "quit"}]
         /\ StopsItsOwn'
<1>1. WorldOK /\ StopsItsOwn
  BY Typed DEF SessionsInv
<1>2. \A x \in Others(d) : \E k \in Dir : x = [dir |-> d, of |-> k, by |-> "quit"]
  BY DEF Others
<1>3. \A x \in Others(d) :
        /\ x \in [dir : Dir, of : Key \cup {"other"}, by : {"pid", "ps", "quit"}]
        /\ x.by = "quit" /\ x.of \in Dir /\ x.dir \notin Managed
  BY <1>2, Names
<1>4. StopsItsOwn'
  BY <1>1, <1>3 DEF StopsItsOwn
<1>5. QED
  BY <1>1, <1>3, <1>4 DEF WorldOK

LEMMA RelaunchInv == ASSUME SessionsInv, NEW c \in Cmd, Relaunch(c) PROVE SessionsInv'
<1> DEFINE d == cmds[c].dir
           t == [cmds[c] EXCEPT !.at = "wait"]
           u == [cmds[c] EXCEPT !.at = "cleanAll", !.next = "wait"]
<1>1. /\ cmds[c] \in CmdState /\ Shape(cmds[c]) /\ WorldOK /\ cmds[c].at = "stop" /\ d \in Dir
      /\ cmds[c].job.op = "launch" /\ cmds[c].pid = NoProcess
      /\ UNCHANGED <<fileVars, chromeVars, byHand, deaths>>
  BY CmdTyped DEF Relaunch, Shape
<1>2. t \in CmdState /\ Shape(t) /\ u \in CmdState /\ Shape(u)
  BY <1>1 DEF CmdState, Places, Shape
<1>3. QuietWorld => Follows(cmds[c], t) /\ Follows(cmds[c], u)
  BY <1>1, <1>2, GoesOn DEF CmdState
<1>4. ASSUME NEW p, isPidAlive(p), NEW by \in {"pid", "ps"}, Signals(p, d, by), Goes(c, "wait"),
             reused \/ proc[p] = d \/ (by = "ps" /\ proc[p] \in StartsWith[d])
      PROVE  SessionsInv'
  <2>1. QuietWorld
    BY <1>1, <1>4, Signalled
  <2>2. QED
    BY <1>1, <1>3, <1>4, <2>1, QuietMove DEF Goes
<1>5. CASE isPidAlive(lock[d]) /\ Signals(lock[d], d, "pid") /\ Goes(c, "wait")
  <2>1. reused \/ proc[lock[d]] = d
    BY <1>1, <1>5 DEF SessionsInv, NamesTrue, Locks
  <2>2. QED
    BY <1>4, <1>5, <2>1
<1>6. ASSUME NEW p \in findChromePid(d), Signals(p, d, "ps"), Goes(c, "wait") PROVE SessionsInv'
  <2>1. p \in Pid /\ proc[p] \in StartsWith[d] /\ StartsWith[d] \subseteq Dir
    BY <1>1, <1>6, LauncherAssumption DEF findChromePid
  <2>2. isPidAlive(p)
    BY <2>1, Names DEF isPidAlive
  <2>3. QED
    BY <1>4, <1>6, <2>1, <2>2
<1>7. CASE Goes(c, "done") /\ UNCHANGED history
  <2>1. QuietWorld
    BY <1>1, <1>7, StillAll
  <2>2. QED
    BY <1>1, <1>7, <2>1, QuietMove DEF Goes, CmdState
<1>8. CASE cmds[c].job.mode = "existing" /\ RelaunchExisting(c)
  <2>1. d \notin Managed
    BY <1>1, <1>8 DEF Shape
  <2>2. /\ TellAll /\ strays' = strays \cup Others(d) /\ Moves(c, u)
        /\ UNCHANGED <<known, reused, doubled>>
    BY <1>8 DEF RelaunchExisting
  <2>3. QuietWorld
    BY <1>1, <2>1, <2>2, OthersAreExcepted, ToldAll
  <2>4. QED
    BY <1>1, <1>3, <2>2, <2>3, QuietMove
<1>9. CASE RelaunchManaged(c)
  BY <1>6, <1>7, <1>9 DEF RelaunchManaged
<1>10. QED
  BY <1>5, <1>8, <1>9 DEF Relaunch

LEMMA quitInv == ASSUME SessionsInv, NEW c \in Cmd, quitChrome(c) PROVE SessionsInv'
<1>1. cmds[c] \in CmdState /\ Shape(cmds[c]) /\ cmds[c].at = "quit"
      /\ cmds[c].pid = NoProcess
  BY CmdTyped DEF quitChrome, Shape
<1> DEFINE t == [cmds[c] EXCEPT !.at = "cleanAll", !.next = "done"]
<1>2. t \in CmdState /\ Shape(t) /\ t.at = "cleanAll"
      /\ t.sessions = cmds[c].sessions /\ t.base = cmds[c].base /\ t.pid = NoProcess
  BY <1>1 DEF CmdState, Places, Shape
<1>3. QuietWorld
  <2>1. WorldOK /\ StopsItsOwn /\ TellAll /\ strays' = strays /\ reused' = reused
    BY Typed DEF SessionsInv, quitChrome
  <2>2. StopsItsOwn'
    BY <2>1 DEF StopsItsOwn
  <2>3. QED
    BY <2>1, <2>2, ToldAll DEF quitChrome, WorldOK
<1>4. Follows(cmds[c], t)
  BY <1>1, <1>2, <1>3, GoesOn
<1>5. QED
  BY <1>1, <1>3, <1>4, QuietMove DEF quitChrome

LEMMA closeNextInv == ASSUME SessionsInv, NEW c \in Cmd, closeNext(c) PROVE SessionsInv'
<1>1. /\ cmds[c] \in CmdState /\ Shape(cmds[c]) /\ WorldOK /\ cmds[c].at = "close"
      /\ cmds[c].pid = NoProcess /\ UNCHANGED <<fileVars, chromeVars, byHand, deaths>>
  BY CmdTyped DEF closeNext, Shape
<1>2. PICK d \in cmds[c].todo :
        LET p == cmds[c].sessions[d]
        IN  \/ /\ isPidAlive(p) /\ Signals(p, d, "pid")
               /\ Moves(c, [cmds[c] EXCEPT !.at = "wait", !.dir = d])
            \/ /\ ~isPidAlive(p) /\ UNCHANGED history
               /\ Moves(c, [cmds[c] EXCEPT !.at = "forget", !.dir = d])
  BY DEF closeNext
<1> DEFINE p == cmds[c].sessions[d]
           t == [cmds[c] EXCEPT !.at = "wait", !.dir = d]
           u == [cmds[c] EXCEPT !.at = "forget", !.dir = d]
<1>3. d \in Dir /\ d \in Key
  BY <1>1, Names DEF CmdState
<1>4. /\ t \in CmdState /\ Shape(t) /\ t.at = "wait" /\ t.sessions[t.dir] = p
      /\ t.sessions = cmds[c].sessions /\ t.base = cmds[c].base /\ t.pid = NoProcess
  BY <1>1, <1>3, Names DEF CmdState, Places, Shape
<1>5. /\ u \in CmdState /\ Shape(u) /\ u.at = "forget" /\ u.sessions[u.dir] = p
      /\ u.sessions = cmds[c].sessions /\ u.base = cmds[c].base /\ u.pid = NoProcess
  BY <1>1, <1>3, Names DEF CmdState, Places, Shape
<1>6. CASE isPidAlive(p) /\ Signals(p, d, "pid") /\ Moves(c, t)
  <2>1. reused \/ proc[p] = d
    BY <1>3, <1>6 DEF SessionsInv, NamesTrue, Read
  <2>2. QuietWorld /\ p \in told'
    BY <1>1, <1>3, <1>6, <2>1, Signalled
  <2>3. Follows(cmds[c], t)
    BY <1>1, <1>4, <2>2, GoesOn
  <2>4. QED
    BY <1>1, <1>6, <2>2, <2>3, QuietMove
<1>7. CASE ~isPidAlive(p) /\ UNCHANGED history /\ Moves(c, u)
  <2>1. QuietWorld
    BY <1>1, <1>7, StillAll
  <2>2. Follows(cmds[c], u)
    BY <1>1, <1>5, <1>7, <2>1, GoesOn
  <2>3. QED
    BY <1>1, <1>7, <2>1, <2>2, QuietMove
<1>8. QED
  BY <1>2, <1>6, <1>7

LEMMA closedInv == ASSUME SessionsInv, NEW c \in Cmd, closed(c) PROVE SessionsInv'
<1>1. /\ cmds[c] \in CmdState /\ Shape(cmds[c]) /\ cmds[c].at = "close" /\ cmds[c].pid = NoProcess
  BY CmdTyped DEF closed, Shape
<1>2. QuietWorld
  BY StillAll DEF closed
<1>3. PICK end \in {"quit", "done"} :
        \/ Moves(c, [cmds[c] EXCEPT !.at = "truncate", !.next = end])
        \/ Goes(c, end)
  BY DEF closed
<1> DEFINE t == [cmds[c] EXCEPT !.at = "truncate", !.next = end]
           u == [cmds[c] EXCEPT !.at = end]
<1>4. /\ t \in CmdState /\ Shape(t) /\ t.at = "truncate"
      /\ t.sessions = cmds[c].sessions /\ t.base = cmds[c].base /\ t.pid = NoProcess
  BY <1>1, <1>3 DEF CmdState, Places, Shape
<1>5. u.at = end /\ u.sessions = cmds[c].sessions /\ u.base = cmds[c].base /\ u.pid = NoProcess
  BY <1>1 DEF CmdState
<1>6. end = "quit" => u \in CmdState /\ Shape(u)
  BY <1>1 DEF CmdState, Places, Shape
<1>7. Follows(cmds[c], t)
  BY <1>1, <1>2, <1>4, GoesOn
<1>8. u.at = "done" \/ Follows(cmds[c], u)
  BY <1>1, <1>2, <1>3, <1>5, <1>6, GoesOn
<1>9. QED
  BY <1>1, <1>2, <1>3, <1>7, <1>8, QuietMove DEF Goes

LEMMA ForgetInv == ASSUME SessionsInv, NEW c \in Cmd, Forget(c) PROVE SessionsInv'
<1> DEFINE s == cmds[c]
           d == s.dir
           t == [s EXCEPT !.at = "close", !.sessions[d] = NoProcess, !.todo = @ \ {d}]
<1>1. /\ s \in CmdState /\ Shape(s) /\ WorldOK /\ s.at = "forget" /\ d \in Dir /\ d \in Key
      /\ s.pid = NoProcess /\ s.job.op # "launch" /\ Moves(c, t)
      /\ lock' = [lock EXCEPT ![d] = NoProcess]
      /\ UNCHANGED <<fileVars, proc, starting, byHand, deaths, history>>
  BY CmdTyped, Names DEF Forget, Shape
<1>2. QuietWorld
  BY <1>1, LocksGo DEF WorldOK
<1>3. t.sessions \in Sessions /\ \A k \in Key : t.sessions[k] = IF k = d THEN NoProcess ELSE s.sessions[k]
  BY <1>1 DEF Sessions, CmdState
<1>4. t \in CmdState /\ t.at = "close" /\ t.base = s.base /\ t.pid = NoProcess
      /\ t.job = s.job /\ t.next = s.next
  BY <1>1, <1>3 DEF CmdState, Places
<1>5. Shape(t)
  BY <1>1, <1>4 DEF Shape
<1>6. reused \/ doubled' \/ Copies(t)
  <2>1. SUFFICES ASSUME ~reused, ~doubled, s.base # Torn, NEW k \in Key, isPidAlive(s.base[k]),
                        s.base[k] \notin told
                 PROVE  t.sessions[k] = s.base[k]
    BY <1>2, <1>4 DEF Copies, QuietWorld
  <2>2. s.sessions[k] = s.base[k]
    BY <2>1 DEF SessionsInv, Copied, Copies
  <2>3. ~isPidAlive(s.sessions[d]) \/ s.sessions[d] \in told
    BY <1>1, <2>1 DEF SessionsInv, GivenUp, GivesUp
  <2>4. QED
    BY <1>3, <2>1, <2>2, <2>3
<1>7. raced' \/ t.base # Torn
  BY <1>2, <1>4 DEF SessionsInv, ReadWhole, QuietWorld
<1>8. Follows(s, t)
  BY <1>1, <1>3, <1>4, <1>5, <1>6, <1>7 DEF Follows
<1>9. QED
  BY <1>1, <1>2, <1>8, QuietMove

\* A process ends.
LEMMA Ends ==
  ASSUME SessionsInv, NEW p \in Pid, proc' = [proc EXCEPT ![p] = NoProcess],
         starting' = starting \ {p}, told' = told \ {p}, known' = known \ {p},
         UNCHANGED <<fileVars, byHand, deaths, reused, doubled>>,
         \A d \in Dir : lock'[d] \in {lock[d], NoProcess}, lock' \in [Dir -> Pid \cup {NoProcess, "odd"}],
         strays' \subseteq [dir : Dir, of : Key \cup {"other"}, by : {"pid", "ps", "quit"}], StopsItsOwn'
  PROVE  QuietWorld
<1>1. WorldOK
  BY Typed DEF SessionsInv
<1>2. UNCHANGED <<file, byHand, deaths, reused, raced, doubled>>
  BY DEF fileVars
<1>3. \A q \in Pid : proc'[q] = IF q = p THEN NoProcess ELSE proc[q]
  BY <1>1 DEF WorldOK
<1>4. WorldOK'
  BY <1>1, <1>2, <1>3 DEF WorldOK
<1>5. QED
  BY <1>1, <1>2, <1>3, <1>4 DEF QuietWorld, WorldOK

LEMMA giveUpInv == ASSUME SessionsInv, NEW c \in Cmd, giveUp(c) PROVE SessionsInv'
<1> DEFINE d == cmds[c].dir
           p == cmds[c].sessions[d]
           t == [cmds[c] EXCEPT !.at = "forget"]
<1>1. /\ cmds[c] \in CmdState /\ Shape(cmds[c]) /\ WorldOK /\ cmds[c].at = "wait" /\ d \in Dir /\ d \in Key
      /\ cmds[c].pid = NoProcess /\ UNCHANGED <<fileVars, byHand, deaths>>
  BY CmdTyped, Names DEF giveUp, Shape
<1>2. CASE Goes(c, "done") /\ UNCHANGED <<chromeVars, history>>
  <2>1. QuietWorld
    BY <1>1, <1>2, StillAll
  <2>2. QED
    BY <1>1, <1>2, <2>1, QuietMove DEF Goes, CmdState
<1>3. ASSUME cmds[c].job.op # "launch", Goes(c, "forget"), QuietWorld, ~isPidAlive(p) \/ proc'[p] = NoProcess
      PROVE  SessionsInv'
  <2>1. /\ t \in CmdState /\ Shape(t) /\ t.at = "forget" /\ t.sessions[t.dir] = p
        /\ t.sessions = cmds[c].sessions /\ t.base = cmds[c].base /\ t.pid = NoProcess
    BY <1>1, <1>3 DEF CmdState, Places, Shape
  <2>2. Follows(cmds[c], t)
    BY <1>1, <1>3, <2>1, GoesOn
  <2>3. QED
    BY <1>1, <1>3, <2>2, QuietMove DEF Goes
<1>4. CASE ~isPidAlive(p) /\ UNCHANGED <<chromeVars, history>> /\ cmds[c].job.op # "launch" /\ Goes(c, "forget")
  BY <1>1, <1>3, <1>4, StillAll
<1>5. CASE /\ isPidAlive(p) /\ proc' = [proc EXCEPT ![p] = NoProcess]
           /\ starting' = starting \ {p} /\ told' = told \ {p} /\ known' = known \ {p}
           /\ Hits(p, d, "pid") /\ UNCHANGED <<lock, reused, doubled>>
           /\ cmds[c].job.op # "launch" /\ Goes(c, "forget")
  <2>1. p \in Pid /\ proc[p] # NoProcess /\ proc'[p] = NoProcess
    BY <1>1, <1>5 DEF isPidAlive, WorldOK
  <2>2. reused \/ proc[p] = d
    BY <1>1, <1>5 DEF SessionsInv, NamesTrue, Read
  <2>3. strays' \subseteq [dir : Dir, of : Key \cup {"other"}, by : {"pid", "ps", "quit"}] /\ StopsItsOwn'
    BY <1>1, <1>5, <2>1, <2>2, HitsOwn
  <2>4. QuietWorld
    BY <1>1, <1>5, <2>1, <2>3, Ends DEF WorldOK
  <2>5. QED
    BY <1>3, <1>5, <2>1, <2>4
<1>6. QED
  BY <1>2, <1>4, <1>5 DEF giveUp

LEMMA ChromeStartsInv == ASSUME SessionsInv, NEW p \in Pid, ChromeStarts(p) PROVE SessionsInv'
<1>1. /\ WorldOK /\ cmds \in [Cmd -> CmdState] /\ StopsItsOwn /\ p \in starting /\ proc[p] \in Dir
      /\ UNCHANGED <<fileVars, cmds, byHand, deaths>>
  BY Typed DEF SessionsInv, ChromeStarts, WorldOK
<1>2. CASE Gone(p) /\ UNCHANGED lock
  <2>1. StopsItsOwn' /\ strays' = strays
    BY <1>1, <1>2 DEF Gone, StopsItsOwn
  <2>2. QuietWorld
    BY <1>1, <1>2, <2>1, Ends DEF Gone, WorldOK
  <2>3. QED
    BY <1>1, <2>2, Quiet
<1>3. CASE /\ lock' = [lock EXCEPT ![proc[p]] = p] /\ starting' = starting \ {p}
           /\ UNCHANGED <<proc, history>>
  <2>1. /\ UNCHANGED <<file, raced, proc, byHand, deaths, told, known, strays, reused, doubled>>
        /\ lock' \in [Dir -> Pid \cup {NoProcess, "odd"}]
    BY <1>1, <1>3 DEF fileVars, history, WorldOK
  <2>2. WorldOK' /\ StopsItsOwn'
    BY <1>1, <1>3, <2>1 DEF WorldOK, StopsItsOwn
  <2>3. \A d \in Dir : lock'[d] \in {lock[d], NoProcess} \/ proc'[lock'[d]] = d
    BY <1>1, <1>3 DEF WorldOK
  <2>4. QuietWorld
    BY <2>1, <2>2, <2>3 DEF QuietWorld
  <2>5. QED
    BY <1>1, <2>4, Quiet
<1>4. QED
  BY <1>2, <1>3 DEF ChromeStarts

LEMMA ExitsInv == ASSUME SessionsInv, NEW p \in Pid, Exits(p) PROVE SessionsInv'
<1>1. /\ WorldOK /\ cmds \in [Cmd -> CmdState] /\ StopsItsOwn
      /\ Gone(p) /\ UNCHANGED <<fileVars, cmds, byHand, deaths>>
  BY Typed DEF SessionsInv, Exits
<1>2. /\ \A d \in Dir : lock'[d] \in {lock[d], NoProcess}
      /\ lock' \in [Dir -> Pid \cup {NoProcess, "odd"}]
  BY <1>1 DEF Exits, WorldOK
<1>3. StopsItsOwn' /\ strays' = strays
  BY <1>1 DEF Gone, StopsItsOwn
<1>4. QuietWorld
  BY <1>1, <1>2, <1>3, Ends DEF Gone, WorldOK
<1>5. QED
  BY <1>1, <1>4, Quiet

LEMMA DiesInv == ASSUME SessionsInv, NEW c \in Cmd, Dies(c) PROVE SessionsInv'
<1>1. /\ WorldOK /\ StopsItsOwn /\ cmds[c] \in CmdState /\ deaths < MaxDeaths /\ deaths' = deaths + 1
      /\ raced' = (raced \/ cmds[c].at = "write")
      /\ UNCHANGED <<file, chromeVars, byHand, history>>
  BY CmdTyped DEF SessionsInv, Dies
<1>2. UNCHANGED <<file, proc, starting, lock, byHand, told, known, strays, reused, doubled>>
  BY <1>1 DEF chromeVars, history
<1>3. deaths' \in 0 .. MaxDeaths
  BY <1>1, LauncherAssumption DEF WorldOK
<1>4. WorldOK' /\ StopsItsOwn'
  BY <1>1, <1>2, <1>3 DEF WorldOK, StopsItsOwn
<1>5. QuietWorld
  BY <1>1, <1>2, <1>4 DEF QuietWorld
<1>6. Goes(c, "done")
  BY DEF Dies
<1>7. QED
  BY <1>1, <1>5, <1>6, QuietMove DEF Goes, CmdState

\* An id that is written nowhere.
LEMMA NotMentioned ==
  ASSUME NEW p, ~Mentioned(p)
  PROVE  /\ \A d \in Dir : lock[d] # p
         /\ \A k \in Key : Loaded[k] # p
         /\ \A c \in Cmd : cmds[c].pid # p
         /\ \A c \in Cmd, k \in Key : cmds[c].sessions[k] # p
         /\ \A c \in Cmd, k \in Key : cmds[c].base # Torn => cmds[c].base[k] # p
  BY DEF Mentioned

\* A process begins: the command that spawned it, if one did, goes on with its id.
LEMMA Begun ==
  ASSUME SessionsInv, NEW p \in Pid, NEW what \in Key \cup {"other"}, Starts(p, what),
         UNCHANGED <<fileVars, deaths, told, known, strays, doubled>>, byHand' \in 0 .. MaxByHand,
         cmds' \in [Cmd -> CmdState],
         \A x \in Cmd : \/ cmds'[x] = cmds[x]
                        \/ cmds[x].at # "write" /\ cmds'[x] = Over
                        \/ /\ cmds[x].at # "write" /\ cmds'[x].at = "load" /\ Shape(cmds'[x])
                           /\ cmds'[x].sessions = cmds[x].sessions /\ cmds'[x].base = cmds[x].base
                           /\ cmds'[x].pid = p /\ cmds'[x].dir = what
  PROVE  SessionsInv'
<1>1. /\ WorldOK /\ cmds \in [Cmd -> CmdState] /\ what # NoProcess
      /\ UNCHANGED <<file, raced, lock, deaths, told, known, strays, doubled>>
      /\ proc[p] = NoProcess /\ proc' = [proc EXCEPT ![p] = what]
      /\ starting' = IF what \in Dir THEN starting \cup {p} ELSE starting
      /\ reused' = (reused \/ Mentioned(p))
  BY Typed, Names DEF SessionsInv, Starts, fileVars
<1>2. \A q \in Pid : proc'[q] = IF q = p THEN what ELSE proc[q]
  BY <1>1 DEF WorldOK
<1>3. WorldOK'
  BY <1>1, <1>2, Names DEF WorldOK
<1>4. LauncherTypeOK'
  BY <1>3 DEF LauncherTypeOK, WorldOK
<1>5. \A s : s = Over => Shape(s) /\ s.at = "done" /\ s.pid = NoProcess /\ s.base = NoSessions
                         /\ \A k \in Key : s.sessions[k] = NoProcess /\ s.base[k] = NoProcess
  BY FreshIsState, EmptyIsSessions
<1>6. Shaped'
  BY <1>5 DEF SessionsInv, Shaped
<1>7. Loaded' = Loaded
  BY <1>1 DEF Loaded
<1>8. \A q : AliveThen(q) /\ q # p => isPidAlive(q) /\ proc'[q] = proc[q]
  BY <1>2 DEF AliveThen, isPidAlive
<1>9. NamesTrue'
  <2>1. SUFFICES ASSUME ~reused, ~Mentioned(p) PROVE (Locks /\ Entries /\ Read /\ Spawned)'
    BY <1>1 DEF NamesTrue
  <2>2. Locks /\ Entries /\ Read /\ Spawned
    BY <2>1 DEF SessionsInv, NamesTrue
  <2>3. Locks'
    BY <1>1, <1>8, <2>1, <2>2, NotMentioned DEF Locks, AliveThen, isPidAlive
  <2>4. Entries'
    BY <1>7, <1>8, <2>1, <2>2, NotMentioned DEF Entries, AliveThen, isPidAlive
  <2>5. Read'
    <3>1. SUFFICES ASSUME NEW x \in Cmd, NEW k \in Key, AliveThen(cmds'[x].sessions[k])
                   PROVE  proc'[cmds'[x].sessions[k]] = k
      BY DEF Read, isPidAlive, AliveThen
    <3>2. cmds'[x].sessions[k] # NoProcess
      BY <3>1, Names DEF AliveThen
    <3>3. cmds'[x].sessions[k] = cmds[x].sessions[k]
      BY <1>5, <3>2
    <3>4. QED
      BY <1>8, <2>1, <2>2, <3>1, <3>3, NotMentioned DEF Read
  <2>6. Spawned'
    <3>1. SUFFICES ASSUME NEW x \in Cmd, AliveThen(cmds'[x].pid)
                   PROVE  proc'[cmds'[x].pid] = cmds'[x].dir
      BY DEF Spawned, isPidAlive, AliveThen
    <3>2. cmds'[x].pid # NoProcess
      BY <3>1, Names DEF AliveThen
    <3>3. \/ cmds'[x] = cmds[x]
          \/ cmds'[x].pid = p /\ cmds'[x].dir = what
      BY <1>5, <3>2
    <3>4. QED
      BY <1>2, <1>8, <2>1, <2>2, <3>1, <3>3, NotMentioned DEF Spawned
  <2>7. QED
    BY <2>3, <2>4, <2>5, <2>6
<1>10. Copied'
  <2>0. UNCHANGED <<doubled, told>> /\ reused' = (reused \/ Mentioned(p))
    BY <1>1
  <2>1. SUFFICES ASSUME ~reused, ~Mentioned(p), ~doubled', NEW x \in Cmd, cmds'[x].base # Torn,
                        NEW k \in Key, AliveThen(cmds'[x].base[k]), cmds'[x].base[k] \notin told'
                 PROVE  cmds'[x].sessions[k] = cmds'[x].base[k]
    BY <2>0 DEF Copied, Copies, isPidAlive, AliveThen
  <2>2. cmds'[x].base[k] # NoProcess
    BY <2>1, Names DEF AliveThen
  <2>3. cmds'[x].base = cmds[x].base /\ cmds'[x].sessions = cmds[x].sessions
    BY <1>5, <2>2
  <2>4. isPidAlive(cmds[x].base[k])
    BY <1>8, <2>1, <2>3, NotMentioned
  <2>5. QED
    BY <2>0, <2>1, <2>3, <2>4 DEF SessionsInv, Copied, Copies
<1>11. GivenUp'
  <2>1. SUFFICES ASSUME ~reused, ~Mentioned(p), NEW x \in Cmd,
                        cmds'[x].at \in {"wait", "clean", "forget"}, cmds'[x].job.op # "launch",
                        AliveThen(cmds'[x].sessions[cmds'[x].dir])
                 PROVE  cmds'[x].sessions[cmds'[x].dir] \in told
    BY <1>1 DEF GivenUp, GivesUp, isPidAlive, AliveThen
  <2>2. cmds'[x] = cmds[x]
    BY <1>5, <2>1
  <2>3. cmds[x].dir \in Key
    BY <2>1, <2>2, Names DEF SessionsInv, Shaped, Shape
  <2>4. isPidAlive(cmds[x].sessions[cmds[x].dir])
    BY <1>8, <2>1, <2>2, <2>3, NotMentioned
  <2>5. QED
    BY <2>1, <2>2, <2>4 DEF SessionsInv, GivenUp, GivesUp
<1>12. ReadWhole'
  BY <1>1, <1>5, EmptyIsSessions DEF SessionsInv, ReadWhole
<1>13. \A x \in Cmd : cmds'[x].at = "write" => cmds'[x] = cmds[x]
  BY <1>5
<1>14. \A x \in Cmd : cmds[x].at = "write" => cmds'[x] = cmds[x]
  OBVIOUS
<1>15. WritesAlone'
  BY <1>1, <1>13 DEF SessionsInv, WritesAlone
<1>16. StopsItsOwn'
  BY <1>1 DEF SessionsInv, StopsItsOwn
<1>17. KnownIsListed'
  <2>0. UNCHANGED <<file, raced, doubled, told, known>> /\ (reused => reused')
    BY <1>1
  <2>1. SUFFICES ASSUME NEW q \in known', q \notin told', ~raced', ~doubled', ~reused'
                 PROVE  \/ file' # Torn /\ file'[proc'[q]] = q
                        \/ \E c \in Cmd : cmds'[c].at = "write" /\ cmds'[c].sessions[proc'[q]] = q
    BY DEF KnownIsListed
  <2>2. q \in Pid /\ q # p /\ proc'[q] = proc[q]
    BY <1>1, <1>2, <2>0, <2>1, Names DEF WorldOK
  <2>3. \/ file # Torn /\ file[proc[q]] = q
        \/ \E c \in Cmd : cmds[c].at = "write" /\ cmds[c].sessions[proc[q]] = q
    BY <2>0, <2>1 DEF SessionsInv, KnownIsListed
  <2>4. QED
    BY <1>14, <2>0, <2>2, <2>3
<1>18. QED
  BY <1>4, <1>6, <1>9, <1>10, <1>11, <1>12, <1>15, <1>16, <1>17 DEF SessionsInv

LEMMA spawnInv == ASSUME SessionsInv, NEW c \in Cmd, spawnProcess(c) PROVE SessionsInv'
<1>1. /\ cmds[c] \in CmdState /\ Shape(cmds[c]) /\ cmds[c].at = "spawn" /\ cmds[c].dir \in Key
      /\ WorldOK /\ cmds \in [Cmd -> CmdState]
      /\ UNCHANGED <<fileVars, byHand, deaths, told, known, strays, doubled>>
  BY CmdTyped, Typed DEF SessionsInv, spawnProcess, Shape
<1>2. PICK p \in Pid :
        /\ Starts(p, cmds[c].dir)
        /\ Moves(c, IF cmds[c].next = "done" THEN [cmds[c] EXCEPT !.at = "done"]
                    ELSE [cmds[c] EXCEPT !.at = "load", !.pid = p])
  BY DEF spawnProcess
<1> DEFINE t == [cmds[c] EXCEPT !.at = "load", !.pid = p]
           u == IF cmds[c].next = "done" THEN Over ELSE t
<1>3. /\ t \in CmdState /\ t.at = "load" /\ t.sessions = cmds[c].sessions /\ t.base = cmds[c].base
      /\ t.pid = p /\ t.dir = cmds[c].dir /\ t.next = cmds[c].next /\ t.job = cmds[c].job
  BY <1>1 DEF CmdState, Places
<1>4. cmds[c].next # "done" => Shape(t)
  BY <1>1, <1>3, Names DEF Shape
<1>5. cmds' = [cmds EXCEPT ![c] = u]
  BY <1>1, <1>2 DEF Moves, CmdState
<1>6. u \in CmdState
  BY <1>3, FreshIsState
<1>7. cmds' \in [Cmd -> CmdState]
  BY <1>1, <1>5, <1>6
<1>8. \A x \in Cmd : cmds'[x] = IF x = c THEN u ELSE cmds[x]
  BY <1>1, <1>5
<1>9. byHand' \in 0 .. MaxByHand
  BY <1>1 DEF WorldOK
<1>10. \A x \in Cmd : \/ cmds'[x] = cmds[x]
                      \/ cmds[x].at # "write" /\ cmds'[x] = Over
                      \/ /\ cmds[x].at # "write" /\ cmds'[x].at = "load" /\ Shape(cmds'[x])
                         /\ cmds'[x].sessions = cmds[x].sessions /\ cmds'[x].base = cmds[x].base
                         /\ cmds'[x].pid = p /\ cmds'[x].dir = cmds[c].dir
  BY <1>1, <1>3, <1>4, <1>8
<1>11. Starts(p, cmds[c].dir) /\ cmds[c].dir \in Key \cup {"other"}
  BY <1>1, <1>2
<1>12. QED
  BY <1>1, <1>7, <1>9, <1>10, <1>11, Begun

LEMMA ByHandInv == ASSUME SessionsInv, NEW p \in Pid, ByHand(p) PROVE SessionsInv'
<1>1. PICK what \in Visitors : Starts(p, what)
  BY DEF ByHand
<1>2. what \in Key \cup {"other"}
  BY LauncherAssumption, Names
<1>3. /\ WorldOK /\ cmds \in [Cmd -> CmdState] /\ byHand < MaxByHand /\ byHand' = byHand + 1
      /\ UNCHANGED <<fileVars, cmds, deaths, told, known, strays, doubled>>
  BY Typed DEF SessionsInv, ByHand
<1>4. byHand' \in 0 .. MaxByHand
  BY <1>3, LauncherAssumption DEF WorldOK
<1>5. QED
  BY <1>1, <1>2, <1>3, <1>4, Begun

\* A command that has been told to save opens the file: if nobody has written it since
\* that command read it, what is not listed by now is about to be.
LEMMA TruncateInv == ASSUME SessionsInv, NEW c \in Cmd, Truncate(c) PROVE SessionsInv'
<1> DEFINE t == [cmds[c] EXCEPT !.at = "write"]
<1>1. /\ cmds[c] \in CmdState /\ Shape(cmds[c]) /\ cmds[c].at = "truncate"
      /\ WorldOK /\ cmds \in [Cmd -> CmdState]
  BY CmdTyped, Typed DEF SessionsInv, Truncate
<1>2. /\ file' = Torn /\ raced' = (raced \/ file # cmds[c].base)
      /\ UNCHANGED <<proc, starting, lock, byHand, deaths, told, known, strays, reused, doubled>>
  BY DEF Truncate, chromeVars, history
<1>3. /\ t \in CmdState /\ t.at = "write" /\ t.sessions = cmds[c].sessions /\ t.base = cmds[c].base
      /\ t.pid = cmds[c].pid /\ t.dir = cmds[c].dir /\ t.next = cmds[c].next /\ t.job = cmds[c].job
  BY <1>1 DEF CmdState, Places
<1>4. Shape(t)
  BY <1>1, <1>3 DEF Shape
<1>5. cmds' = [cmds EXCEPT ![c] = t]
  BY <1>3 DEF Truncate, Goes, Moves
<1>6. /\ cmds' \in [Cmd -> CmdState]
      /\ \A x \in Cmd : cmds'[x] = IF x = c THEN t ELSE cmds[x]
  BY <1>1, <1>3, <1>5
<1> HIDE DEF t
<1>7. LauncherTypeOK'
  BY <1>1, <1>2, <1>6 DEF WorldOK, LauncherTypeOK
<1>8. Shaped'
  BY <1>4, <1>6 DEF SessionsInv, Shaped
<1>9. \A q : isPidAlive(q)' = isPidAlive(q)
  BY <1>2 DEF isPidAlive
<1>10. NamesTrue'
  <2>1. SUFFICES ASSUME ~reused PROVE (Locks /\ Entries /\ Read /\ Spawned)'
    BY <1>2 DEF NamesTrue
  <2>2. Locks /\ Read /\ Spawned
    BY <2>1 DEF SessionsInv, NamesTrue
  <2>3. Entries'
    BY <1>2, EmptyIsSessions, Names DEF Entries, Loaded, isPidAlive
  <2>4. Locks'
    BY <1>2, <1>9, <2>2 DEF Locks
  <2>5. Read' /\ Spawned'
    BY <1>2, <1>3, <1>6, <1>9, <2>2 DEF Read, Spawned
  <2>6. QED
    BY <2>3, <2>4, <2>5
<1>11. Copied'
  BY <1>2, <1>3, <1>6, <1>9 DEF SessionsInv, Copied, Copies
<1>12. GivenUp'
  BY <1>2, <1>3, <1>6, <1>9 DEF SessionsInv, GivenUp, GivesUp
<1>13. ReadWhole'
  BY <1>2, <1>3, <1>6 DEF SessionsInv, ReadWhole
<1>14. ~raced' => file = cmds[c].base /\ file # Torn /\ \A x \in Cmd : cmds[x].at # "write"
  BY <1>2 DEF SessionsInv, ReadWhole, WritesAlone
<1>15. WritesAlone'
  BY <1>2, <1>6, <1>14 DEF WritesAlone
<1>16. StopsItsOwn'
  BY <1>2 DEF SessionsInv, StopsItsOwn
<1>17. KnownIsListed'
  <2>1. SUFFICES ASSUME NEW p \in known, p \notin told, ~raced', ~doubled, ~reused
                 PROVE  cmds'[c].at = "write" /\ cmds'[c].sessions[proc[p]] = p
    BY <1>2 DEF KnownIsListed
  <2>2. p \in Pid /\ proc[p] \in Key /\ isPidAlive(p)
    BY <1>1, Names DEF WorldOK, isPidAlive
  <2>3. file[proc[p]] = p
    BY <1>2, <1>14, <2>1 DEF SessionsInv, KnownIsListed
  <2>4. cmds[c].sessions[proc[p]] = p
    BY <1>14, <2>1, <2>2, <2>3 DEF SessionsInv, Copied, Copies
  <2>5. QED
    BY <1>3, <1>6, <2>4
<1>18. QED
  BY <1>7, <1>8, <1>10, <1>11, <1>12, <1>13, <1>15, <1>16, <1>17 DEF SessionsInv

\* The save: what it writes is what the command had, and it is then what it comes from.
LEMMA WriteInv == ASSUME SessionsInv, NEW c \in Cmd, Write(c) PROVE SessionsInv'
<1> DEFINE s == cmds[c]
           t == [s EXCEPT !.at = s.next, !.base = s.sessions]
           u == IF s.next = "done" THEN Over ELSE t
<1>1. /\ s \in CmdState /\ Shape(s) /\ s.at = "write" /\ s.sessions \in Sessions /\ s.sessions # Torn
      /\ WorldOK /\ cmds \in [Cmd -> CmdState]
  BY CmdTyped, Typed, LauncherNames DEF SessionsInv, Write, CmdState
<1>2. /\ file' = s.sessions \/ (file # Torn /\ file' = Torn)
      /\ raced' = (raced \/ file # Torn)
      /\ known' = IF s.pid # NoProcess /\ s.next = "done" /\ proc[s.pid] = s.dir
                  THEN known \cup {s.pid} ELSE known
      /\ UNCHANGED <<proc, starting, lock, byHand, deaths, told, strays, reused, doubled>>
  BY DEF Write, chromeVars
<1>3. /\ t \in CmdState /\ t.at = s.next /\ t.sessions = s.sessions /\ t.base = s.sessions
      /\ t.pid = s.pid /\ t.dir = s.dir /\ t.next = s.next /\ t.job = s.job
  BY <1>1 DEF CmdState, Places
<1>4. s.next \in {"live", "remember", "done", "quit"}
  BY <1>1 DEF Shape
<1>5. s.next # "done" => Shape(t)
  BY <1>1, <1>3, <1>4, Names DEF Shape
<1>6. /\ u \in CmdState /\ Shape(u) /\ u.at \in {"live", "remember", "done", "quit"}
      /\ u.sessions = u.base /\ u.base \in Sessions /\ u.base # Torn
      /\ u.pid = NoProcess \/ (u.pid = s.pid /\ u.dir = s.dir)
      /\ \A k \in Key : u.sessions[k] \in {s.sessions[k], NoProcess}
  BY <1>1, <1>3, <1>4, <1>5, FreshIsState, EmptyIsSessions
<1>7. cmds' = [cmds EXCEPT ![c] = u]
  BY <1>3 DEF Write, Moves
<1>8. /\ cmds' \in [Cmd -> CmdState]
      /\ \A x \in Cmd : cmds'[x] = IF x = c THEN u ELSE cmds[x]
  BY <1>1, <1>6, <1>7
<1> HIDE DEF t, u
<1>9. known' \subseteq {p \in Pid : proc[p] \in Key}
  <2>1. s.pid # NoProcess => s.pid \in Pid /\ s.dir \in Key
    BY <1>1 DEF CmdState, Shape
  <2>2. QED
    BY <1>1, <1>2, <2>1 DEF WorldOK
<1>10. LauncherTypeOK'
  BY <1>1, <1>2, <1>8, <1>9 DEF WorldOK, LauncherTypeOK
<1>11. Shaped'
  BY <1>6, <1>8 DEF SessionsInv, Shaped
<1>12. \A q : isPidAlive(q)' = isPidAlive(q)
  BY <1>2 DEF isPidAlive
<1>13. ~isPidAlive(NoProcess)
  BY Names DEF isPidAlive
<1>14. NamesTrue'
  <2>1. SUFFICES ASSUME ~reused PROVE (Locks /\ Entries /\ Read /\ Spawned)'
    BY <1>2 DEF NamesTrue
  <2>2. Locks /\ Read /\ Spawned
    BY <2>1 DEF SessionsInv, NamesTrue
  <2>3. Loaded' \in {s.sessions, NoSessions}
    BY <1>2 DEF Loaded
  <2>4. Entries'
    <3>1. SUFFICES ASSUME NEW k \in Key, isPidAlive(Loaded'[k]) PROVE proc[Loaded'[k]] = k
      BY <1>2, <1>12 DEF Entries
    <3>2. Loaded'[k] = s.sessions[k]
      BY <1>13, <2>3, <3>1, EmptyIsSessions
    <3>3. QED
      BY <2>2, <3>1, <3>2 DEF Read
  <2>5. Locks'
    BY <1>2, <1>12, <2>2 DEF Locks
  <2>6. Read' /\ Spawned'
    BY <1>2, <1>6, <1>8, <1>12, <1>13, <2>2 DEF Read, Spawned
  <2>7. QED
    BY <2>4, <2>5, <2>6
<1>15. Copied'
  BY <1>2, <1>6, <1>8, <1>12 DEF SessionsInv, Copied, Copies
<1>16. GivenUp'
  BY <1>2, <1>6, <1>8, <1>12 DEF SessionsInv, GivenUp, GivesUp
<1>17. ReadWhole'
  BY <1>2, <1>6, <1>8 DEF SessionsInv, ReadWhole
<1>18. ~raced' => file = Torn /\ file' = s.sessions /\ \A x \in Cmd : cmds[x].at = "write" => x = c
  BY <1>1, <1>2 DEF SessionsInv, WritesAlone
<1>19. WritesAlone'
  BY <1>6, <1>8, <1>18 DEF WritesAlone
<1>20. StopsItsOwn'
  BY <1>2 DEF SessionsInv, StopsItsOwn
<1>21. KnownIsListed'
  <2>1. SUFFICES ASSUME NEW p \in known', p \notin told, ~raced', ~doubled, ~reused
                 PROVE  s.sessions[proc[p]] = p
    BY <1>1, <1>2, <1>18 DEF KnownIsListed
  <2>2. CASE p \in known
    BY <1>2, <1>18, <2>1, <2>2 DEF SessionsInv, KnownIsListed
  <2>3. CASE p \notin known
    BY <1>1, <1>2, <2>1, <2>3 DEF Shape
  <2>4. QED
    BY <2>2, <2>3
<1>22. QED
  BY <1>10, <1>11, <1>14, <1>15, <1>16, <1>17, <1>19, <1>20, <1>21 DEF SessionsInv

LEMMA LauncherStutters == SessionsInv /\ UNCHANGED launcherVars => SessionsInv'
<1> SUFFICES ASSUME SessionsInv, UNCHANGED launcherVars PROVE SessionsInv'
  OBVIOUS
<1>1. UNCHANGED <<fileVars, chromeVars, cmds, byHand, deaths, history>>
  BY DEF launcherVars, fileVars, chromeVars
<1>2. QuietWorld
  BY <1>1, StillAll
<1>3. cmds \in [Cmd -> CmdState] /\ cmds' = cmds
  BY <1>1, Typed DEF SessionsInv
<1>4. QED
  BY <1>2, <1>3, Quiet

LEMMA LauncherInitInv == LauncherInit => SessionsInv
<1> SUFFICES ASSUME LauncherInit PROVE SessionsInv
  OBVIOUS
<1>1. PICK l \in Left : LauncherFrom(l)
  BY DEF LauncherInit
<1>2. l.file \in Sessions /\ l.lock \in [Dir -> Pid \cup {NoProcess, "odd"}]
  BY LauncherAssumption
<1>3. /\ file = l.file /\ lock = l.lock /\ proc = [p \in Pid |-> NoProcess] /\ starting = {}
      /\ cmds = [c \in Cmd |-> Fresh] /\ byHand = 0 /\ deaths = 0
      /\ told = {} /\ known = {} /\ strays = {}
      /\ reused = FALSE /\ raced = FALSE /\ doubled = FALSE
  BY <1>1 DEF LauncherFrom
<1>4. \A p : ~isPidAlive(p)
  BY <1>3 DEF isPidAlive
<1>5. LauncherTypeOK
  <2>1. byHand \in 0 .. MaxByHand /\ deaths \in 0 .. MaxDeaths
    BY <1>3, LauncherAssumption
  <2>2. cmds \in [Cmd -> CmdState]
    BY <1>3, FreshIsState
  <2>3. proc \in [Pid -> Key \cup {NoProcess, "other"}]
    BY <1>3
  <2>4. QED
    BY <1>2, <1>3, <2>1, <2>2, <2>3 DEF LauncherTypeOK
<1>6. Shaped
  BY <1>3, FreshIsState DEF Shaped
<1>7. NamesTrue /\ Copied /\ GivenUp
  BY <1>4 DEF NamesTrue, Locks, Entries, Read, Spawned, Copied, Copies, GivenUp, GivesUp
<1>8. ReadWhole /\ WritesAlone
  BY <1>3, FreshIsState, EmptyIsSessions DEF ReadWhole, WritesAlone
<1>9. StopsItsOwn /\ KnownIsListed
  BY <1>3 DEF StopsItsOwn, KnownIsListed
<1>10. QED
  BY <1>5, <1>6, <1>7, <1>8, <1>9 DEF SessionsInv

\* Commands stop their own Chromes, and a managed profile is never relaunched by
\* stopping others; only the relaunch of an existing one, an id that was given out again
\* or a path that begins another stops a Chrome of another directory.  And they keep the
\* list of those that run, until an id is given out again, one directory is launched
\* twice at once or a file is written over unread: for any commands, however they
\* interleave, wait and die.
THEOREM SessionsAreKept == LauncherSpec => []SessionsKept
<1>1. ASSUME SessionsInv, NEW c \in Cmd, Steps(c) PROVE SessionsInv'
  BY <1>1, launchInv, gatewayInv, closeInv, pruneInv, TruncateInv, WriteInv, rememberInv, isLiveInv,
     isProfileLockedInv, cleanStaleLocksInv, RelaunchInv, cleanAllInv, giveUpInv, spawnInv,
     loadSessionsInv, closeNextInv, ForgetInv, closedInv, quitInv DEF Steps
<1>2. SessionsInv /\ [LauncherNext]_launcherVars => SessionsInv'
  BY <1>1, DiesInv, ChromeStartsInv, ExitsInv, ByHandInv, LauncherStutters DEF LauncherNext
<1>3. SessionsInv => SessionsKept
  BY DEF SessionsInv, SessionsKept
<1>4. QED
  BY <1>2, <1>3, LauncherInitInv, PTL DEF LauncherSpec

-----------------------------------------------------------------------------
(* The context of an element of a snapshot *)

\* Popping keeps a first part of the stack.
LEMMA PopToIsPart ==
  ASSUME NEW B, NEW stack \in Seq(B), NEW entries, NEW indent
  PROVE  \E q \in 0 .. Len(stack) :
           /\ PopTo(stack, entries, indent) = SubSeq(stack, 1, q)
           /\ q # 0 => entries[stack[q]].indent < indent
           /\ \A k \in 1 .. Len(stack) : entries[stack[k]].indent < indent => k <= q
<1> DEFINE m == Len(stack)
           T == {0} \cup {k \in DOMAIN stack : entries[stack[k]].indent < indent}
           q == Max(T)
<1>1. m \in Nat /\ DOMAIN stack = 1 .. m
  OBVIOUS
<1>2. T \in SUBSET (0 .. m) /\ T # {}
  <2> HIDE DEF m
  <2> QED BY <1>1
<1>3. q \in T /\ \A n \in T : n <= q
  <2> HIDE DEF T, m
  <2> QED BY <1>1, <1>2, MaxIsIn
<1>4. PopTo(stack, entries, indent) = SubSeq(stack, 1, q)
  BY DEF PopTo
<1> HIDE DEF q
<1> QED
  BY <1>1, <1>2, <1>3, <1>4

\* The stack after entry n.
Push(e, n, st) ==
  LET above == PopTo(st, e, e[n].indent)
  IN  IF Named(e[n]) THEN Append(above, n) ELSE above

\* A stack holds positions of the entries.
LEMMA PushType ==
  ASSUME NEW e \in Seq(AriaLine), NEW n \in 1 .. Len(e), NEW st \in Seq(1 .. Len(e))
  PROVE  Push(e, n, st) \in Seq(1 .. Len(e)) /\ PopTo(st, e, e[n].indent) \in Seq(1 .. Len(e))
<1> DEFINE B == 1 .. Len(e)
           above == PopTo(st, e, e[n].indent)
<1>1. PICK q \in 0 .. Len(st) : above = SubSeq(st, 1, q)
  BY PopToIsPart
<1>2. above \in Seq(B)
  <2>1. Len(st) \in Nat /\ st \in Seq(B)
    OBVIOUS
  <2> HIDE DEF B, above
  <2> QED
    BY <1>1, <2>1
<1>3. n \in B
  OBVIOUS
<1> HIDE DEF above, B
<1>4. Append(above, n) \in Seq(B)
  BY <1>2, <1>3
<1> QED
  BY <1>2, <1>4 DEF Push, above, B

\* The stack after each entry is made of the one before.
LEMMA StackStepwise ==
  ASSUME NEW e \in Seq(AriaLine)
  PROVE  /\ AncestorStack(e) \in [0 .. Len(e) -> Seq(1 .. Len(e))] /\ AncestorStack(e)[0] = <<>>
         /\ \A n \in 1 .. Len(e) : AncestorStack(e)[n] = Push(e, n, AncestorStack(e)[n - 1])
<1> DEFINE m == Len(e)
           A == Seq(1 .. m)
           step == [n \in 1 .. m |-> [t \in A |-> Push(e, n, t)]]
           Is(f) == f = [n \in 0 .. m |-> IF n = 0 THEN <<>> ELSE Push(e, n, f[n - 1])]
           g == AncestorStack(e)
<1>1. m \in Nat /\ <<>> \in A
  OBVIOUS
<1>2. \A n \in 1 .. m, t \in A : Push(e, n, t) \in A
  BY PushType
<1>3. g = CHOOSE h : Is(h)
  BY DEF AncestorStack, Push
<1> HIDE DEF m, A, g
<1>4. step \in Stepping(A, m)
  BY <1>2 DEF Stepping
<1>5. PICK f : Recurs(f, A, <<>>, m, step)
  <2> HIDE DEF step, Is
  <2> QED
    BY <1>1, <1>4, FunctionByRecursion
<1>6. \A n \in 1 .. m : n - 1 \in 0 .. m /\ n # 0 /\ n \in 0 .. m
  BY <1>1
<1>7. \A n \in 0 .. m : n = 0 \/ n \in 1 .. m
  BY <1>1
<1>8. \A n \in 1 .. m : f[n] = Push(e, n, f[n - 1])
  <2> SUFFICES ASSUME NEW n \in 1 .. m
               PROVE  f[n] = Push(e, n, f[n - 1])
    OBVIOUS
  <2>1. f[n] = step[n][f[n - 1]] /\ f[n - 1] \in A
    BY <1>5, <1>6 DEF Recurs
  <2> QED
    BY <2>1
<1>9. Is(f)
  BY <1>5, <1>7, <1>8 DEF Recurs
<1>10. Is(g)
  <2> HIDE DEF Is
  <2> QED
    BY <1>3, <1>9
<1>11. DOMAIN g = 0 .. m /\ g[0] = <<>> /\ \A n \in 1 .. m : g[n] = Push(e, n, g[n - 1])
  <2>1. DOMAIN g = 0 .. m
    BY <1>10
  <2>2. \A n \in 0 .. m : g[n] = IF n = 0 THEN <<>> ELSE Push(e, n, g[n - 1])
    BY <1>10
  <2>3. 0 \in 0 .. m
    BY <1>1
  <2> HIDE DEF Is
  <2> QED
    BY <1>6, <2>1, <2>2, <2>3
<1>12. \A n \in 0 .. m : g[n] \in A
  <2> DEFINE T == {n \in 0 .. m : g[n] \in A}
  <2>1. 0 \in T
    BY <1>1, <1>11
  <2>2. \A n \in 0 .. m : n \in T /\ n < m => n + 1 \in T
    <3> SUFFICES ASSUME NEW n \in 0 .. m, g[n] \in A, n < m PROVE n + 1 \in T
      OBVIOUS
    <3>1. n + 1 \in 1 .. m /\ n + 1 \in 0 .. m /\ (n + 1) - 1 = n
      BY <1>1
    <3> QED
      BY <1>2, <1>11, <3>1
  <2>3. \A n \in 0 .. m : n \in T
    <3> HIDE DEF T
    <3> QED
      BY <1>1, <2>1, <2>2, AllNumbers
  <2> QED
    BY <2>3
<1>13. g \in [0 .. m -> A]
  <2>1. g = [n \in 0 .. m |-> g[n]]
    BY <1>10
  <2> HIDE DEF Is
  <2> QED
    BY <1>12, <2>1
<1> HIDE DEF Is
<1> QED
  BY <1>11, <1>13 DEF m, A, g

\* The entries that entry j lies under when it follows: named, and less deep than
\* every entry after them.
Open(e, n) == {i \in 1 .. n : Named(e[i]) /\ \A x \in i + 1 .. n : e[i].indent < e[x].indent}
Ancestors(e, j) == {i \in Open(e, j - 1) : e[i].indent < e[j].indent}

\* A sequence of positions that has the members of S, in their order.
Lists(st, S) ==
  /\ \A k \in 1 .. Len(st) : st[k] \in S
  /\ \A i \in S : \E k \in 1 .. Len(st) : st[k] = i
  /\ \A k, l \in 1 .. Len(st) : k < l => st[k] < st[l]

\* What is left after popping are the ancestors of the next entry.
LEMMA PoppedIsOver ==
  ASSUME NEW e \in Seq(AriaLine), NEW n \in 1 .. Len(e), NEW st \in Seq(1 .. Len(e)),
         Lists(st, Open(e, n - 1))
  PROVE  Lists(PopTo(st, e, e[n].indent), Ancestors(e, n))
<1> DEFINE above == PopTo(st, e, e[n].indent)
           m == Len(st)
<1>1. m \in Nat /\ n \in Nat /\ n - 1 \in Nat
      /\ \A k \in 1 .. m : st[k] \in 1 .. Len(e)
  OBVIOUS
<1>2. \A i \in 1 .. Len(e) : e[i].indent \in Nat
  <2>1. \A i \in 1 .. Len(e) : e[i] \in AriaLine
    OBVIOUS
  <2> QED
    BY <2>1 DEF AriaLine
<1>3. PICK q \in 0 .. m :
           /\ above = SubSeq(st, 1, q)
           /\ q # 0 => e[st[q]].indent < e[n].indent
           /\ \A k \in 1 .. m : e[st[k]].indent < e[n].indent => k <= q
  BY PopToIsPart
<1> HIDE DEF above, m
<1>4. Len(above) = q /\ q \in Nat /\ q <= m /\ \A k \in 1 .. q : above[k] = st[k] /\ k \in 1 .. m
  BY <1>1, <1>3 DEF m
<1>5. \A k \in 1 .. m : st[k] \in Open(e, n - 1)
  BY DEF Lists, m
<1>6. \A k, l \in 1 .. m : k < l => st[k] < st[l]
  BY DEF Lists, m
<1>7. ASSUME NEW k \in 1 .. q PROVE e[st[k]].indent < e[n].indent
  <2>1. k \in 1 .. m /\ q \in 1 .. m /\ q # 0 /\ k <= q /\ k \in Nat
    BY <1>1, <1>4
  <2>2. CASE k = q
    BY <1>3, <2>1, <2>2
  <2>3. CASE k < q
    <3>1. st[k] < st[q] /\ st[q] \in 1 .. n - 1 /\ st[k] \in 1 .. Len(e) /\ st[q] \in 1 .. Len(e)
      BY <1>1, <1>5, <1>6, <2>1, <2>3 DEF Open
    <3>2. st[q] \in st[k] + 1 .. n - 1
      BY <1>1, <3>1
    <3>3. e[st[k]].indent < e[st[q]].indent
      BY <1>5, <2>1, <3>2 DEF Open
    <3>4. e[st[k]].indent \in Nat /\ e[st[q]].indent \in Nat /\ e[n].indent \in Nat
      BY <1>2, <3>1
    <3>5. e[st[q]].indent < e[n].indent
      BY <1>3, <2>1
    <3>6. \A x, y, z \in Nat : x < y /\ y < z => x < z
      OBVIOUS
    <3> QED
      BY <3>3, <3>4, <3>5, <3>6
  <2> QED
    BY <2>1, <2>2, <2>3
<1>8. \A k \in 1 .. q : above[k] \in Ancestors(e, n)
  BY <1>4, <1>5, <1>7 DEF Ancestors
<1>9. \A i \in Ancestors(e, n) : \E k \in 1 .. q : above[k] = i
  <2> SUFFICES ASSUME NEW i \in Ancestors(e, n) PROVE \E k \in 1 .. q : above[k] = i
    OBVIOUS
  <2>1. PICK k \in 1 .. m : st[k] = i
    BY DEF Ancestors, Lists, m
  <2>2. e[st[k]].indent < e[n].indent
    BY <2>1 DEF Ancestors
  <2>3. k \in 1 .. q
    BY <1>1, <1>3, <1>4, <2>2
  <2> QED
    BY <1>4, <2>1, <2>3
<1>10. \A k, l \in 1 .. q : k < l => above[k] < above[l]
  BY <1>4, <1>6
<1> QED
  BY <1>4, <1>8, <1>9, <1>10 DEF Lists, above

\* What lies open after an entry.
LEMMA OpenNext ==
  ASSUME NEW e \in Seq(AriaLine), NEW n \in 1 .. Len(e)
  PROVE  Open(e, n) = Ancestors(e, n) \cup (IF Named(e[n]) THEN {n} ELSE {})
<1>1. n \in Nat /\ n - 1 \in Nat /\ n <= Len(e) /\ Len(e) \in Nat
  OBVIOUS
<1>2. ASSUME NEW i \in Open(e, n), i # n PROVE i \in Ancestors(e, n)
  <2>1. i \in 1 .. n - 1 /\ n \in i + 1 .. n /\ \A x \in i + 1 .. n - 1 : x \in i + 1 .. n
    BY <1>1, <1>2 DEF Open
  <2> QED
    BY <2>1 DEF Open, Ancestors
<1>3. ASSUME NEW i \in Ancestors(e, n) PROVE i \in Open(e, n)
  <2>1. i \in 1 .. n - 1 /\ i \in 1 .. n
    BY <1>1 DEF Open, Ancestors
  <2>2. \A x \in i + 1 .. n : x = n \/ x \in i + 1 .. n - 1
    BY <1>1, <2>1
  <2> QED
    BY <2>1, <2>2 DEF Open, Ancestors
<1>4. n \in Open(e, n) <=> Named(e[n])
  <2>1. n \in 1 .. n /\ n + 1 .. n = {}
    BY <1>1
  <2> QED
    BY <2>1 DEF Open
<1>5. n \notin Ancestors(e, n)
  BY <1>1 DEF Ancestors, Open
<1> QED
  BY <1>2, <1>3, <1>4, <1>5

\* The stack lists what lies open.
LEMMA StackIsOpen ==
  ASSUME NEW e \in Seq(AriaLine), NEW j \in 0 .. Len(e)
  PROVE  Lists(AncestorStack(e)[j], Open(e, j))
<1> DEFINE m == Len(e)
           g == AncestorStack(e)
           T == {n \in 0 .. m : Lists(g[n], Open(e, n))}
<1>1. m \in Nat /\ g \in [0 .. m -> Seq(1 .. m)] /\ g[0] = <<>>
      /\ \A n \in 1 .. m : g[n] = Push(e, n, g[n - 1])
  BY StackStepwise
<1> HIDE DEF g
<1>2. 0 \in T
  <2>1. Open(e, 0) = {} /\ Len(g[0]) = 0 /\ 0 \in 0 .. m
    BY <1>1 DEF Open
  <2> QED
    BY <2>1 DEF Lists
<1>3. \A n \in 0 .. m : n \in T /\ n < m => n + 1 \in T
  <2> SUFFICES ASSUME NEW k \in 0 .. m, k \in T, k < m PROVE k + 1 \in T
    OBVIOUS
  <2> DEFINE n == k + 1
             above == PopTo(g[k], e, e[n].indent)
  <2>1. n \in 1 .. m /\ n \in 0 .. m /\ n - 1 = k /\ k \in 0 .. m
    BY <1>1
  <2>2. g[k] \in Seq(1 .. m) /\ g[n] = IF Named(e[n]) THEN Append(above, n) ELSE above
    BY <1>1, <2>1 DEF Push
  <2> HIDE DEF n
  <2>3. Lists(above, Ancestors(e, n))
    <3>1. Lists(g[k], Open(e, n - 1))
      BY <2>1
    <3> QED
      BY <2>1, <2>2, <3>1, PoppedIsOver
  <2>4. above \in Seq(1 .. m)
    BY <2>1, <2>2, PushType
  <2>5. Open(e, n) = Ancestors(e, n) \cup (IF Named(e[n]) THEN {n} ELSE {})
    BY <2>1, OpenNext
  <2>6. CASE Named(e[n])
    <3> DEFINE l == Len(above)
               st == Append(above, n)
    <3>1. l \in Nat /\ Len(st) = l + 1 /\ st[l + 1] = n
          /\ \A x \in 1 .. l : st[x] = above[x] /\ x \in 1 .. l + 1
      BY <2>1, <2>4
    <3>2. \A x \in 1 .. l + 1 : x = l + 1 \/ x \in 1 .. l
      BY <3>1
    <3>3. \A x \in 1 .. l : above[x] \in Ancestors(e, n) /\ above[x] < n
      BY <2>1, <2>3 DEF Lists, Ancestors, Open
    <3>4. g[n] = st
      BY <2>2, <2>6
    <3> HIDE DEF l, st, above
    <3>5. \A x \in 1 .. l + 1 : st[x] \in Open(e, n)
      BY <2>5, <2>6, <3>1, <3>2, <3>3
    <3>6. \A i \in Open(e, n) : \E x \in 1 .. l + 1 : st[x] = i
      <4> SUFFICES ASSUME NEW i \in Open(e, n) PROVE \E x \in 1 .. l + 1 : st[x] = i
        OBVIOUS
      <4>1. CASE i = n
        <5>1. l + 1 \in 1 .. l + 1
          BY <3>1
        <5> QED
          BY <3>1, <4>1, <5>1
      <4>2. CASE i \in Ancestors(e, n)
        <5>1. PICK x \in 1 .. l : above[x] = i
          BY <2>3, <4>2 DEF Lists, l
        <5> QED
          BY <3>1, <5>1
      <4> QED
        BY <2>5, <4>1, <4>2
    <3>7. \A x, y \in 1 .. l + 1 : x < y => st[x] < st[y]
      <4> SUFFICES ASSUME NEW x \in 1 .. l + 1, NEW y \in 1 .. l + 1, x < y
                   PROVE  st[x] < st[y]
        OBVIOUS
      <4>1. x \in 1 .. l
        BY <3>1
      <4>2. CASE y = l + 1
        BY <3>1, <3>3, <4>1, <4>2
      <4>3. CASE y \in 1 .. l
        BY <2>3, <3>1, <4>1, <4>3 DEF Lists, l
      <4> QED
        BY <3>2, <4>2, <4>3
    <3> QED
      BY <2>1, <3>1, <3>4, <3>5, <3>6, <3>7 DEF Lists
  <2>7. CASE ~Named(e[n])
    <3>1. g[n] = above /\ Open(e, n) = Ancestors(e, n)
      BY <2>2, <2>5, <2>7
    <3> HIDE DEF above
    <3>2. n \in T
      BY <2>1, <2>3, <3>1
    <3> QED
      BY <3>2 DEF n
  <2> QED
    BY <2>6, <2>7 DEF n
<1>4. \A n \in 0 .. m : n \in T
  <2> HIDE DEF T, m
  <2> QED
    BY <1>1, <1>2, <1>3, AllNumbers
<1> QED
  BY <1>4 DEF g

\* A listing of a set has as many members as the set.
LEMMA ListingCounts ==
  ASSUME NEW B, NEW st \in Seq(B), NEW S, S \subseteq Nat, Lists(st, S)
  PROVE  Cardinality(S) = Len(st) /\ st \in [1 .. Cardinality(S) -> S]
<1> DEFINE l == Len(st)
<1>1. l \in Nat /\ DOMAIN st = 1 .. l /\ st = [k \in 1 .. l |-> st[k]]
  OBVIOUS
<1>2. st \in [1 .. l -> S]
  <2> HIDE DEF l
  <2> QED
    BY <1>1 DEF Lists, l
<1>3. \A k, x \in 1 .. l : st[k] = st[x] => k = x
  <2> SUFFICES ASSUME NEW k \in 1 .. l, NEW x \in 1 .. l, st[k] = st[x], k # x PROVE FALSE
    OBVIOUS
  <2>1. st[k] \in Nat /\ st[x] \in Nat /\ (k < x \/ x < k)
    BY <1>1, <1>2
  <2> QED
    BY <2>1 DEF Lists
<1>4. st \in Bijection(1 .. l, S)
  BY <1>2, <1>3 DEF Bijection, Injection, Surjection, IsInjective, Lists
<1>5. Cardinality(S) = l
  BY <1>1, <1>4, FS_CountingElements DEF ExistsBijection
<1> QED
  BY <1>2, <1>5

\* Parsing drops the broken lines and no other.
LEMMA ParsedLines ==
  ASSUME NEW text \in Page
  PROVE  /\ text \in Seq(AriaLine) /\ parseAriaSnapshot(text) \in Seq(AriaLine)
         /\ \A k \in DOMAIN text : text[k].kind # "broken" =>
              \E i \in DOMAIN parseAriaSnapshot(text) : parseAriaSnapshot(text)[i] = text[k]
         /\ \A i \in DOMAIN parseAriaSnapshot(text) :
              \E k \in DOMAIN text : parseAriaSnapshot(text)[i] = text[k]
<1> DEFINE S == {l \in AriaLine : l.kind # "broken"}
<1>1. text \in Seq(AriaLine)
  BY ShadowAssumption
<1>2. parseAriaSnapshot(text) = Kept(text, S)
  BY DEF parseAriaSnapshot
<1>3. \A k \in DOMAIN text : text[k] \in AriaLine
  BY <1>1
<1>4. \A k \in DOMAIN text : text[k].kind # "broken" => text[k] \in S
  BY <1>3
<1> HIDE DEF S
<1>5. /\ Kept(text, S) \in Seq(AriaLine)
      /\ \A k \in DOMAIN Kept(text, S) : Kept(text, S)[k] \in S /\ \E i \in DOMAIN text : text[i] = Kept(text, S)[k]
      /\ \A i \in DOMAIN text : text[i] \in S => \E k \in DOMAIN Kept(text, S) : Kept(text, S)[k] = text[i]
  BY <1>1, KeptMembers
<1> QED
  BY <1>1, <1>2, <1>4, <1>5

\* The context of every entry is the names of its nearest ancestors, of any page.
LEMMA ContextsAreAncestors ==
  ASSUME page \in Page
  PROVE  ContextIsAncestors
<1> DEFINE e == parseAriaSnapshot(page)
<1>1. e \in Seq(AriaLine)
  BY ParsedLines
<1> HIDE DEF e
<1> SUFFICES ASSUME NEW j \in DOMAIN e
             PROVE  LET above == {i \in DOMAIN e :
                                    /\ i < j /\ \A k \in i + 1 .. j : e[i].indent < e[k].indent
                                    /\ Named(e[i])}
                    IN \E over \in [1 .. Cardinality(above) -> above] :
                         /\ \A k, m \in DOMAIN over : k < m => over[k] < over[m]
                         /\ ParentContexts(e)[j] =
                              LastOf([k \in DOMAIN over |-> e[over[k]].name], MaxContext)
  BY DEF ContextIsAncestors, e
<1> DEFINE above == {i \in DOMAIN e :
                        /\ i < j /\ \A k \in i + 1 .. j : e[i].indent < e[k].indent
                        /\ Named(e[i])}
           st == PopTo(AncestorStack(e)[j - 1], e, e[j].indent)
<1>2. DOMAIN e = 1 .. Len(e) /\ Len(e) \in Nat /\ j \in 1 .. Len(e) /\ j - 1 \in 0 .. Len(e) /\ j \in Nat
  BY <1>1
<1>3. above = Ancestors(e, j)
  <2>1. ASSUME NEW i \in above PROVE i \in Ancestors(e, j)
    <3>1. i \in 1 .. j - 1 /\ j \in i + 1 .. j /\ \A k \in i + 1 .. j - 1 : k \in i + 1 .. j
      BY <1>2
    <3> QED
      BY <3>1 DEF Ancestors, Open
  <2>2. ASSUME NEW i \in Ancestors(e, j) PROVE i \in above
    <3>1. i \in 1 .. j - 1 /\ i \in DOMAIN e /\ i < j
      BY <1>2 DEF Ancestors, Open
    <3>2. \A k \in i + 1 .. j : k = j \/ k \in i + 1 .. j - 1
      BY <1>2, <3>1
    <3> QED
      BY <3>1, <3>2 DEF Ancestors, Open
  <2> HIDE DEF above
  <2> QED
    BY <2>1, <2>2
<1>4. AncestorStack(e)[j - 1] \in Seq(1 .. Len(e)) /\ Lists(AncestorStack(e)[j - 1], Open(e, j - 1))
  BY <1>1, <1>2, StackStepwise, StackIsOpen
<1>5. st \in Seq(1 .. Len(e)) /\ Lists(st, Ancestors(e, j))
  BY <1>1, <1>2, <1>4, PoppedIsOver, PushType
<1>6. ParentContexts(e)[j] = LastOf([k \in DOMAIN st |-> e[st[k]].name], MaxContext)
  BY <1>2 DEF ParentContexts
<1> HIDE DEF st, above
<1>7. Ancestors(e, j) \subseteq Nat
  BY <1>2 DEF Ancestors, Open
<1>8. st \in [1 .. Cardinality(above) -> above] /\ DOMAIN st = 1 .. Len(st)
  BY <1>3, <1>5, <1>7, ListingCounts
<1>9. \A k, m \in DOMAIN st : k < m => st[k] < st[m]
  BY <1>5, <1>8 DEF Lists
<1> QED
  BY <1>6, <1>8, <1>9 DEF above

-----------------------------------------------------------------------------
(* What a request shows of a snapshot *)

\* The line k of the text is what element el was made of.
MadeOf(text, el, includeDisabled) ==
  \E k \in DOMAIN text : Visible(text[k], includeDisabled) /\ el = Element(text[k])

\* A prefix is the first members of a sequence.
LEMMA PrefixIsPart ==
  ASSUME NEW A, NEW s \in Seq(A), NEW n \in Nat
  PROVE  /\ Prefix(s, n) \in Seq(A) /\ DOMAIN Prefix(s, n) \subseteq DOMAIN s
         /\ Len(Prefix(s, n)) = IF n <= Len(s) THEN n ELSE Len(s)
         /\ DOMAIN Prefix(s, n) = 1 .. Len(Prefix(s, n))
         /\ \A i \in DOMAIN Prefix(s, n) : Prefix(s, n)[i] = s[i]
<1>1. Len(s) \in Nat
  OBVIOUS
<1> DEFINE q == Min({n, Len(s)})
<1>2. q = IF n <= Len(s) THEN n ELSE Len(s)
  <2> HIDE DEF q
  <2>1. Min({n, Len(s)}) = IF n <= Len(s) THEN n ELSE Len(s)
    BY <1>1, MinOfTwo
  <2> QED
    BY <2>1 DEF q
<1>3. Prefix(s, n) = SubSeq(s, 1, q)
  BY DEF Prefix
<1> HIDE DEF q
<1>4. q \in 0 .. Len(s)
  BY <1>1, <1>2
<1> QED
  BY <1>1, <1>2, <1>3, <1>4

\* What a snapshot is cut down to: elements made of its visible lines, and all of
\* them unless that is said.
LEMMA NormalizedSnapshot ==
  ASSUME NEW text \in Page, NEW m \in Nat, NEW b \in Nat, NEW inc \in BOOLEAN
  PROVE  LET norm == normalizeAriaSnapshot(text, m, b, inc)
             raw  == Kept(parseAriaSnapshot(text), {l \in AriaLine : Visible(l, inc)})
         IN  /\ norm.elements \in Seq({Element(l) : l \in AriaLine})
             /\ \A i \in DOMAIN norm.elements : MadeOf(text, norm.elements[i], inc)
             /\ ~norm.uncertain \/ Len(raw) <= Min({m, b}) =>
                  \A k \in DOMAIN text : Visible(text[k], inc) =>
                    \E i \in DOMAIN norm.elements : norm.elements[i] = Element(text[k])
<1> DEFINE entries == parseAriaSnapshot(text)
           S == {l \in AriaLine : Visible(l, inc)}
           raw == Kept(entries, S)
           made == [i \in DOMAIN raw |-> Element(raw[i])]
           limit == Min({m, b})
           els == Prefix(made, limit)
           norm == normalizeAriaSnapshot(text, m, b, inc)
           E == {Element(l) : l \in AriaLine}
<1>1. norm.elements = els /\ (Len(els) < Len(raw) => norm.uncertain)
  BY DEF normalizeAriaSnapshot
<1>2. limit \in Nat
  <2> HIDE DEF limit
  <2>1. Min({m, b}) = IF m <= b THEN m ELSE b
    BY MinOfTwo
  <2> QED
    BY <2>1 DEF limit
<1>3. /\ entries \in Seq(AriaLine) /\ text \in Seq(AriaLine)
      /\ \A k \in DOMAIN text : text[k].kind # "broken" =>
           \E i \in DOMAIN entries : entries[i] = text[k]
      /\ \A i \in DOMAIN entries : \E k \in DOMAIN text : entries[i] = text[k]
  BY ParsedLines
<1> HIDE DEF entries
<1>4. /\ raw \in Seq(AriaLine)
      /\ \A k \in DOMAIN raw : raw[k] \in S /\ \E i \in DOMAIN entries : entries[i] = raw[k]
      /\ \A i \in DOMAIN entries : entries[i] \in S => \E k \in DOMAIN raw : raw[k] = entries[i]
  <2>1. entries \in Seq(AriaLine)
    BY <1>3
  <2> HIDE DEF S, norm, els, made
  <2>2. /\ Kept(entries, S) \in Seq(AriaLine)
        /\ \A k \in DOMAIN Kept(entries, S) :
             Kept(entries, S)[k] \in S /\ \E i \in DOMAIN entries : entries[i] = Kept(entries, S)[k]
        /\ \A i \in DOMAIN entries : entries[i] \in S =>
             \E k \in DOMAIN Kept(entries, S) : Kept(entries, S)[k] = entries[i]
    BY <2>1, KeptMembers
  <2> QED
    BY <2>2
<1>5. \A k \in DOMAIN text : Visible(text[k], inc) => text[k] \in S /\ text[k].kind # "broken"
  BY <1>3 DEF Visible
<1> HIDE DEF raw, limit
<1>6. \A k \in DOMAIN raw : Visible(raw[k], inc) /\ raw[k] \in AriaLine
  BY <1>4
<1> HIDE DEF S
<1>7. made \in Seq(E) /\ Len(made) = Len(raw) /\ Len(raw) \in Nat /\ DOMAIN raw = 1 .. Len(raw)
  BY <1>4, <1>6
<1>8. \A k \in DOMAIN raw : made[k] = Element(raw[k])
  OBVIOUS
<1> HIDE DEF made, E
<1>9. /\ els \in Seq(E) /\ DOMAIN els \subseteq DOMAIN made
      /\ Len(els) = (IF limit <= Len(made) THEN limit ELSE Len(made))
      /\ DOMAIN els = 1 .. Len(els)
      /\ \A i \in DOMAIN els : els[i] = made[i]
  BY <1>2, <1>7, PrefixIsPart
<1> HIDE DEF els
<1>10. DOMAIN els \subseteq DOMAIN raw
  BY <1>7, <1>9
<1>11. \A i \in DOMAIN els : MadeOf(text, els[i], inc)
  <2> SUFFICES ASSUME NEW i \in DOMAIN els PROVE MadeOf(text, els[i], inc)
    OBVIOUS
  <2>1. els[i] = Element(raw[i]) /\ Visible(raw[i], inc) /\ i \in DOMAIN raw
    BY <1>6, <1>8, <1>9, <1>10
  <2>2. PICK x \in DOMAIN entries : entries[x] = raw[i]
    BY <1>4, <2>1
  <2>3. PICK k \in DOMAIN text : entries[x] = text[k]
    BY <1>3
  <2> QED
    BY <2>1, <2>2, <2>3 DEF MadeOf
<1>12. ASSUME ~norm.uncertain \/ Len(raw) <= limit, NEW k \in DOMAIN text, Visible(text[k], inc)
       PROVE  \E i \in DOMAIN els : els[i] = Element(text[k])
  <2>1. DOMAIN els = DOMAIN raw
    BY <1>1, <1>2, <1>7, <1>9, <1>12
  <2>2. PICK x \in DOMAIN entries : entries[x] = text[k]
    BY <1>3, <1>5, <1>12
  <2>3. PICK i \in DOMAIN raw : raw[i] = entries[x]
    BY <1>4, <1>5, <1>12, <2>2
  <2> QED
    BY <1>8, <1>9, <2>1, <2>2, <2>3
<1> HIDE DEF norm
<1>13. els \in Seq({Element(l) : l \in AriaLine})
  BY <1>9 DEF E
<1> QED
  BY <1>1, <1>11, <1>12, <1>13 DEF norm, raw, limit, entries, S

\* The elements a snapshot is cut down to come from lines of it.
Elements == {Element(l) : l \in AriaLine}

\* Of what kind the parts of an element are.
LEMMA ElementTypes ==
  ASSUME NEW el \in Elements
  PROVE  /\ Fingerprint(el) \in Prints /\ el.enabled \in BOOLEAN
         /\ el.operations \subseteq ACTION_OPERATIONS /\ "operation" \notin el.operations
<1>1. PICK l \in AriaLine : el = Element(l)
  BY DEF Elements
<1>2. /\ el.role = l.role /\ el.name = l.name /\ el.value \in {"", l.value}
      /\ el.operations = ROLE_OPERATIONS(l.role) /\ el.enabled = ~l.disabled
  BY <1>1 DEF Element
<1>3. l.role \in STRING /\ l.name \in STRING /\ l.value \in STRING /\ l.disabled \in BOOLEAN
  BY DEF AriaLine
<1>4. ROLE_OPERATIONS(l.role) \subseteq ACTION_OPERATIONS /\ "operation" \notin ROLE_OPERATIONS(l.role)
  BY DEF ROLE_OPERATIONS, ACTION_OPERATIONS
<1>5. el.value \in {""} \cup STRING
  BY <1>2, <1>3
<1> QED
  BY <1>2, <1>3, <1>4, <1>5 DEF Fingerprint, Prints

\* What a request shows of the snapshot it was built from.
Shows(text, els, questions) ==
  /\ text \in Page /\ els \in Seq(Elements)
  /\ \A i \in DOMAIN els : MadeOf(text, els[i], FALSE)
  /\ \E u \in BOOLEAN :
       /\ questions = Questions(els, u)
       /\ u \/ \A k \in DOMAIN text : Visible(text[k], FALSE) =>
                 \E i \in DOMAIN els : els[i] = Element(text[k])

\* A request shows its snapshot, whatever the limits and the weight of the rest.
LEMMA RequestShows ==
  ASSUME NEW text \in Page, NEW input \in Inputs
  PROVE  Shows(text, buildBrowserStepRequest(text, input).elements,
               buildBrowserStepRequest(text, input).questions)
<1> DEFINE m == input.bounds.maxElements
           b == input.bounds.maxStateBytes
           norm == normalizeAriaSnapshot(text, m, b, FALSE)
           raw  == Kept(parseAriaSnapshot(text), {l \in AriaLine : Visible(l, FALSE)})
           room == IF input.rest > b THEN 0 ELSE b - input.rest
           els  == Prefix(norm.elements, room)
           u    == norm.uncertain \/ Len(norm.elements) > room
           r    == buildBrowserStepRequest(text, input)
<1>1. m \in Nat /\ b \in Nat /\ input.rest \in Nat
  BY ShadowAssumption DEF Inputs
<1>2. r.elements = els /\ r.questions = Questions(els, u)
  BY DEF buildBrowserStepRequest, TrimState
<1> HIDE DEF m, b
<1>3. /\ norm.elements \in Seq({Element(l) : l \in AriaLine})
      /\ \A i \in DOMAIN norm.elements : MadeOf(text, norm.elements[i], FALSE)
      /\ ~norm.uncertain \/ Len(raw) <= Min({m, b}) =>
           \A k \in DOMAIN text : Visible(text[k], FALSE) =>
             \E i \in DOMAIN norm.elements : norm.elements[i] = Element(text[k])
  BY <1>1, NormalizedSnapshot
<1>4. room \in Nat
  BY <1>1
<1> HIDE DEF norm, room, raw
<1>5. /\ els \in Seq(Elements) /\ DOMAIN els \subseteq DOMAIN norm.elements
      /\ Len(els) = (IF room <= Len(norm.elements) THEN room ELSE Len(norm.elements))
      /\ DOMAIN els = 1 .. Len(els)
      /\ \A i \in DOMAIN els : els[i] = norm.elements[i]
  <2>1. norm.elements \in Seq(Elements)
    BY <1>3 DEF Elements
  <2> QED
    BY <1>4, <2>1, PrefixIsPart
<1> HIDE DEF els
<1>6. \A i \in DOMAIN els : MadeOf(text, els[i], FALSE)
  BY <1>3, <1>5
<1>7. u \in BOOLEAN
  <2>1. norm.uncertain \in BOOLEAN
    BY DEF normalizeAriaSnapshot, norm
  <2> QED
    BY <2>1
<1>8. ASSUME ~u, NEW k \in DOMAIN text, Visible(text[k], FALSE)
      PROVE  \E i \in DOMAIN els : els[i] = Element(text[k])
  <2>1. Len(norm.elements) \in Nat /\ DOMAIN norm.elements = 1 .. Len(norm.elements)
    BY <1>3
  <2>2. DOMAIN els = DOMAIN norm.elements /\ ~norm.uncertain
    BY <1>4, <1>5, <1>8, <2>1
  <2> QED
    BY <1>3, <1>5, <1>8, <2>2
<1> HIDE DEF u, r
<1>9. Shows(text, els, Questions(els, u))
  BY <1>5, <1>6, <1>7, <1>8 DEF Shows
<1> QED
  BY <1>2, <1>9 DEF r

\* The questions of a request offer actions and controls; targets of an uncertain
\* one may be answered with "none".
LEMMA QuestionsOffer ==
  ASSUME NEW els \in Seq(Elements), NEW u \in BOOLEAN
  PROVE  /\ "operation" \in DOMAIN Questions(els, u)
         /\ Questions(els, u)["operation"] \subseteq ACTION_OPERATIONS \cup CONTROL_OPERATIONS
         /\ u => \A q \in DOMAIN Questions(els, u) \ {"operation"} : "none" \in Questions(els, u)[q]
<1> DEFINE S == {els[i] : i \in DOMAIN els}
           offered == UNION {el.operations : el \in S}
           qs == Questions(els, u)
<1>1. \A i \in DOMAIN els : els[i] \in Elements
  OBVIOUS
<1>2. \A el \in S : el.operations \subseteq ACTION_OPERATIONS /\ "operation" \notin el.operations
  BY <1>1, ElementTypes
<1>3. offered \subseteq ACTION_OPERATIONS /\ "operation" \notin offered
  <2> HIDE DEF S
  <2> QED
    BY <1>2
<1>4. /\ DOMAIN qs = {"operation"} \cup offered
      /\ qs["operation"] = offered \cup CONTROL_OPERATIONS
      /\ \A q \in offered : q # "operation" =>
           qs[q] = {el.ref : el \in {e \in S : q \in e.operations}} \cup (IF u THEN {"none"} ELSE {})
  BY DEF Questions
<1> HIDE DEF offered, S, qs
<1>5. u => \A q \in DOMAIN qs \ {"operation"} : "none" \in qs[q]
  BY <1>4
<1> QED
  BY <1>3, <1>4, <1>5 DEF qs

-----------------------------------------------------------------------------
(* From an answer to a decision *)

\* What is found by its ref has that ref.
LEMMA FoundElement ==
  ASSUME NEW els \in Seq(Elements), NEW ref, Having(els, ref) # {}
  PROVE  /\ ElementOf(els, ref) \in Elements /\ ElementOf(els, ref).ref = ref
         /\ \E i \in DOMAIN els : ElementOf(els, ref) = els[i]
<1>1. Having(els, ref) \in SUBSET Nat
  BY DEF Having
<1>2. Min(Having(els, ref)) \in Having(els, ref)
  BY <1>1, MinIsIn
<1> DEFINE i == Min(Having(els, ref))
<1>3. ElementOf(els, ref) = els[i] /\ i \in Having(els, ref)
  BY <1>2 DEF ElementOf
<1> HIDE DEF i
<1>4. i \in DOMAIN els /\ els[i].ref = ref
  BY <1>3 DEF Having
<1> QED
  BY <1>3, <1>4

\* The target of an action is one of the elements, or the answer is at fault.
LEMMA TargetChosen ==
  ASSUME NEW operation, NEW answers, NEW els \in Seq(Elements)
  PROVE  LET c == ChosenTarget(operation, answers, els)
         IN  /\ c.ref \in Ref \cup {None, Redacted} /\ c.print \in Prints \cup {None}
             /\ c.actionable \in BOOLEAN /\ c.invalid \in BOOLEAN /\ c.reasons \subseteq RESULT_REASONS
             /\ c.reasons \subseteq {"NO_TARGET"} =>
                  /\ operation \in DOMAIN answers /\ ~c.invalid
                  /\ \/ c.ref = None /\ answers[operation].choice = "none" /\ ~c.actionable
                     \/ /\ c.ref \in Ref /\ c.ref = answers[operation].choice
                        /\ Having(els, c.ref) # {} /\ ElementOf(els, c.ref).enabled
                        /\ c.print = Fingerprint(ElementOf(els, c.ref))
<1> DEFINE c == ChosenTarget(operation, answers, els)
           ref == answers[operation].choice
           found == ElementOf(els, ref)
           Bad(r, why) == [ref |-> r, print |-> None, actionable |-> FALSE, invalid |-> TRUE,
                           reasons |-> {why}]
<1>1. CASE operation \notin DOMAIN answers
  <2>1. c = [ref |-> None, print |-> None, actionable |-> FALSE, invalid |-> TRUE,
             reasons |-> {"ANSWER_INVALID"}]
    BY <1>1 DEF ChosenTarget
  <2> QED
    BY <2>1 DEF RESULT_REASONS
<1>2. CASE operation \in DOMAIN answers
  <2>1. c = IF ref = "none" THEN [Bad(None, "NO_TARGET") EXCEPT !.invalid = FALSE]
            ELSE IF ref \notin Ref THEN Bad(Redacted, "TARGET_MISSING")
            ELSE IF Having(els, ref) = {} THEN Bad(ref, "TARGET_MISSING")
            ELSE IF operation \notin found.operations THEN Bad(ref, "TARGET_INCOMPATIBLE")
            ELSE IF ~found.enabled THEN Bad(ref, "TARGET_UNAVAILABLE")
            ELSE [ref |-> ref, print |-> Fingerprint(found), actionable |-> TRUE,
                  invalid |-> FALSE, reasons |-> {}]
    BY <1>2 DEF ChosenTarget
  <2> HIDE DEF c, ref, found
  <2>2. CASE ref = "none"
    <3>1. c.ref = None /\ c.print = None /\ ~c.actionable /\ ~c.invalid /\ c.reasons = {"NO_TARGET"}
          /\ c.actionable \in BOOLEAN /\ c.invalid \in BOOLEAN
      BY <2>1, <2>2
    <3> QED
      BY <1>2, <2>2, <3>1 DEF RESULT_REASONS, ref, c
  <2>3. ASSUME NEW r \in Ref \cup {Redacted},
               NEW why \in {"TARGET_MISSING", "TARGET_INCOMPATIBLE", "TARGET_UNAVAILABLE"},
               c = Bad(r, why)
        PROVE  /\ c.ref \in Ref \cup {None, Redacted} /\ c.print = None
               /\ c.actionable \in BOOLEAN /\ c.invalid \in BOOLEAN
               /\ c.reasons \subseteq RESULT_REASONS /\ ~(c.reasons \subseteq {"NO_TARGET"})
    BY <2>3 DEF RESULT_REASONS
  <2>4. CASE ref # "none" /\ (ref \notin Ref \/ Having(els, ref) = {} \/ operation \notin found.operations
                              \/ ~found.enabled)
    <3>1. \E r \in Ref \cup {Redacted}, why \in {"TARGET_MISSING", "TARGET_INCOMPATIBLE", "TARGET_UNAVAILABLE"} :
             c = Bad(r, why)
      BY <2>1, <2>4
    <3> QED
      BY <2>3, <3>1 DEF c
  <2>5. CASE ref # "none" /\ ref \in Ref /\ Having(els, ref) # {} /\ operation \in found.operations
             /\ found.enabled
    <3>1. c = [ref |-> ref, print |-> Fingerprint(found), actionable |-> TRUE,
               invalid |-> FALSE, reasons |-> {}]
      BY <2>1, <2>5
    <3>2. found \in Elements
      BY <2>5, FoundElement DEF found
    <3>3. Fingerprint(found) \in Prints
      BY <3>2, ElementTypes
    <3> QED
      BY <1>2, <2>5, <3>1, <3>3 DEF c, ref, found
  <2> QED
    BY <2>2, <2>4, <2>5
<1> QED
  BY <1>1, <1>2

\* The schema of a result is right or wrong.
LEMMA ResultSound ==
  ASSUME NEW result \in Results
  PROVE  result.sound \in BOOLEAN
BY DEF Results

\* What is known of a decision d on the request b.
Stands(d, b) ==
  /\ d \in Decision
  /\ d.actionable => d.valid
  /\ d.valid =>
       /\ ~d.stale /\ ~d.invalid /\ d.targetRef \in Ref \cup {None}
       /\ d.operation \in ACTION_OPERATIONS \cup CONTROL_OPERATIONS
       /\ d.operation \in b.questions["operation"]
       /\ d.operation \in ACTION_OPERATIONS =>
            (IF d.targetRef = None THEN "none" ELSE d.targetRef) \in b.questions[d.operation]
  /\ d.actionable /\ d.targetRef # None =>
       /\ Having(b.elements, d.targetRef) # {} /\ ElementOf(b.elements, d.targetRef).enabled
       /\ d.fingerprint = Fingerprint(ElementOf(b.elements, d.targetRef))
       /\ d.decidedAt = b.boundAt /\ b.boundAt # None

\* A decision is one by its parts.
LEMMA DecisionType ==
  ASSUME NEW op \in CONTROL_OPERATIONS \cup ACTION_OPERATIONS \cup {None, Redacted},
         NEW ref \in Ref \cup {None, Redacted}, NEW print \in Prints \cup {None},
         NEW at \in (0 .. MaxTime) \cup {None}, NEW v \in BOOLEAN, NEW i \in BOOLEAN,
         NEW s \in BOOLEAN, NEW a \in BOOLEAN, NEW reasons \in SUBSET RESULT_REASONS
  PROVE  [operation |-> op, targetRef |-> ref, fingerprint |-> print, decidedAt |-> at,
          valid |-> v, invalid |-> i, stale |-> s, actionable |-> a, reasons |-> reasons] \in Decision
BY DEF Decision

\* Whatever the provider answers, the decision made of it stands.
LEMMA DecisionStands ==
  ASSUME NEW result \in Results, NEW b, Shows(b.text, b.elements, b.questions),
         b.boundAt \in (0 .. MaxTime) \cup {None}
  PROVE  Stands(validateShadowDecision(result, b, b.boundAt), b)
<1> DEFINE d == validateShadowDecision(result, b, b.boundAt)
           answers  == result.answers
           wrong    == \E q \in DOMAIN answers :
                    \/ q \notin DOMAIN b.questions
                    \/ ~isValidChoiceAnswer(answers[q], b.questions[q])
           stale    == Expired(b.boundAt)
           expired  == IF stale THEN {"TTL_EXPIRED"} ELSE {}
           unsound  == IF result.sound THEN {} ELSE {"RESULT_INVALID"}
           operation == answers["operation"].choice
           control  == [ref |-> None, print |-> None, actionable |-> TRUE, invalid |-> FALSE,
                   reasons |-> {}]
           neither  == [control EXCEPT !.actionable = FALSE]
           aim   == ChosenTarget(operation, answers, b.elements)
           chosen   == CASE operation \in CONTROL_OPERATIONS -> control
                    [] operation \in ACTION_OPERATIONS -> aim
                    [] OTHER -> neither
           reasons  == expired \cup unsound \cup chosen.reasons
                    \cup (IF wrong THEN {"ANSWER_INVALID"} ELSE {})
           ok       == reasons \subseteq {"NO_TARGET"}
<1>1. result.sound \in BOOLEAN /\ stale \in BOOLEAN /\ wrong \in BOOLEAN
  BY ResultSound DEF Expired
<1>2. expired \subseteq RESULT_REASONS /\ unsound \subseteq RESULT_REASONS
      /\ (IF wrong THEN {"ANSWER_INVALID"} ELSE {}) \subseteq RESULT_REASONS
  BY DEF RESULT_REASONS
<1>3. "operation" \notin DOMAIN answers =>
        d = Undecided(expired \cup unsound \cup {"ANSWER_INVALID"}, stale)
  BY DEF validateShadowDecision
<1>4. "operation" \in DOMAIN answers =>
        d = [operation   |-> IF operation \in CONTROL_OPERATIONS \cup ACTION_OPERATIONS
                           THEN operation ELSE Redacted,
             targetRef   |-> chosen.ref, fingerprint |-> chosen.print, decidedAt |-> b.boundAt,
             valid       |-> ok, invalid |-> wrong \/ ~result.sound \/ chosen.invalid,
             stale       |-> stale, actionable |-> ok /\ chosen.actionable, reasons |-> reasons]
  BY DEF validateShadowDecision
<1>5. b.elements \in Seq(Elements) /\ \E u \in BOOLEAN : b.questions = Questions(b.elements, u)
  BY DEF Shows
<1>6. /\ "operation" \in DOMAIN b.questions
      /\ b.questions["operation"] \subseteq ACTION_OPERATIONS \cup CONTROL_OPERATIONS
  BY <1>5, QuestionsOffer
<1> HIDE DEF d, answers, stale, expired, unsound
<1>7. /\ aim.ref \in Ref \cup {None, Redacted} /\ aim.print \in Prints \cup {None}
      /\ aim.actionable \in BOOLEAN /\ aim.invalid \in BOOLEAN /\ aim.reasons \subseteq RESULT_REASONS
      /\ aim.reasons \subseteq {"NO_TARGET"} =>
           /\ operation \in DOMAIN answers /\ ~aim.invalid
           /\ \/ aim.ref = None /\ answers[operation].choice = "none" /\ ~aim.actionable
              \/ /\ aim.ref \in Ref /\ aim.ref = answers[operation].choice
                 /\ Having(b.elements, aim.ref) # {} /\ ElementOf(b.elements, aim.ref).enabled
                 /\ aim.print = Fingerprint(ElementOf(b.elements, aim.ref))
  BY <1>5, TargetChosen
<1> HIDE DEF aim, operation
<1>8. CONTROL_OPERATIONS \cap ACTION_OPERATIONS = {}
  BY DEF CONTROL_OPERATIONS, ACTION_OPERATIONS
<1>9. /\ operation \in CONTROL_OPERATIONS => chosen = control
      /\ operation \in ACTION_OPERATIONS => chosen = aim
      /\ operation \notin CONTROL_OPERATIONS \cup ACTION_OPERATIONS => chosen = neither
  BY <1>8
<1> HIDE DEF chosen
<1>10. /\ chosen.ref \in Ref \cup {None, Redacted} /\ chosen.print \in Prints \cup {None}
       /\ chosen.actionable \in BOOLEAN /\ chosen.invalid \in BOOLEAN /\ chosen.reasons \subseteq RESULT_REASONS
  <2>1. CASE operation \in ACTION_OPERATIONS
    BY <1>7, <1>9, <2>1
  <2>2. CASE operation \notin ACTION_OPERATIONS
    <3>1. chosen = control \/ chosen = neither
      BY <1>9, <2>2
    <3>2. /\ chosen.ref = None /\ chosen.print = None /\ chosen.invalid = FALSE /\ chosen.reasons = {}
          /\ chosen.actionable = TRUE \/ chosen.actionable = FALSE
      BY <3>1
    <3> QED
      BY <3>2
  <2> QED
    BY <2>1, <2>2
<1>11. "operation" \notin DOMAIN answers => Stands(d, b)
  <2> SUFFICES ASSUME "operation" \notin DOMAIN answers PROVE Stands(d, b)
    OBVIOUS
  <2>1. d = [operation |-> None, targetRef |-> None, fingerprint |-> None, decidedAt |-> None,
             valid |-> FALSE, invalid |-> TRUE, stale |-> stale, actionable |-> FALSE,
             reasons |-> expired \cup unsound \cup {"ANSWER_INVALID"}]
    BY <1>3 DEF Undecided
  <2>2. expired \cup unsound \cup {"ANSWER_INVALID"} \in SUBSET RESULT_REASONS
    BY <1>2 DEF RESULT_REASONS
  <2>3. d \in Decision /\ ~d.actionable /\ ~d.valid
    BY <1>1, <2>1, <2>2 DEF Decision
  <2> QED
    BY <2>3 DEF Stands
<1>12. "operation" \in DOMAIN answers => Stands(d, b)
  <2> SUFFICES ASSUME "operation" \in DOMAIN answers PROVE Stands(d, b)
    OBVIOUS
  <2>1. reasons \in SUBSET RESULT_REASONS
    BY <1>2, <1>10
  <2>2. ok \in BOOLEAN /\ (ok => chosen.reasons \subseteq {"NO_TARGET"} /\ expired \subseteq {"NO_TARGET"}
                             /\ unsound \subseteq {"NO_TARGET"} /\ ~wrong)
    OBVIOUS
  <2>3. ok => ~stale /\ result.sound
    BY <2>2 DEF expired, unsound
  <2> HIDE DEF reasons, ok
  <2>4. /\ d.operation = (IF operation \in CONTROL_OPERATIONS \cup ACTION_OPERATIONS
                          THEN operation ELSE Redacted)
        /\ d.targetRef = chosen.ref /\ d.fingerprint = chosen.print /\ d.decidedAt = b.boundAt
        /\ d.valid = ok /\ d.invalid = (wrong \/ ~result.sound \/ chosen.invalid)
        /\ d.stale = stale /\ d.actionable = (ok /\ chosen.actionable) /\ d.reasons = reasons
    BY <1>4
  <2>5. (wrong \/ ~result.sound \/ chosen.invalid) \in BOOLEAN /\ (ok /\ chosen.actionable) \in BOOLEAN
    OBVIOUS
  <2> HIDE DEF wrong
  <2>6. d \in Decision
    <3>1. (IF operation \in CONTROL_OPERATIONS \cup ACTION_OPERATIONS THEN operation ELSE Redacted)
            \in CONTROL_OPERATIONS \cup ACTION_OPERATIONS \cup {None, Redacted}
      OBVIOUS
    <3> DEFINE op  == IF operation \in CONTROL_OPERATIONS \cup ACTION_OPERATIONS THEN operation ELSE Redacted
               inv == wrong \/ ~result.sound \/ chosen.invalid
               act == ok /\ chosen.actionable
    <3>2. inv \in BOOLEAN /\ act \in BOOLEAN
      BY <2>5
    <3>3. d = [operation |-> op, targetRef |-> chosen.ref, fingerprint |-> chosen.print,
               decidedAt |-> b.boundAt, valid |-> ok, invalid |-> inv,
               stale |-> stale, actionable |-> act, reasons |-> reasons]
      BY <1>4
    <3>4. op \in CONTROL_OPERATIONS \cup ACTION_OPERATIONS \cup {None, Redacted}
      BY <3>1 DEF op
    <3>5. chosen.ref \in Ref \cup {None, Redacted}
      BY <1>10
    <3>6. chosen.print \in Prints \cup {None}
      BY <1>10
    <3>7. stale \in BOOLEAN /\ ok \in BOOLEAN /\ reasons \in SUBSET RESULT_REASONS
      BY <1>1, <2>1, <2>2
    <3> DEFINE cr == chosen.ref
               cp == chosen.print
               at == b.boundAt
    <3>8. /\ d = [operation |-> op, targetRef |-> cr, fingerprint |-> cp, decidedAt |-> at,
                  valid |-> ok, invalid |-> inv, stale |-> stale, actionable |-> act, reasons |-> reasons]
          /\ cr \in Ref \cup {None, Redacted} /\ cp \in Prints \cup {None}
          /\ at \in (0 .. MaxTime) \cup {None}
      BY <3>3, <3>5, <3>6
    <3> HIDE DEF op, inv, act, cr, cp, at
    <3>9. [operation |-> op, targetRef |-> cr, fingerprint |-> cp, decidedAt |-> at,
           valid |-> ok, invalid |-> inv, stale |-> stale, actionable |-> act, reasons |-> reasons] \in Decision
      BY <3>2, <3>4, <3>7, <3>8, DecisionType
    <3> QED
      BY <3>8, <3>9
  <2>7. ok => operation \in b.questions["operation"] /\ operation \in ACTION_OPERATIONS \cup CONTROL_OPERATIONS
    <3>1. ok => isValidChoiceAnswer(answers["operation"], b.questions["operation"])
      BY <2>2 DEF wrong
    <3> QED
      BY <1>6, <3>1 DEF isValidChoiceAnswer, operation
  <2>8. ASSUME ok
        PROVE  /\ ~chosen.invalid /\ chosen.ref \in Ref \cup {None}
               /\ operation \in ACTION_OPERATIONS =>
                    (IF chosen.ref = None THEN "none" ELSE chosen.ref) \in b.questions[operation]
               /\ chosen.actionable /\ chosen.ref # None =>
                    /\ Having(b.elements, chosen.ref) # {} /\ ElementOf(b.elements, chosen.ref).enabled
                    /\ chosen.print = Fingerprint(ElementOf(b.elements, chosen.ref))
    <3>1. CASE operation \in CONTROL_OPERATIONS
      BY <1>8, <1>9, <3>1
    <3>2. CASE operation \in ACTION_OPERATIONS
      <4>1. chosen = aim /\ aim.reasons \subseteq {"NO_TARGET"}
        BY <1>9, <2>2, <2>8, <3>2
      <4>2. answers[operation].choice \in b.questions[operation]
        <5>1. operation \in DOMAIN answers
          BY <1>7, <4>1
        <5> QED
          BY <2>2, <2>8, <5>1 DEF wrong, isValidChoiceAnswer
      <4>3. None \notin Ref
        BY ShadowAssumption
      <4> QED
        BY <1>7, <4>1, <4>2, <4>3
    <3> QED
      BY <2>7, <2>8, <3>1, <3>2
  <2>9. ok => b.boundAt # None
    BY <2>3 DEF stale, Expired
  <2>10. d.valid => /\ ~d.stale /\ ~d.invalid /\ d.targetRef \in Ref \cup {None}
                    /\ d.operation = operation
    <3>1. ok => ~(wrong \/ ~result.sound \/ chosen.invalid)
      BY <2>2, <2>3, <2>8
    <3> QED
      BY <2>3, <2>4, <2>7, <2>8, <3>1
  <2> QED
    BY <2>4, <2>6, <2>7, <2>8, <2>9, <2>10 DEF Stands
<1> QED
  BY <1>11, <1>12 DEF d

-----------------------------------------------------------------------------
(* The invariant of the shadow loop *)

\* The request in flight, of the snapshot the caller holds.
Requested(b) ==
  /\ Shows(b.text, b.elements, b.questions)
  /\ b.boundAt \in (0 .. MaxTime) \cup {None}
  /\ b.told = "capture" => b.boundAt = snapshot.at
  /\ b.choice \in AgentChoices

\* What is known of a record r, made of the answer to the request b.
Reasons == {<<"INVALID_RESULT">>} \cup {<<w, c>> : w \in {"BUILD_FAILED", "QUERY_FAILED"}, c \in FAILURE_CODES}

Recorded(r, b) ==
  /\ r \in Record /\ r.reason \in Reasons \cup {None}
  /\ r.jevDecision = None => r.status = "fallback-required" /\ r.agreement = None
  /\ r.jevDecision # None =>
       /\ Stands(r.jevDecision, b) /\ r.status = StatusOf(r.jevDecision)
       /\ r.agreement \in BOOLEAN => r.jevDecision.actionable
       /\ r.agreement = TRUE => /\ b.choice.operation = r.jevDecision.operation
                                /\ b.choice.targetRef = r.jevDecision.targetRef

\* What the metrics are counted of.
Counted ==
  {e \in [status : STATUS_VALUES, agreement : BOOLEAN \cup {None},
          fault : FAULT_VALUES \cup {None},
          stale : BOOLEAN, invalid : BOOLEAN, actionable : BOOLEAN] :
     /\ e.invalid <=> e.status = "invalid"
     /\ e.agreement \in BOOLEAN => e.actionable
     /\ ~(e.stale /\ e.actionable)}

ShadowInv ==
  /\ ShadowTypeOK
  /\ phase = "asked" => Requested(built)
  /\ phase = "judged" => /\ Recorded(record, built)
                         /\ record.jevDecision # None => Requested(built)
  /\ log \in Seq(Counted) /\ (phase # "idle" => Len(log) < MaxSteps)

\* Every element of a request has a ref of the grammar.
LEMMA RefsShown ==
  ASSUME NEW text, NEW els, NEW qs, Shows(text, els, qs)
  PROVE  Refs(els) \subseteq Ref
<1>1. ASSUME NEW i \in DOMAIN els
      PROVE  els[i].ref \in Ref
  <2>1. PICK k \in DOMAIN text : Visible(text[k], FALSE) /\ els[i] = Element(text[k])
    BY DEF Shows, MadeOf
  <2>2. Element(text[k]).ref = text[k].ref
    BY DEF Element
  <2> QED
    BY <2>1, <2>2 DEF Visible
<1> QED
  BY <1>1 DEF Refs

\* The agent's own choice as it is recorded: that choice, or redacted.
LEMMA NormalProjected ==
  ASSUME NEW choice \in AgentChoices, NEW refs, refs \subseteq Ref
  PROVE  /\ projectNormalAgentDecision(choice, refs) \in AgentDecision \cup {None}
         /\ projectNormalAgentDecision(choice, refs) # None =>
              /\ projectNormalAgentDecision(choice, refs).operation \in {choice.operation, Redacted}
              /\ projectNormalAgentDecision(choice, refs).targetRef \in {choice.targetRef, Redacted}
<1> DEFINE n == projectNormalAgentDecision(choice, refs)
<1>1. CASE choice = None
  BY <1>1 DEF projectNormalAgentDecision
<1>2. CASE choice # None
  <2> DEFINE op == IF choice.operation \in CONTROL_OPERATIONS \cup ACTION_OPERATIONS
                   THEN choice.operation ELSE Redacted
             t  == IF choice.targetRef = None \/ choice.targetRef \in refs
                   THEN choice.targetRef ELSE Redacted
  <2>1. n = [operation |-> op, targetRef |-> t]
    BY <1>2 DEF projectNormalAgentDecision
  <2>2. op \in CONTROL_OPERATIONS \cup ACTION_OPERATIONS \cup {Redacted} /\ op \in {choice.operation, Redacted}
    OBVIOUS
  <2>3. t \in Ref \cup {None, Redacted} /\ t \in {choice.targetRef, Redacted}
    OBVIOUS
  <2> HIDE DEF op, t, n
  <2>4. n \in AgentDecision /\ n.operation = op /\ n.targetRef = t
    BY <2>1, <2>2, <2>3 DEF AgentDecision
  <2> QED
    BY <1>2, <2>2, <2>3, <2>4 DEF n
<1> QED
  BY <1>1, <1>2

\* A record without a decision.
LEMMA FallbackRecorded ==
  ASSUME NEW why \in {"BUILD_FAILED", "QUERY_FAILED"}, NEW code, NEW choice \in AgentChoices,
         NEW refs, refs \subseteq Ref, NEW at \in (0 .. MaxTime) \cup {None}, NEW b
  PROVE  /\ Recorded(Fallback(why, code, choice, refs, at), b)
         /\ Fallback(why, code, choice, refs, at).jevDecision = None
<1> DEFINE r == Fallback(why, code, choice, refs, at)
           n == projectNormalAgentDecision(choice, refs)
           w == <<why, sanitizeReasonCode(code)>>
<1>1. r = [status |-> "fallback-required", reason |-> w, jevDecision |-> None,
           normalAgentDecision |-> n, agreement |-> None, snapshotCapturedAt |-> at]
  BY DEF Fallback
<1>2. n \in AgentDecision \cup {None}
  BY NormalProjected
<1>3. sanitizeReasonCode(code) \in FAILURE_CODES
  BY DEF sanitizeReasonCode, FAILURE_CODES
<1>4. w \in Reasons
  BY <1>3 DEF Reasons
<1>5. w \in Seq({"INVALID_RESULT", "BUILD_FAILED", "QUERY_FAILED"} \cup FAILURE_CODES)
  BY <1>3
<1> HIDE DEF n, w, r
<1>6. "fallback-required" \in STATUS_VALUES
  BY DEF STATUS_VALUES
<1>7. r \in Record
  BY <1>1, <1>2, <1>5, <1>6 DEF Record
<1>8. r.reason \in Reasons /\ r.jevDecision = None /\ r.status = "fallback-required" /\ r.agreement = None
  BY <1>1, <1>4
<1> QED
  BY <1>7, <1>8 DEF Recorded, r

\* A record with one.
LEMMA JudgedRecorded ==
  ASSUME NEW result \in Results, NEW b, Shows(b.text, b.elements, b.questions),
         b.boundAt \in (0 .. MaxTime) \cup {None}, b.choice \in AgentChoices
  PROVE  /\ Recorded(Judged(result, b), b)
<1> DEFINE r == Judged(result, b)
           d == validateShadowDecision(result, b, b.boundAt)
           n == projectNormalAgentDecision(b.choice, Refs(b.elements))
           w == IF d.invalid THEN <<"INVALID_RESULT">> ELSE None
           a == IF ~d.invalid /\ d.actionable /\ n # None THEN Agree(d, n) ELSE None
           at == b.boundAt
<1>1. r = [status |-> StatusOf(d), reason |-> w, jevDecision |-> d, normalAgentDecision |-> n,
           agreement |-> a, snapshotCapturedAt |-> at]
  BY DEF Judged
<1>2. Stands(d, b)
  BY DecisionStands
<1>3. /\ n \in AgentDecision \cup {None}
      /\ n # None => /\ n.operation \in {b.choice.operation, Redacted}
                     /\ n.targetRef \in {b.choice.targetRef, Redacted}
  <2>1. Refs(b.elements) \subseteq Ref
    BY RefsShown
  <2> QED
    BY <2>1, NormalProjected
<1>4. w \in Reasons \cup {None}
  BY DEF Reasons
<1>5. w \in Seq({"INVALID_RESULT", "BUILD_FAILED", "QUERY_FAILED"} \cup FAILURE_CODES) \cup {None}
  OBVIOUS
<1>6. StatusOf(d) \in STATUS_VALUES
  BY DEF StatusOf, STATUS_VALUES
<1>7. a \in BOOLEAN \cup {None} /\ (a \in BOOLEAN => d.actionable)
  BY ShadowAssumption DEF Agree
<1>8. a = TRUE => b.choice.operation = d.operation /\ b.choice.targetRef = d.targetRef
  <2> SUFFICES ASSUME a = TRUE PROVE b.choice.operation = d.operation /\ b.choice.targetRef = d.targetRef
    OBVIOUS
  <2>1. d.actionable /\ n # None /\ Agree(d, n)
    BY ShadowAssumption
  <2>2. d.operation \in ACTION_OPERATIONS \cup CONTROL_OPERATIONS /\ d.targetRef \in Ref \cup {None}
    BY <1>2, <2>1 DEF Stands
  <2>3. d.operation # Redacted
    BY <2>2 DEF ACTION_OPERATIONS, CONTROL_OPERATIONS, Redacted
  <2>4. d.targetRef # Redacted
    BY <2>2, ShadowAssumption
  <2> HIDE DEF d, n
  <2> QED
    BY <1>3, <2>1, <2>3, <2>4 DEF Agree
<1> HIDE DEF d, n, w, a, r, at
<1>9. d \in Decision
  BY <1>2 DEF Stands
<1>10. at \in (0 .. MaxTime) \cup {None}
  BY DEF at
<1>11. r \in Record
  BY <1>1, <1>3, <1>5, <1>6, <1>7, <1>9, <1>10 DEF Record
<1>12. r.reason = w /\ r.jevDecision = d /\ r.status = StatusOf(d) /\ r.agreement = a
  BY <1>1
<1>13. d # None
  BY <1>9, ShadowAssumption
<1> QED
  BY <1>2, <1>4, <1>7, <1>8, <1>11, <1>12, <1>13 DEF Recorded, r

\* The evidence file keeps what is recorded: the decision, ...
LEMMA DecisionKept ==
  ASSUME NEW d \in Decision \cup {None}
  PROVE  projectJevDecision(d) = d
<1>1. CASE d = None
  BY <1>1 DEF projectJevDecision
<1>2. CASE d # None
  <2>1. d \in Decision
    BY <1>2
  <2>2. /\ d.operation \in {None, Redacted} \cup CONTROL_OPERATIONS \cup ACTION_OPERATIONS
        /\ d.targetRef \in {None, Redacted} \cup Ref /\ d.reasons \subseteq RESULT_REASONS
    BY <2>1 DEF Decision
  <2> DEFINE op  == IF d.operation \in {None} \cup CONTROL_OPERATIONS \cup ACTION_OPERATIONS
                    THEN d.operation ELSE Redacted
             ref == IF d.targetRef \in {None} \cup Ref THEN d.targetRef ELSE Redacted
             why == {IF r \in RESULT_REASONS THEN r ELSE "UNKNOWN" : r \in d.reasons}
  <2>3. op = d.operation /\ ref = d.targetRef
    BY <2>2
  <2>4. why = d.reasons
    BY <2>2
  <2>5. projectJevDecision(d) = [d EXCEPT !.operation = op, !.targetRef = ref, !.reasons = why]
    BY <1>2 DEF projectJevDecision
  <2> HIDE DEF op, ref, why
  <2>6. [d EXCEPT !.operation = op, !.targetRef = ref, !.reasons = why] = d
    BY <2>1, <2>3, <2>4 DEF Decision
  <2> QED
    BY <2>5, <2>6
<1> QED
  BY <1>1, <1>2

\* ... the agent's choice ...
LEMMA NormalKept ==
  ASSUME NEW n \in AgentDecision \cup {None}
  PROVE  projectNormalAgentDecision(n, Ref) = n
<1>1. CASE n = None
  BY <1>1 DEF projectNormalAgentDecision
<1>2. CASE n # None
  <2>1. n \in AgentDecision
    BY <1>2
  <2>2. /\ n = [operation |-> n.operation, targetRef |-> n.targetRef]
        /\ n.operation \in CONTROL_OPERATIONS \cup ACTION_OPERATIONS \cup {Redacted}
        /\ n.targetRef \in Ref \cup {None, Redacted}
    BY <2>1 DEF AgentDecision
  <2> DEFINE op == IF n.operation \in CONTROL_OPERATIONS \cup ACTION_OPERATIONS
                   THEN n.operation ELSE Redacted
             t  == IF n.targetRef = None \/ n.targetRef \in Ref THEN n.targetRef ELSE Redacted
  <2>3. projectNormalAgentDecision(n, Ref) = [operation |-> op, targetRef |-> t]
    BY <1>2 DEF projectNormalAgentDecision
  <2>4. op = n.operation /\ t = n.targetRef
    BY <2>2
  <2> HIDE DEF op, t
  <2> QED
    BY <2>2, <2>3, <2>4
<1> QED
  BY <1>1, <1>2

\* ... the reason, and so the record.
LEMMA RecordKept ==
  ASSUME NEW r, NEW b, Recorded(r, b)
  PROVE  projectShadowRecord(r) = r
<1>1. /\ r \in Record /\ r.status \in STATUS_VALUES
      /\ r.jevDecision \in Decision \cup {None} /\ r.normalAgentDecision \in AgentDecision \cup {None}
  BY DEF Recorded, Record
<1>2. projectJevDecision(r.jevDecision) = r.jevDecision
  BY <1>1, DecisionKept
<1>3. projectNormalAgentDecision(r.normalAgentDecision, Ref) = r.normalAgentDecision
  BY <1>1, NormalKept
<1>4. ClosedReason(r.reason) = r.reason
  <2>1. CASE r.reason = None \/ r.reason = <<"INVALID_RESULT">>
    BY <2>1 DEF ClosedReason
  <2>2. CASE \E w \in {"BUILD_FAILED", "QUERY_FAILED"}, c \in FAILURE_CODES : r.reason = <<w, c>>
    <3>1. PICK w \in {"BUILD_FAILED", "QUERY_FAILED"}, c \in FAILURE_CODES : r.reason = <<w, c>>
      BY <2>2
    <3>2. r.reason[1] \in {"BUILD_FAILED", "QUERY_FAILED"} /\ r.reason[2] \in FAILURE_CODES
      BY <3>1
    <3> QED
      BY <3>2 DEF ClosedReason
  <2> QED
    BY <2>1, <2>2 DEF Recorded, Reasons
<1> DEFINE st == IF r.status \in STATUS_VALUES THEN r.status ELSE Redacted
<1>5. st = r.status
  BY <1>1
<1>6. projectShadowRecord(r) =
        [r EXCEPT !.status = st, !.reason = ClosedReason(r.reason),
                  !.jevDecision = projectJevDecision(r.jevDecision),
                  !.normalAgentDecision = projectNormalAgentDecision(r.normalAgentDecision, Ref)]
  BY DEF projectShadowRecord
<1> HIDE DEF st
<1>7. [r EXCEPT !.status = st, !.reason = ClosedReason(r.reason),
                !.jevDecision = projectJevDecision(r.jevDecision),
                !.normalAgentDecision = projectNormalAgentDecision(r.normalAgentDecision, Ref)] = r
  BY <1>1, <1>2, <1>3, <1>4, <1>5 DEF Record
<1> QED
  BY <1>6, <1>7

\* The fresh check names a fault that it knows, or none.
LEMMA FaultsKnown ==
  ASSUME NEW d, NEW text, NEW covered
  PROVE  recheckShadowTarget(d, text, covered).fault \in FAULT_VALUES \cup {None}
BY DEF recheckShadowTarget, FAULT_VALUES

\* What the metrics are counted of.
LEMMA EntryTyped ==
  ASSUME NEW r, NEW b, Recorded(r, b), NEW fresh, fresh.fault \in FAULT_VALUES \cup {None}
  PROVE  Entry(projectShadowRecord(r), fresh) \in Counted
<1> DEFINE e == Entry(r, fresh)
           d == r.jevDecision
           st == d # None /\ d.stale
           i  == d # None /\ d.invalid
           a  == d # None /\ d.actionable
           f  == fresh.fault
           s  == r.status
           g  == r.agreement
<1>1. e = [status |-> s, agreement |-> g, fault |-> f, stale |-> st, invalid |-> i, actionable |-> a]
  BY DEF Entry
<1>2. s \in STATUS_VALUES /\ g \in BOOLEAN \cup {None}
  BY DEF Recorded, Record
<1>3. st \in BOOLEAN /\ i \in BOOLEAN /\ a \in BOOLEAN
  OBVIOUS
<1>4. (i <=> s = "invalid") /\ ~(st /\ a) /\ (g \in BOOLEAN => a)
  <2>1. CASE d = None
    BY <2>1, ShadowAssumption DEF Recorded
  <2>2. CASE d # None
    <3>1. /\ d.actionable => ~d.stale
          /\ s = StatusOf(d) /\ (g \in BOOLEAN => d.actionable) /\ d \in Decision
      BY <2>2 DEF Recorded, Stands
    <3>2. d.invalid \in BOOLEAN
      BY <3>1 DEF Decision
    <3>3. d.invalid <=> s = "invalid"
      BY <3>1, <3>2 DEF StatusOf
    <3> QED
      BY <2>2, <3>1, <3>3
  <2> QED
    BY <2>1, <2>2
<1>5. f \in FAULT_VALUES \cup {None}
  OBVIOUS
<1> HIDE DEF e, d, st, i, a, f, s, g
<1>6. e \in Counted
  BY <1>1, <1>2, <1>3, <1>4, <1>5 DEF Counted
<1>7. projectShadowRecord(r) = r
  BY RecordKept
<1> QED
  BY <1>6, <1>7 DEF e

\* The invariant holds at the start, ...
LEMMA ShadowInvInit == ShadowInit => ShadowInv
<1> SUFFICES ASSUME ShadowInit PROVE ShadowInv
  OBVIOUS
<1>1. 0 \in 0 .. MaxTime /\ MaxSteps \in Nat
  BY ShadowAssumption
<1>2. log = <<>> /\ log \in Seq(Counted) /\ Len(log) = 0 /\ DOMAIN log = {}
  BY DEF ShadowInit
<1>3. ShadowTypeOK
  BY <1>1, <1>2 DEF ShadowInit, ShadowTypeOK
<1> QED
  BY <1>2, <1>3 DEF ShadowInit, ShadowInv

\* A step of the environment, or one that changes nothing.
LEMMA ShadowInvRests ==
  ASSUME ShadowInv, UNCHANGED <<snapshot, phase, built, record, log>>,
         page' \in Page, now' \in 0 .. MaxTime
  PROVE  ShadowInv'
BY DEF ShadowInv, ShadowTypeOK, Requested

\* A snapshot is taken.
LEMMA ShadowInvTake ==
  ASSUME ShadowInv, TakeSnapshot
  PROVE  ShadowInv'
<1>1. snapshot' \in Snapshot /\ snapshot' # None
  BY ShadowAssumption DEF ShadowInv, ShadowTypeOK, TakeSnapshot, Snapshot
<1> QED
  BY <1>1 DEF ShadowInv, ShadowTypeOK, TakeSnapshot

\* A request is built and sent, or does not pass.
LEMMA ShadowInvAsk ==
  ASSUME ShadowInv, NEW input \in Inputs, NEW tells \in {"capture", "garbled", "not"},
         NEW choice \in AgentChoices, Ask(input, tells, choice)
  PROVE  ShadowInv'
<1> DEFINE request == buildBrowserStepRequest(snapshot.text, input)
           at == BoundAt(tells)
           b == [text |-> snapshot.text, elements |-> request.elements,
                 questions |-> request.questions, boundAt |-> at, told |-> tells, choice |-> choice]
           r == Fallback("BUILD_FAILED", "REQUEST_INVALID", choice, {}, at)
<1>1. /\ phase = "taken" /\ record = None /\ UNCHANGED <<page, now, snapshot, log>>
      /\ snapshot \in Snapshot /\ snapshot # None
      /\ \/ phase' = "asked" /\ built' = b /\ UNCHANGED record
         \/ phase' = "judged" /\ UNCHANGED built /\ record' = r
  BY DEF ShadowInv, ShadowTypeOK, Ask
<1>2. at \in (0 .. MaxTime) \cup {None} /\ (tells = "capture" => at = snapshot.at)
  BY <1>1 DEF ShadowInv, ShadowTypeOK, Snapshot, BoundAt
<1>3. Shows(snapshot.text, request.elements, request.questions)
  <2>1. snapshot.text \in Page
    BY <1>1 DEF Snapshot
  <2> QED
    BY <2>1, RequestShows
<1> HIDE DEF request, at
<1>4. CASE phase' = "asked" /\ built' = b /\ UNCHANGED record
  <2> DEFINE q == request.questions
  <2>1. /\ b.text = snapshot.text /\ b.elements = request.elements /\ b.questions = q
        /\ b.boundAt = at /\ b.told = tells /\ b.choice = choice
    OBVIOUS
  <2>2. "operation" \in DOMAIN q
    BY <1>3, QuestionsOffer DEF Shows
  <2> HIDE DEF b, q
  <2>3. Shows(b.text, b.elements, b.questions)
    BY <1>3, <2>1 DEF q
  <2>4. Requested(built)'
    BY <1>1, <1>2, <1>4, <2>1, <2>3 DEF Requested
  <2> QED
    BY <1>1, <1>4, <2>1, <2>2, <2>4 DEF ShadowInv, ShadowTypeOK
<1>5. CASE phase' = "judged" /\ UNCHANGED built /\ record' = r
  <2>1. Recorded(r, built) /\ r.jevDecision = None
    BY <1>2, FallbackRecorded
  <2> HIDE DEF r
  <2>2. record' \in Record /\ record' # None
    BY <1>5, <2>1, ShadowAssumption DEF Recorded
  <2> QED
    BY <1>1, <1>5, <2>1, <2>2 DEF ShadowInv, ShadowTypeOK
<1> QED
  BY <1>1, <1>4, <1>5

\* The query fails.
LEMMA ShadowInvFails ==
  ASSUME ShadowInv, NEW code, QueryFails(code)
  PROVE  ShadowInv'
<1> DEFINE r == Fallback("QUERY_FAILED", code, built.choice, Refs(built.elements), built.boundAt)
<1>1. /\ phase = "asked" /\ phase' = "judged" /\ record' = r /\ UNCHANGED <<page, now, snapshot, built, log>>
      /\ Requested(built)
  BY DEF ShadowInv, QueryFails
<1>2. Refs(built.elements) \subseteq Ref
  BY <1>1, RefsShown DEF Requested
<1>3. built.choice \in AgentChoices /\ built.boundAt \in (0 .. MaxTime) \cup {None}
  BY <1>1 DEF Requested
<1>4. Recorded(r, built) /\ r.jevDecision = None
  BY <1>2, <1>3, FallbackRecorded
<1> HIDE DEF r
<1>5. record' \in Record /\ record' # None
  BY <1>1, <1>4, ShadowAssumption DEF Recorded
<1> QED
  BY <1>1, <1>4, <1>5 DEF ShadowInv, ShadowTypeOK

\* The provider answers.
LEMMA ShadowInvAnswers ==
  ASSUME ShadowInv, NEW result \in Results, QueryAnswers(result)
  PROVE  ShadowInv'
<1> DEFINE r == Judged(result, built)
<1>1. /\ phase = "asked" /\ phase' = "judged" /\ record' = r /\ UNCHANGED <<page, now, snapshot, built, log>>
      /\ Requested(built)
  BY DEF ShadowInv, QueryAnswers
<1>2. Recorded(r, built)
  BY <1>1, JudgedRecorded DEF Requested
<1> HIDE DEF r
<1>3. record' \in Record /\ record' # None
  BY <1>1, <1>2, ShadowAssumption DEF Recorded
<1>4. Requested(built)'
  BY <1>1 DEF Requested
<1> QED
  BY <1>1, <1>2, <1>3, <1>4 DEF ShadowInv, ShadowTypeOK

\* The target is checked and the step recorded.
LEMMA ShadowInvRechecks ==
  ASSUME ShadowInv, NEW covered, Recheck(covered)
  PROVE  ShadowInv'
<1> DEFINE e == Entry(projectShadowRecord(record), recheckShadowTarget(record.jevDecision, page, covered))
<1>1. /\ phase = "judged" /\ phase' = "idle" /\ log' = Append(log, e)
      /\ record' = None /\ built' = None /\ snapshot' = None /\ UNCHANGED <<page, now>>
      /\ Recorded(record, built) /\ log \in Seq(Counted)
  BY DEF ShadowInv, Recheck
<1>2. e \in Counted
  BY <1>1, FaultsKnown, EntryTyped
<1> HIDE DEF e
<1>3. log' \in Seq(Counted)
  BY <1>1, <1>2
<1>4. \A i \in DOMAIN log' :
         log'[i].status \in STATUS_VALUES /\ log'[i].fault \in FAULT_VALUES \cup {None}
  BY <1>3 DEF Counted
<1>5. Len(log') <= MaxSteps
  <2>1. Len(log) < MaxSteps /\ MaxSteps \in Nat
    BY <1>1, ShadowAssumption DEF ShadowInv
  <2> QED
    BY <1>1, <1>2, <2>1
<1> QED
  BY <1>1, <1>3, <1>4, <1>5 DEF ShadowInv, ShadowTypeOK

\* ... and every step keeps it.
LEMMA ShadowInvNext == ShadowInv /\ [ShadowNext]_shadowVars => ShadowInv'
<1> SUFFICES ASSUME ShadowInv, [ShadowNext]_shadowVars PROVE ShadowInv'
  OBVIOUS
<1>1. page \in Page /\ now \in 0 .. MaxTime /\ MaxTime \in Nat
  BY ShadowAssumption DEF ShadowInv, ShadowTypeOK
<1>2. CASE PageChanges
  BY <1>1, <1>2, ShadowInvRests DEF PageChanges
<1>3. CASE Tick
  <2>1. now' \in 0 .. MaxTime /\ page' \in Page /\ UNCHANGED <<snapshot, phase, built, record, log>>
    BY <1>1, <1>3 DEF Tick
  <2> QED
    BY <2>1, ShadowInvRests
<1>4. CASE TakeSnapshot
  BY <1>4, ShadowInvTake
<1>5. CASE \E input \in Inputs, tells \in {"capture", "garbled", "not"}, choice \in AgentChoices :
             Ask(input, tells, choice)
  BY <1>5, ShadowInvAsk
<1>6. CASE \E code \in FAILURE_CODES \cup {"ECONNRESET"} : QueryFails(code)
  BY <1>6, ShadowInvFails
<1>7. CASE \E result \in Results : QueryAnswers(result)
  BY <1>7, ShadowInvAnswers
<1>8. CASE \E covered \in {{}} \cup {{r} : r \in Ref} : Recheck(covered)
  BY <1>8, ShadowInvRechecks
<1>9. CASE UNCHANGED shadowVars
  BY <1>1, <1>9, ShadowInvRests DEF shadowVars
<1> QED
  BY <1>2, <1>3, <1>4, <1>5, <1>6, <1>7, <1>8, <1>9 DEF ShadowNext

\* In every reachable state.
THEOREM ShadowInvHolds == ShadowSpec => []ShadowInv
<1> QED
  BY ShadowInvInit, ShadowInvNext, PTL DEF ShadowSpec

-----------------------------------------------------------------------------
(* What holds of a step *)

\* An element the request could show is in it, or the questions offer "none".
LEMMA CutIsSaid == ShadowInv => CutSnapshotOffersNone
<1> SUFFICES ASSUME ShadowInv, phase = "asked", NEW i \in DOMAIN built.text,
                    Visible(built.text[i], FALSE), built.text[i].ref \notin Refs(built.elements),
                    NEW q \in DOMAIN built.questions \ {"operation"}
             PROVE  "none" \in built.questions[q]
  BY DEF CutSnapshotOffersNone
<1>1. Shows(built.text, built.elements, built.questions)
  BY DEF ShadowInv, Requested
<1>2. PICK u \in BOOLEAN :
        /\ built.questions = Questions(built.elements, u)
        /\ u \/ \A k \in DOMAIN built.text : Visible(built.text[k], FALSE) =>
                  \E j \in DOMAIN built.elements : built.elements[j] = Element(built.text[k])
  BY <1>1 DEF Shows
<1>3. ASSUME NEW j \in DOMAIN built.elements, built.elements[j] = Element(built.text[i])
      PROVE  FALSE
  <2>1. Element(built.text[i]).ref = built.text[i].ref
    BY DEF Element
  <2> QED
    BY <1>3, <2>1 DEF Refs
<1>4. u
  BY <1>2, <1>3
<1>5. built.elements \in Seq(Elements)
  BY <1>1 DEF Shows
<1> QED
  BY <1>2, <1>4, <1>5, QuestionsOffer

\* A decision is among what its request offered, and an agreement is with the agent.
LEMMA AnswersInside == ShadowInv => AnswersStayInside /\ AgreementMeansSame
<1> SUFFICES ASSUME ShadowInv, phase = "judged"
             PROVE  AnswersStayInside /\ AgreementMeansSame
  BY DEF AnswersStayInside, AgreementMeansSame
<1>1. Recorded(record, built)
  BY DEF ShadowInv
<1>2. ASSUME record.jevDecision # None, record.jevDecision.valid
      PROVE  AnswersStayInside
  BY <1>1, <1>2 DEF AnswersStayInside, Recorded, Stands
<1>3. ASSUME record.agreement = TRUE
      PROVE  AgreementMeansSame
  <2>1. record.jevDecision # None
    BY <1>1, <1>3, ShadowAssumption DEF Recorded
  <2>2. record.jevDecision.actionable /\ Stands(record.jevDecision, built)
    BY <1>1, <1>3, <2>1 DEF Recorded
  <2> QED
    BY <1>1, <1>3, <2>1, <2>2 DEF AgreementMeansSame, Recorded, Stands
<1> QED
  BY <1>2, <1>3 DEF AnswersStayInside, AgreementMeansSame

\* The evidence file keeps the record.
LEMMA EvidenceKeeps == ShadowInv => EvidenceKeepsRecord
  BY RecordKept DEF ShadowInv, EvidenceKeepsRecord

\* The context of every element is its ancestors.
LEMMA ContextsRight == ShadowInv => ContextIsAncestors
  BY ContextsAreAncestors DEF ShadowInv, ShadowTypeOK

\* Of two parts of a finite set that have no member in common.
LEMMA PartsAdd ==
  ASSUME NEW D, IsFiniteSet(D), NEW A, NEW B, A \subseteq D, B \subseteq D, A \cap B = {}
  PROVE  /\ Cardinality(A \cup B) = Cardinality(A) + Cardinality(B)
         /\ Cardinality(A) \in Nat /\ Cardinality(B) \in Nat /\ Cardinality(D) \in Nat
         /\ Cardinality(A) + Cardinality(B) <= Cardinality(D)
<1>1. IsFiniteSet(A) /\ IsFiniteSet(B)
  BY FS_Subset
<1>2. Cardinality(A \cup B) = Cardinality(A) + Cardinality(B) - Cardinality(A \cap B)
  BY <1>1, FS_Union
<1>3. Cardinality(A) \in Nat /\ Cardinality(B) \in Nat /\ Cardinality(D) \in Nat
  BY <1>1, FS_CardinalityType
<1>4. Cardinality(A \cap B) = 0
  BY FS_EmptySet
<1>5. Cardinality(A \cup B) <= Cardinality(D)
  <2>1. (A \cup B) \subseteq D
    OBVIOUS
  <2> QED
    BY <2>1, FS_Subset
<1> QED
  BY <1>2, <1>3, <1>4, <1>5

\* The counts of the metrics fit together.
LEMMA BooksBalanced == ShadowInv => BooksBalance
<1> SUFFICES ASSUME ShadowInv PROVE BooksBalance
  OBVIOUS
<1> DEFINE D == DOMAIN log
           O == {i \in D : log[i].status = "ok"}
           V == {i \in D : log[i].status = "invalid"}
           F == {i \in D : log[i].status = "fallback-required"}
           C == {i \in D : log[i].agreement \in BOOLEAN}
           T == {i \in D : log[i].agreement = TRUE}
           S == {i \in D : log[i].stale}
           I == {i \in D : log[i].invalid}
           A == {i \in D : log[i].actionable}
           m == aggregateShadowMetrics(log)
<1>1. /\ m.decisions = Len(log) /\ m.ok = Cardinality(O) /\ m.invalidStatus = Cardinality(V)
      /\ m.fallback = Cardinality(F) /\ m.counted = Cardinality(C) /\ m.agree = Cardinality(T)
      /\ m.stale = Cardinality(S) /\ m.invalid = Cardinality(I) /\ m.actionable = Cardinality(A)
  BY DEF aggregateShadowMetrics
<1>2. log \in Seq(Counted) /\ Len(log) \in Nat /\ D = 1 .. Len(log)
  BY DEF ShadowInv
<1>3. IsFiniteSet(D) /\ Cardinality(D) = Len(log)
  BY <1>2, FS_Interval
<1>4. ASSUME NEW i \in D
      PROVE  /\ log[i].status \in STATUS_VALUES /\ (log[i].invalid <=> log[i].status = "invalid")
             /\ log[i].agreement \in BOOLEAN => log[i].actionable
             /\ ~(log[i].stale /\ log[i].actionable)
  <2>1. log[i] \in Counted
    BY <1>2
  <2> QED
    BY <2>1 DEF Counted
<1>5. /\ O \cup V \cup F = D /\ O \cap V = {} /\ (O \cup V) \cap F = {} /\ I = V
      /\ T \subseteq C /\ C \subseteq A /\ S \cap A = {}
      /\ O \subseteq D /\ V \subseteq D /\ F \subseteq D /\ S \subseteq D /\ A \subseteq D
  BY <1>4 DEF STATUS_VALUES
<1> HIDE DEF D, O, V, F, C, T, S, I, A, m
<1>6. Cardinality(O) + Cardinality(V) + Cardinality(F) = Cardinality(D)
  <2> DEFINE OV == O \cup V
  <2>1. OV \subseteq D /\ F \subseteq D /\ OV \cap F = {}
    BY <1>5
  <2>2. Cardinality(OV) = Cardinality(O) + Cardinality(V)
    BY <1>3, <1>5, PartsAdd
  <2> HIDE DEF OV
  <2>3. Cardinality(OV \cup F) = Cardinality(OV) + Cardinality(F)
    <3>1. IsFiniteSet(OV) /\ IsFiniteSet(F)
      BY <1>3, <2>1, FS_Subset
    <3>2. Cardinality(OV \cup F) = Cardinality(OV) + Cardinality(F) - Cardinality(OV \cap F)
      BY <3>1, FS_Union
    <3>3. Cardinality(OV \cap F) = 0
      BY <2>1, FS_EmptySet
    <3> QED
      BY <3>1, <3>2, <3>3, FS_CardinalityType
  <2> QED
    BY <1>5, <2>2, <2>3 DEF OV
<1>7. Cardinality(S) + Cardinality(A) <= Cardinality(D)
  BY <1>3, <1>5, PartsAdd
<1>8. Cardinality(T) <= Cardinality(C) /\ Cardinality(C) <= Cardinality(A)
  <2>1. IsFiniteSet(A) /\ IsFiniteSet(C)
    BY <1>3, <1>5, FS_Subset
  <2> QED
    BY <1>5, <2>1, FS_Subset
<1> QED
  BY <1>1, <1>3, <1>5, <1>6, <1>7, <1>8 DEF BooksBalance, m

\* A state the invariant holds of is sound.
LEMMA InvIsSound == ShadowInv => StepsAreSound
  BY CutIsSaid, AnswersInside, EvidenceKeeps, ContextsRight, BooksBalanced
     DEF StepsAreSound, ShadowInv

\* What a step asks, judges and records is about the snapshot it was asked of: for
\* any pages, limits and length of the run.
THEOREM StepsStaySound == ShadowSpec => []StepsAreSound
<1> QED
  BY ShadowInvHolds, InvIsSound, PTL

-----------------------------------------------------------------------------
(* What the fresh check says *)

\* What the fresh check finds is a line of the page; what it does not find and
\* did not cut off is none that can be seen.
LEMMA FreshElementsOfPage ==
  ASSUME page \in Page, NEW ref
  PROVE  /\ Having(FreshElements(page), ref) # {} =>
              \E i \in DOMAIN page :
                /\ page[i].kind = "element" /\ page[i].ref = ref
                /\ ElementOf(FreshElements(page), ref) = Element(page[i])
         /\ Having(FreshElements(page), ref) = {} =>
              \/ \A i \in DOMAIN page : page[i].kind = "element" /\ page[i].ref = ref =>
                   ~Visible(page[i], TRUE)
              \/ Len(Kept(parseAriaSnapshot(page), {l \in AriaLine : Visible(l, TRUE)}))
                   > Min({MaxFreshElements, DEFAULT_MAX_STATE_BYTES})
<1> DEFINE norm == normalizeAriaSnapshot(page, MaxFreshElements, DEFAULT_MAX_STATE_BYTES, TRUE)
           fresh == norm.elements
           raw == Kept(parseAriaSnapshot(page), {l \in AriaLine : Visible(l, TRUE)})
           limit == Min({MaxFreshElements, DEFAULT_MAX_STATE_BYTES})
<1>1. FreshElements(page) = fresh
  BY DEF FreshElements
<1>2. MaxFreshElements \in Nat /\ DEFAULT_MAX_STATE_BYTES \in Nat
  BY ShadowAssumption DEF MaxFreshElements
<1>3. /\ fresh \in Seq({Element(l) : l \in AriaLine})
      /\ \A i \in DOMAIN fresh : MadeOf(page, fresh[i], TRUE)
      /\ Len(raw) <= limit =>
           \A k \in DOMAIN page : Visible(page[k], TRUE) =>
             \E i \in DOMAIN fresh : fresh[i] = Element(page[k])
  BY <1>2, NormalizedSnapshot
<1>4. fresh \in Seq(Elements)
  BY <1>3 DEF Elements
<1>5. limit \in Nat /\ Len(raw) \in Nat
  <2>1. Min({MaxFreshElements, DEFAULT_MAX_STATE_BYTES}) \in Nat
    BY <1>2, MinOfTwo
  <2>2. Len(raw) \in Nat
    <3>1. parseAriaSnapshot(page) \in Seq(AriaLine)
      BY ParsedLines
    <3> DEFINE V == {l \in AriaLine : Visible(l, TRUE)}
    <3> HIDE DEF V
    <3>2. Kept(parseAriaSnapshot(page), V) \in Seq(AriaLine)
      BY <3>1, KeptMembers
    <3> QED
      BY <3>2 DEF V
  <2> QED
    BY <2>1, <2>2
<1> HIDE DEF norm, raw, limit
<1>6. ASSUME Having(fresh, ref) # {}
      PROVE  \E i \in DOMAIN page :
                /\ page[i].kind = "element" /\ page[i].ref = ref
                /\ ElementOf(fresh, ref) = Element(page[i])
  <2>1. PICK j \in DOMAIN fresh : ElementOf(fresh, ref) = fresh[j] /\ fresh[j].ref = ref
    BY <1>4, <1>6, FoundElement
  <2>2. PICK i \in DOMAIN page : Visible(page[i], TRUE) /\ fresh[j] = Element(page[i])
    BY <1>3 DEF MadeOf
  <2>3. Element(page[i]).ref = page[i].ref
    BY DEF Element
  <2> QED
    BY <2>1, <2>2, <2>3 DEF Visible
<1>7. ASSUME Having(fresh, ref) = {}, Len(raw) <= limit,
             NEW i \in DOMAIN page, page[i].ref = ref, Visible(page[i], TRUE)
      PROVE  FALSE
  <2>1. PICK j \in DOMAIN fresh : fresh[j] = Element(page[i])
    BY <1>3, <1>7
  <2>2. Element(page[i]).ref = page[i].ref
    BY DEF Element
  <2> QED
    BY <1>7, <2>1, <2>2 DEF Having
<1>8. Len(raw) <= limit \/ Len(raw) > limit
  BY <1>5
<1> QED
  BY <1>1, <1>6, <1>7, <1>8 DEF raw, limit

\* Two elements of one fingerprint and ref, both enabled, are the same.
LEMMA SameElement ==
  ASSUME NEW el \in Elements, NEW other \in Elements, el.ref = other.ref,
         el.enabled, other.enabled, Fingerprint(el) = Fingerprint(other)
  PROVE  el = other
<1>1. PICK l \in AriaLine : el = Element(l)
  BY DEF Elements
<1>2. PICK m \in AriaLine : other = Element(m)
  BY DEF Elements
<1>3. /\ el = [ref |-> el.ref, role |-> el.role, name |-> el.name, value |-> el.value,
               enabled |-> el.enabled, operations |-> el.operations]
      /\ el.enabled \in BOOLEAN
  BY <1>1 DEF Element
<1>4. /\ other = [ref |-> other.ref, role |-> other.role, name |-> other.name, value |-> other.value,
               enabled |-> other.enabled, operations |-> other.operations]
      /\ other.enabled \in BOOLEAN
  BY <1>2 DEF Element
<1>5. /\ el.role = other.role /\ el.name = other.name /\ el.value = other.value
      /\ el.operations = other.operations
  BY DEF Fingerprint
<1> QED
  BY <1>3, <1>4, <1>5

\* The fresh check, in one step: what passes stands, what fails fails for what is said.
LEMMA RecheckStep ==
  ASSUME ShadowInv, NEW covered, Recheck(covered)
  PROVE  PassedStands /\ FaultNamed
<1> SUFFICES ASSUME Aimed PROVE PassedStands /\ FaultNamed
  BY DEF PassedStands, FaultNamed
<1> DEFINE d == record.jevDecision
           fresh == FreshElements(page)
           found == ElementOf(fresh, Target)
           shown == ElementOf(built.elements, Target)
           check == recheckShadowTarget(d, page, covered)
<1>1. /\ page \in Page /\ phase = "judged" /\ Recorded(record, built) /\ log \in Seq(Counted)
      /\ d # None /\ d.actionable /\ Target # None /\ Requested(built) /\ Target = d.targetRef
  BY DEF ShadowInv, ShadowTypeOK, Recheck, Aimed, Target
<1>2. /\ Stands(d, built) /\ d.valid /\ d.decidedAt = built.boundAt /\ built.boundAt # None
      /\ Having(built.elements, Target) # {} /\ shown.enabled /\ d.fingerprint = Fingerprint(shown)
  BY <1>1 DEF Recorded, Stands
<1>3. built.elements \in Seq(Elements)
  BY <1>1 DEF Requested, Shows
<1>4. shown \in Elements /\ shown.ref = Target /\ Fingerprint(shown) \in Prints
  BY <1>2, <1>3, FoundElement, ElementTypes
<1>5. d.fingerprint # None
  BY <1>2, <1>4, ShadowAssumption
<1>6. LastFault = check.fault
  <2> DEFINE e == Entry(projectShadowRecord(record), check)
  <2>1. log' = Append(log, e)
    BY DEF Recheck
  <2>2. e.fault = check.fault
    BY DEF Entry
  <2>3. e \in Counted
    BY <1>1, FaultsKnown, EntryTyped
  <2> HIDE DEF e, check
  <2>4. log'[Len(log')] = e
    BY <1>1, <2>1, <2>3
  <2> QED
    BY <2>2, <2>4 DEF LastFault
<1>7. check.fault =
        IF Expired(d.decidedAt) THEN "expired"
        ELSE IF Having(fresh, Target) = {} THEN "hidden"
        ELSE IF Fingerprint(found) # d.fingerprint THEN "replaced"
        ELSE IF ~found.enabled THEN "disabled"
        ELSE IF Target \in covered THEN "covered" ELSE None
  BY <1>1, <1>2, <1>5 DEF recheckShadowTarget
<1>8. None \notin {"expired", "hidden", "replaced", "disabled", "covered", "unbound"}
  BY ShadowAssumption DEF FAULT_VALUES
<1> HIDE DEF d, fresh, check, found, shown
<1>9. Having(fresh, Target) # {} => \E i \in OnPage : found = Element(page[i])
  <2>1. Having(fresh, Target) # {} =>
          \E i \in DOMAIN page : /\ page[i].kind = "element" /\ page[i].ref = Target
                                 /\ found = Element(page[i])
    BY <1>1, FreshElementsOfPage DEF fresh, found
  <2> QED
    BY <2>1 DEF OnPage
<1>10. \A i \in OnPage : /\ Element(page[i]) \in Elements /\ Element(page[i]).ref = Target
                         /\ Element(page[i]).enabled = ~page[i].disabled
                         /\ page[i].disabled \in BOOLEAN
  <2> SUFFICES ASSUME NEW i \in OnPage
               PROVE  /\ Element(page[i]) \in Elements /\ Element(page[i]).ref = Target
                      /\ Element(page[i]).enabled = ~page[i].disabled
                      /\ page[i].disabled \in BOOLEAN
    OBVIOUS
  <2>1. i \in DOMAIN page /\ page[i].ref = Target
    BY DEF OnPage
  <2>2. page[i] \in AriaLine
    BY <1>1, <2>1, ShadowAssumption
  <2>3. Element(page[i]).ref = page[i].ref /\ Element(page[i]).enabled = ~page[i].disabled
    BY DEF Element
  <2> QED
    BY <2>1, <2>2, <2>3 DEF Elements, AriaLine
<1>11. PassedStands
  <2> SUFFICES ASSUME LastFault = None PROVE PassedStands
    BY DEF PassedStands
  <2>1. /\ ~Expired(d.decidedAt) /\ Having(fresh, Target) # {} /\ Fingerprint(found) = d.fingerprint
        /\ found.enabled
    BY <1>6, <1>7, <1>8
  <2>2. PICK i \in OnPage : found = Element(page[i])
    BY <1>9, <2>1
  <2>3. found = shown
    BY <1>2, <1>4, <1>10, <2>1, <2>2, SameElement
  <2>4. Shown = shown
    BY DEF Shown, shown
  <2>5. ASSUME built.told = "capture"
        PROVE  now - snapshot.at <= DEFAULT_TTL_MS
    <3>1. built.boundAt = snapshot.at
      BY <1>1, <2>5 DEF Requested
    <3>2. ~(now - built.boundAt > DEFAULT_TTL_MS) /\ built.boundAt \in Nat /\ now \in Nat
      BY <1>1, <1>2, <2>1, ShadowAssumption DEF Expired, Requested, ShadowInv, ShadowTypeOK
    <3> QED
      BY <3>1, <3>2, ShadowAssumption
  <2> QED
    BY <1>2, <2>2, <2>3, <2>4, <2>5 DEF PassedStands
<1>12. FaultNamed
  <2>1. Shown = shown
    BY DEF Shown, shown
  <2>2. CASE LastFault = "hidden"
    <3>1. Having(fresh, Target) = {}
      BY <1>6, <1>7, <2>2, <1>8
    <3>2. \/ \A i \in DOMAIN page : page[i].kind = "element" /\ page[i].ref = Target => ~Visible(page[i], TRUE)
          \/ Len(Kept(parseAriaSnapshot(page), {l \in AriaLine : Visible(l, TRUE)}))
               > Min({MaxFreshElements, DEFAULT_MAX_STATE_BYTES})
      BY <1>1, <3>1, FreshElementsOfPage DEF fresh
    <3> QED
      BY <2>2, <3>2 DEF FaultNamed, OnPage
  <2>3. CASE LastFault = "replaced"
    <3>1. Having(fresh, Target) # {} /\ Fingerprint(found) # d.fingerprint
      BY <1>6, <1>7, <2>3, <1>8
    <3>2. \E i \in OnPage : Fingerprint(Element(page[i])) # Fingerprint(Shown)
      BY <1>2, <1>9, <2>1, <3>1
    <3> QED
      BY <2>3, <3>2 DEF FaultNamed
  <2>4. CASE LastFault = "disabled"
    <3>1. Having(fresh, Target) # {} /\ ~found.enabled
      BY <1>6, <1>7, <2>4, <1>8
    <3>2. PICK i \in OnPage : found = Element(page[i])
      BY <1>9, <3>1
    <3>3. page[i].disabled
      BY <1>10, <3>1, <3>2
    <3> QED
      BY <2>4, <3>3 DEF FaultNamed
  <2>5. LastFault # "unbound"
    BY <1>6, <1>7, <1>8
  <2> QED
    BY <2>2, <2>3, <2>4, <2>5 DEF FaultNamed
<1> QED
  BY <1>11, <1>12

\* The log grows only by a recheck.
LEMMA OnlyRecheckLogs ==
  ASSUME ShadowNext, log' # log
  PROVE  \E covered : Recheck(covered)
BY DEF ShadowNext, PageChanges, Tick, TakeSnapshot, Ask, QueryFails, QueryAnswers

\* A target that passes the fresh check is on the page as the provider was shown it,
\* and a fault that is named is one the page has.
THEOREM RecheckStaysRight == ShadowSpec => RecheckIsRight
<1>1. ShadowInv /\ [ShadowNext]_shadowVars =>
        [log' # log => PassedStands]_shadowVars /\ [log' # log => FaultNamed]_shadowVars
  <2> SUFFICES ASSUME ShadowInv, ShadowNext, log' # log PROVE PassedStands /\ FaultNamed
    BY DEF shadowVars
  <2> QED
    BY OnlyRecheckLogs, RecheckStep
<1> QED
  BY <1>1, ShadowInvHolds, PTL DEF ShadowSpec, RecheckIsRight, PassedTargetStands, FaultsNamed
=============================================================================
