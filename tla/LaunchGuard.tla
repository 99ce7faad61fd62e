---------------------------- MODULE LaunchGuard ----------------------------
(***************************************************************************)
(* Which profile `webmcp launch` launches (lib/cli/commands/chrome.mjs):   *)
(* what a project pins, what the flags ask for, what is found on the disk  *)
(* at two moments, and whether the proxy the profile is bound to is among  *)
(* the arguments.  A path is known by its last name.                       *)
(***************************************************************************)
EXTENDS Naturals, FiniteSets

CONSTANTS
  Word,       \* ids, names and whatever else is asked for
  Norm,       \* each word in lower case
  Full,       \* the id that the name of a profile's directory stands for
  NewId,      \* ids that new profiles may get
  Sub,        \* directories of a profile within its user data directory
  Disks,      \* the profiles there may be at first
  Newcomers,  \* those another command may create meanwhile
  Hints,      \* what the project may pin
  Asks,       \* flags and environment of the launch
  Webmcp,     \* the name of a profile when none is given
  Default,    \* its directory
  MaxNewcomers, \* bound of the model
  Broken, Nothing

\* Ids are unique and say the directory; sound says that the sub-directory is there.
Profile == [id : Word, name : Word, sub : Sub, kind : {"managed", "existing"},
            proxy : BOOLEAN, sound : BOOLEAN]
Hint == [id : Word \cup {Nothing}, dir : Word \cup {Nothing}, name : Word \cup {Nothing},
         sub : Sub \cup {Nothing}]
LaunchAsk == [profileId : Word \cup {Nothing}, name : Word \cup {Nothing},
        forceCreate : BOOLEAN, allowCreate : BOOLEAN]

ASSUME GuardAssumption ==
  /\ Norm \in [Word -> Word] /\ \A w \in Word : Norm[Norm[w]] = Norm[w]
  /\ Full \in [Word -> Word] /\ \A w \in Word : Full[Full[w]] = Full[w]
  /\ Webmcp \in Word /\ NewId \subseteq Word /\ Default \in Sub /\ MaxNewcomers \in Nat
  /\ Disks \subseteq SUBSET Profile /\ Newcomers \subseteq Profile
  /\ Hints \subseteq Hint \cup {Nothing, Broken} /\ Asks \subseteq LaunchAsk

ASSUME GuardNames == Nothing \notin Word /\ Nothing \notin Sub /\ Nothing \notin Profile
                     /\ Nothing \notin Hint /\ Broken \notin Hint /\ Nothing # Broken

VARIABLES
  disk,      \* the profiles
  hint,      \* what the project pins, Nothing in no project
  ask,
  stage,     \* "asked", "chosen", "gated", "launched" or "refused"
  profile,   \* what was chosen, Nothing while a profile is to be found or made by its name
  args,      \* whether the proxy is among the arguments
  target,    \* what was launched
  newcomers  \* history: the profiles that came since the launch was asked for

guardVars == <<disk, hint, ask, stage, profile, args, target, newcomers>>

GuardTypeOK ==
  /\ disk \subseteq Profile /\ newcomers \subseteq Profile
  /\ hint \in Hint \cup {Nothing, Broken} /\ ask \in LaunchAsk
  /\ stage \in {"asked", "chosen", "gated", "launched", "refused"}
  /\ profile \in Profile \cup {Nothing} /\ args \in BOOLEAN
  /\ target \in Profile \cup {Nothing} /\ (target # Nothing <=> stage = "launched")

GuardFrom(d, h, a) ==
  /\ disk = d /\ hint = h /\ ask = a
  /\ stage = "asked" /\ profile = Nothing /\ args = FALSE /\ target = Nothing /\ newcomers = {}
GuardInit == \E d \in Disks, h \in Hints, a \in Asks : GuardFrom(d, h, a)

----------------------------------------------------------------------------
(* Finding a profile *)

ManagedProfiles == {p \in disk : p.kind = "managed"}
Same(a, b) == Norm[a] = Norm[b]

\* By id or directory, else by name.
findManagedProfilesMatching(q) ==
  LET byId == {p \in ManagedProfiles : Same(p.id, Full[q])}
  IN  IF byId # {} THEN byId ELSE {p \in ManagedProfiles : Same(p.name, q)}

Ambiguous(q) == Cardinality(findManagedProfilesMatching(q)) > 1

\* One of a set, or Nothing of an empty one.
OneOf(S) == IF S = {} THEN {Nothing} ELSE S

\* findManagedProfileByNameOrId, where it does not throw.
ByNameOrId(q) == OneOf(findManagedProfilesMatching(q))

\* findProfileById: the first of the same id, else as above, else an existing one by
\* its name.  It throws where it has to choose among managed ones.
Exactly(q) == {p \in disk : Same(p.id, q)}
Unclear(q) == Exactly(q) = {} /\ Ambiguous(q)
findProfileById(q) ==
  IF Exactly(q) # {} THEN Exactly(q)
  ELSE IF findManagedProfilesMatching(q) # {} THEN findManagedProfilesMatching(q)
  ELSE OneOf({p \in disk : Same(p.name, q)})

----------------------------------------------------------------------------
(* The choice *)

\* The candidates of each pin; the first pin that has any decides.
WithId(h) == {p \in ManagedProfiles : h.id # Nothing /\ Same(p.id, h.id)}
InDir(h) == {p \in ManagedProfiles : p.id = h.dir}
NamedBy(h) == {p \in ManagedProfiles : h.name # Nothing /\ Same(p.name, h.name)}
InSub(h) == {p \in ManagedProfiles : p.sub = h.sub}
Pinned(h) ==
  IF WithId(h) # {} THEN WithId(h)
  ELSE IF InDir(h) # {} THEN InDir(h)
  ELSE IF NamedBy(h) # {} THEN NamedBy(h)
  ELSE InSub(h)

\* A name or a sub-directory may match one profile only.
PinAmbiguous(h) ==
  /\ WithId(h) \cup InDir(h) = {}
  /\ \/ Cardinality(NamedBy(h)) > 1
     \/ NamedBy(h) = {} /\ Cardinality(InSub(h)) > 1

\* Mutant: the sub-directory is not compared.
AgreesButSub(h, p) == h.id \in {Nothing, p.id} /\ h.dir \in {Nothing, p.id}

\* The bound profile must be what each pin but the name says, to the letter.
Agrees(h, p) ==
  /\ h.id \in {Nothing, p.id} /\ h.dir \in {Nothing, p.id} /\ h.sub \in {Nothing, p.sub}
  /\ h.sub \in {Nothing, Default} \/ p.sound

Refused == stage' = "refused" /\ UNCHANGED <<disk, hint, ask, profile, args, target, newcomers>>
Chosen(p) ==
  stage' = "chosen" /\ profile' = p /\ UNCHANGED <<disk, hint, ask, args, target, newcomers>>

IsBound(p, b) == p # Nothing /\ b # Nothing /\ p.id = b.id

\* What a project allows to be asked for: its bound profile b, or to create one.
ByIdBound(b) ==
  /\ ask.profileId # Nothing
  /\ \/ (b = Nothing \/ Unclear(ask.profileId)) /\ Refused
     \/ /\ b # Nothing /\ ~Unclear(ask.profileId)
        /\ \E p \in findProfileById(ask.profileId) :
             LET same == IsBound(p, b) /\ p.kind = "managed"
             IN  (same /\ Chosen(b)) \/ (~same /\ Refused)
ByNameBound(b) ==
  /\ ask.profileId = Nothing /\ ask.name # Nothing
  /\ \/ Ambiguous(ask.name) /\ Refused
     \/ /\ ~Ambiguous(ask.name)
        /\ \E p \in ByNameOrId(ask.name) :
             \/ IsBound(p, b) /\ Chosen(b)
             \/ p = Nothing /\ ask.allowCreate /\ Chosen(Nothing)
             \/ ~IsBound(p, b) /\ ~(p = Nothing /\ ask.allowCreate) /\ Refused
Bound(b) ==
  ByIdBound(b) \/ ByNameBound(b) \/ (ask.profileId = Nothing /\ ask.name = Nothing /\ Chosen(b))

MayCreate == ask.name # Nothing /\ ask.allowCreate

\* runLaunch in a project with a hint.
ChooseBound ==
  /\ stage = "asked" /\ hint \in Hint
  /\ \/ PinAmbiguous(hint) /\ Refused
     \/ /\ ~PinAmbiguous(hint)
        /\ \E b \in OneOf(Pinned(hint)) :
             LET fits == IF b = Nothing THEN MayCreate ELSE Agrees(hint, b)
             IN  (fits /\ Bound(b)) \/ (~fits /\ Refused)

\* Where the project file cannot be read.
BrokenHint == stage = "asked" /\ hint = Broken /\ Refused

\* And in no project.
ChooseFree ==
  /\ stage = "asked" /\ hint = Nothing
  /\ \/ /\ ask.profileId # Nothing
        /\ \/ Unclear(ask.profileId) /\ Refused
           \/ /\ ~Unclear(ask.profileId)
              /\ \E p \in findProfileById(ask.profileId) :
                   (p = Nothing /\ Refused) \/ (p # Nothing /\ Chosen(p))
     \/ /\ ask.profileId = Nothing /\ ask.name # Nothing /\ ~ask.forceCreate
        /\ \/ Ambiguous(ask.name) /\ Refused
           \/ ~Ambiguous(ask.name) /\ \E p \in ByNameOrId(ask.name) : Chosen(p)
     \/ ask.profileId = Nothing /\ (ask.name = Nothing \/ ask.forceCreate) /\ Chosen(Nothing)

\* The proxy of a profile that has been chosen: by the governor, or as it is written
\* where the gate is skipped. Without a governor, or against it, nothing is launched.
ProxyGate ==
  /\ stage = "chosen"
  /\ \/ stage' = "gated" /\ args' = (profile # Nothing /\ profile.proxy)
     \/ profile # Nothing /\ profile.proxy /\ stage' = "refused" /\ UNCHANGED args
  /\ UNCHANGED <<disk, hint, ask, profile, target, newcomers>>

newProfileName == IF ask.name # Nothing THEN ask.name ELSE Webmcp

\* A new directory is empty and bound to no proxy.
createManagedProfile(w) ==
  [id |-> w, name |-> newProfileName, sub |-> Default, kind |-> "managed",
   proxy |-> FALSE, sound |-> FALSE]

Launched(p) ==
  stage' = "launched" /\ target' = p /\ UNCHANGED <<hint, ask, profile, args, newcomers>>

\* launchChrome: after the gateway has been waited for, a profile that was not chosen
\* is looked for once more, and made in a new directory when there is none.
LaunchChosen == stage = "gated" /\ profile # Nothing /\ Launched(profile) /\ UNCHANGED disk
LaunchNamed ==
  /\ stage = "gated" /\ profile = Nothing
  /\ \/ /\ ~ask.forceCreate /\ Ambiguous(newProfileName) /\ Refused
     \/ /\ ~ask.forceCreate /\ ~Ambiguous(newProfileName)
        /\ \E p \in findManagedProfilesMatching(newProfileName) : Launched(p) /\ UNCHANGED disk
     \/ /\ ask.forceCreate \/ findManagedProfilesMatching(newProfileName) = {}
        /\ \E w \in NewId :
             /\ \A p \in disk : p.id # w
             /\ Launched(createManagedProfile(w)) /\ disk' = disk \cup {createManagedProfile(w)}

\* Another command creates a profile.
Appears ==
  /\ stage \notin {"launched", "refused"} /\ Cardinality(newcomers) < MaxNewcomers
  /\ \E p \in Newcomers :
       /\ \A q \in disk : ~Same(p.id, q.id)
       /\ disk' = disk \cup {p} /\ newcomers' = newcomers \cup {p}
  /\ UNCHANGED <<hint, ask, stage, profile, args, target>>

GuardNext == BrokenHint \/ ChooseBound \/ ChooseFree \/ ProxyGate \/ LaunchChosen \/ LaunchNamed \/ Appears

GuardSpec == GuardInit /\ [][GuardNext]_guardVars

----------------------------------------------------------------------------
(* Properties *)

\* What a pin says of a profile; its name only where nothing else is pinned.
Meets(p, h) ==
  /\ p.kind = "managed"
  /\ h.id \in {Nothing, p.id} /\ h.dir \in {Nothing, p.id} /\ h.sub \in {Nothing, p.sub}
  /\ h.id = Nothing /\ h.dir = Nothing /\ h.sub = Nothing => Same(p.name, h.name)

\* In a project that pins a profile nothing else is launched, whatever the flags say,
\* however ids and names of profiles resemble each other, and whatever other commands
\* create: but for a profile that is made, or found under the name that was asked for
\* after the choice, where the environment allows to create one.
LaunchedIsPinned ==
  stage = "launched" /\ hint # Nothing => (profile = Nothing /\ MayCreate) \/ Meets(target, hint)

\* A profile that is bound to a proxy is launched with it: but for the one that is
\* named webmcp when no name is given, and one that came after the choice.
ProxyIsUsed ==
  stage = "launched" /\ target.proxy =>
    args \/ target \in newcomers \/ (hint = Nothing /\ ask.profileId = Nothing /\ ask.name = Nothing)

LaunchGuarded == GuardTypeOK /\ LaunchedIsPinned /\ ProxyIsUsed
=============================================================================
