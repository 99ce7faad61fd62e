------------------------------ MODULE Launcher ------------------------------
(***************************************************************************)
(* Launching and closing Chrome (chrome-launcher/).  The commands are      *)
(* processes of their own; they share sessions.json, which has the process *)
(* of each managed session and of the gateway and is read and written      *)
(* without a lock, and the Singleton files in which Chrome itself names    *)
(* the process that runs in a directory.  Process ids are used again.      *)
(***************************************************************************)
EXTENDS Naturals, FiniteSets

CONSTANTS
  Cmd,          \* commands, each run once
  Dir, Managed, \* user data directories, those in managed-profiles
  Pid,
  Jobs,         \* what each command may be asked for
  StartsWith,   \* for each directory those whose path begins with its path
  Left,         \* the file and the locks that an earlier session may have left
  Visitors,     \* what else may start: Chromes of these directories, other programs
  MaxByHand, MaxDeaths,  \* bounds of the model
  Torn,         \* the text of a file written halfway
  NoProcess

\* What has an entry in the file.
Key == Dir \cup {"gateway"}
Sessions == [Key -> Pid \cup {NoProcess}]
NoSessions == [k \in Key |-> NoProcess]
Unlocks == [d \in Dir |-> NoProcess]

\* What is asked: a directory to launch, or the directories that what is to be
\* closed may match.
Job == [op : {"launch", "close", "quit", "gateway"}, dir : Key, of : SUBSET Dir,
        mode : {"managed", "existing"}, relaunch : BOOLEAN]

ASSUME LauncherAssumption ==
  /\ Managed \subseteq Dir
  /\ Left \subseteq [file : Sessions, lock : [Dir -> Pid \cup {NoProcess, "odd"}]]
  /\ Visitors \subseteq Dir \cup {"other"}
  /\ MaxByHand \in Nat /\ MaxDeaths \in Nat
  /\ \A c \in Cmd : Jobs[c] \subseteq {j \in Job : j.op = "gateway" <=> j.dir = "gateway"}
  \* The kind of a profile is where it was found.
  /\ \A c \in Cmd : \A j \in Jobs[c] : j.op = "launch" => (j.mode = "managed" <=> j.dir \in Managed)
  /\ StartsWith \in [Dir -> SUBSET Dir] /\ \A d \in Dir : d \in StartsWith[d]

ASSUME LauncherNames ==
  /\ NoProcess \notin Pid /\ "odd" \notin Pid /\ Torn \notin Sessions
  /\ NoProcess \notin Key /\ "other" \notin Key /\ "gateway" \notin Dir
  /\ NoProcess # "odd" /\ NoProcess # "other"

VARIABLES
  file,      \* sessions.json, or Torn
  proc,      \* what each process is: the Chrome of a directory, another program, or NoProcess
  starting,  \* the Chromes that have not come to their lock yet
  lock,      \* the process the Singleton files name; "odd" when they name none
  cmds,      \* how far each command is
  byHand, deaths,
  told,      \* history: who has been told to terminate
  known,     \* history: the Chromes a launch has recorded
  strays,    \* history: whom a command was to stop, whom else it did, how it was found
  reused,    \* history: an id that was still written somewhere was given out again
  raced,     \* history: the file was written over what the writer had not read, or only half
  doubled    \* history: a launch replaced the record of a Chrome that was running

fileVars == <<file, raced>>
chromeVars == <<proc, starting, lock>>
history == <<told, known, strays, reused, doubled>>
launcherVars == <<file, raced, proc, starting, lock, cmds, byHand, deaths, history>>

Places == {"new", "load", "truncate", "write", "live", "look", "clean", "stop", "wait",
           "cleanAll", "spawn", "remember", "close", "forget", "quit", "done"}

\* sessions is the state the command has, base the file it comes from, todo what it
\* has yet to close, dir where it is; next is what follows the saving or the cleaning.
CmdState ==
  [at : Places, job : Job \cup {NoProcess}, sessions : Sessions, base : Sessions \cup {Torn},
   todo : SUBSET Dir, dir : Key \cup {NoProcess}, pid : Pid \cup {NoProcess}, next : Places]
Fresh == [at |-> "new", job |-> NoProcess, sessions |-> NoSessions, base |-> NoSessions,
          todo |-> {}, dir |-> NoProcess, pid |-> NoProcess, next |-> "done"]

LauncherTypeOK ==
  /\ file \in Sessions \cup {Torn}
  /\ proc \in [Pid -> Key \cup {NoProcess, "other"}] /\ lock \in [Dir -> Pid \cup {NoProcess, "odd"}]
  /\ starting \subseteq {p \in Pid : proc[p] \in Dir}
  /\ cmds \in [Cmd -> CmdState]
  /\ told \subseteq {p \in Pid : proc[p] # NoProcess} /\ known \subseteq {p \in Pid : proc[p] \in Key}
  /\ strays \subseteq [dir : Dir, of : Key \cup {"other"}, by : {"pid", "ps", "quit"}]
  /\ reused \in BOOLEAN /\ raced \in BOOLEAN /\ doubled \in BOOLEAN
  /\ byHand \in 0 .. MaxByHand /\ deaths \in 0 .. MaxDeaths

\* The machine has been started again: files may be left over.
LauncherFrom(l) ==
  /\ file = l.file /\ lock = l.lock
  /\ proc = [p \in Pid |-> NoProcess] /\ starting = {}
  /\ cmds = [c \in Cmd |-> Fresh] /\ byHand = 0 /\ deaths = 0
  /\ told = {} /\ known = {} /\ strays = {}
  /\ reused = FALSE /\ raced = FALSE /\ doubled = FALSE
LauncherInit == \E l \in Left : LauncherFrom(l)

\* Only this user's processes are in Pid: to one of another user no signal can be sent,
\* and the code takes it for dead.
isPidAlive(p) == p \in Pid /\ proc[p] # NoProcess

\* The Chrome that Chrome itself goes by.
Holds(p, d) == lock[d] = p /\ p \in Pid /\ proc[p] = d /\ p \notin starting

----------------------------------------------------------------------------
(* The session file *)

Over == [Fresh EXCEPT !.at = "done"]
Moves(c, s) == cmds' = [cmds EXCEPT ![c] = IF s.at = "done" THEN Over ELSE s]
Goes(c, at) == Moves(c, [cmds[c] EXCEPT !.at = at])

\* A missing or a broken file is read as an empty one.
Loaded == IF file = Torn THEN NoSessions ELSE file

Pruned(s) == [k \in Key |-> IF isPidAlive(s[k]) THEN s[k] ELSE NoProcess]

\* pruneDeadSessions: hasLiveManagedSession and the remembering of a process begin
\* with it; only a change is saved.
pruneDeadSessions(c) ==
  /\ cmds[c].at = "load" /\ cmds[c].next \in {"live", "remember"}
  /\ LET s == Pruned(Loaded)
     IN  Moves(c, [cmds[c] EXCEPT !.sessions = s, !.base = file,
                                  !.at = IF s = Loaded THEN cmds[c].next ELSE "truncate"])
  /\ raced' = (raced \/ file = Torn)
  /\ UNCHANGED <<file, chromeVars, byHand, deaths, history>>

\* saveSessions: opening the file empties it.
Truncate(c) ==
  /\ cmds[c].at = "truncate" /\ file' = Torn
  /\ raced' = (raced \/ file # cmds[c].base)
  /\ Goes(c, "write")
  /\ UNCHANGED <<chromeVars, byHand, deaths, history>>

\* Over what another command has written meanwhile the text may end in the rest of
\* that one's.
Write(c) ==
  /\ cmds[c].at = "write"
  /\ file' = cmds[c].sessions \/ (file # Torn /\ file' = Torn)
  /\ raced' = (raced \/ file # Torn)
  /\ Moves(c, [cmds[c] EXCEPT !.at = cmds[c].next, !.base = cmds[c].sessions])
  /\ known' = IF cmds[c].pid # NoProcess /\ cmds[c].next = "done" /\ proc[cmds[c].pid] = cmds[c].dir
              THEN known \cup {cmds[c].pid} ELSE known
  /\ UNCHANGED <<chromeVars, byHand, deaths, told, strays, reused, doubled>>

\* Mutant: what the others have recorded is not kept.
rememberOnlyOwn(c) ==
  LET s == cmds[c]
  IN  /\ s.at = "remember"
      /\ Moves(c, [s EXCEPT !.sessions = [NoSessions EXCEPT ![s.dir] = s.pid],
                            !.at = "truncate", !.next = "done"])
      /\ doubled' = (doubled \/ s.sessions[s.dir] \notin {NoProcess, s.pid})
      /\ UNCHANGED <<fileVars, chromeVars, byHand, deaths, told, known, strays, reused>>

\* rememberManagedSession, rememberGatewaySession
rememberSession(c) ==
  LET s == cmds[c]
  IN  /\ s.at = "remember"
      /\ Moves(c, [s EXCEPT !.sessions[s.dir] = s.pid, !.at = "truncate", !.next = "done"])
      /\ doubled' = (doubled \/ s.sessions[s.dir] \notin {NoProcess, s.pid})
      /\ UNCHANGED <<fileVars, chromeVars, byHand, deaths, told, known, strays, reused>>

----------------------------------------------------------------------------
(* Launching *)

Asked(c, op, s) ==
  /\ cmds[c].at = "new"
  /\ \E j \in Jobs[c] : j.op \in op /\ Moves(c, [s EXCEPT !.job = j,
         !.dir = IF s.next = "close" THEN NoProcess ELSE j.dir])
  /\ UNCHANGED <<fileVars, chromeVars, byHand, deaths, history>>

launchChrome(c) == Asked(c, {"launch"}, [Fresh EXCEPT !.at = "load", !.next = "live"])

\* What a launch does first when it needs the gateway and finds it not running.
ensureGatewayRunning(c) == Asked(c, {"gateway"}, [Fresh EXCEPT !.at = "spawn", !.next = "remember"])

\* closeChrome, which asks the gateway first: a Chrome may end at any time.
closeChrome(c) == Asked(c, {"close", "quit"}, [Fresh EXCEPT !.at = "load", !.next = "close"])

\* hasLiveManagedSession: into a running Chrome of its own a launch only opens a
\* window, which is recorded nowhere.
isLive(c) ==
  /\ cmds[c].at = "live"
  /\ \/ isPidAlive(cmds[c].sessions[cmds[c].dir])
        /\ Moves(c, [cmds[c] EXCEPT !.at = "spawn", !.next = "done"])
     \/ ~isPidAlive(cmds[c].sessions[cmds[c].dir]) /\ Goes(c, "look")
  /\ UNCHANGED <<fileVars, chromeVars, byHand, deaths, history>>

Locked(d) == lock[d] = "odd" \/ isPidAlive(lock[d])

\* What a command does about a directory that is unlocked, by now or from the start.
Unlocked(c) ==
  IF cmds[c].job.op = "launch"
  THEN Moves(c, [cmds[c] EXCEPT !.at = "spawn", !.next = "remember"])
  ELSE Goes(c, "forget")

\* isProfileLocked: the files of a dead process are removed, in a step of its own.
isProfileLocked(c) ==
  LET d == cmds[c].dir
  IN  /\ cmds[c].at \in {"look", "wait"}
      /\ \/ lock[d] = NoProcess /\ Unlocked(c)
         \/ lock[d] # NoProcess /\ ~Locked(d) /\ Goes(c, "clean")
         \/ Locked(d) /\ cmds[c].at = "look"
              /\ Goes(c, IF cmds[c].job.relaunch THEN "stop" ELSE "done")
      /\ UNCHANGED <<fileVars, chromeVars, byHand, deaths, history>>

cleanStaleLocks(c) ==
  /\ cmds[c].at = "clean" /\ lock' = [lock EXCEPT ![cmds[c].dir] = NoProcess]
  /\ Unlocked(c)
  /\ UNCHANGED <<fileVars, proc, starting, byHand, deaths, history>>

\* A signal to a process that is taken for the Chrome of d, by an id that was written
\* down or looked up.
Hits(p, d, by) ==
  strays' = strays \cup ({[dir |-> d, of |-> proc[p], by |-> by]} \ {[dir |-> d, of |-> d, by |-> by]})
Signals(p, d, by) == told' = told \cup {p} /\ Hits(p, d, by) /\ UNCHANGED <<known, reused, doubled>>

\* findChromePidForUserDataDir: the path may be the beginning of another one.
findChromePid(d) == {p \in Pid : proc[p] \in StartsWith[d]}

\* quitChrome: every Chrome of the machine is told to terminate.
TellAll == told' = told \cup {p \in Pid : proc[p] \in Dir}
Others(d) == {[dir |-> d, of |-> proc[p], by |-> "quit"] : p \in {q \in Pid : proc[q] \in Dir \ {d}}}

\* The lock of a managed profile names no process that lives: one is looked up if it
\* names none, and the global quitChrome is refused.
RelaunchManaged(c) ==
  LET d == cmds[c].dir
  IN  \/ /\ lock[d] \notin Pid
         /\ \E p \in findChromePid(d) : Signals(p, d, "ps")
         /\ Goes(c, "wait")
      \/ /\ lock[d] \in Pid \/ findChromePid(d) = {}
         /\ Goes(c, "done") /\ UNCHANGED history

\* That of an existing profile: all Chromes are stopped, the managed ones too.
RelaunchExisting(c) ==
  /\ TellAll /\ strays' = strays \cup Others(cmds[c].dir)
  /\ Moves(c, [cmds[c] EXCEPT !.at = "cleanAll", !.next = "wait"])
  /\ UNCHANGED <<known, reused, doubled>>

\* --relaunch stops the Chrome whose process the lock names.
Relaunch(c) ==
  LET d == cmds[c].dir
  IN  /\ cmds[c].at = "stop" /\ cmds[c].job.op = "launch"
      /\ \/ isPidAlive(lock[d]) /\ Signals(lock[d], d, "pid") /\ Goes(c, "wait")
         \/ ~isPidAlive(lock[d]) /\ cmds[c].job.mode = "managed" /\ RelaunchManaged(c)
         \/ ~isPidAlive(lock[d]) /\ cmds[c].job.mode = "existing" /\ RelaunchExisting(c)
      /\ UNCHANGED <<fileVars, chromeVars, byHand, deaths>>

\* A second after quitChrome's signal the locks of all managed profiles go.
cleanAll(c) ==
  /\ cmds[c].at = "cleanAll" /\ Goes(c, cmds[c].next)
  /\ lock' = [d \in Dir |-> IF d \in Managed THEN NoProcess ELSE lock[d]]
  /\ UNCHANGED <<fileVars, proc, starting, byHand, deaths, history>>

\* waitForUnlock has waited long enough; closing then kills.
giveUp(c) ==
  LET d == cmds[c].dir  p == cmds[c].sessions[d]
  IN  /\ cmds[c].at = "wait" /\ Locked(d)
      /\ \/ cmds[c].job.op = "launch" /\ Goes(c, "done") /\ UNCHANGED <<chromeVars, history>>
         \/ /\ cmds[c].job.op # "launch" /\ Goes(c, "forget")
            /\ \/ ~isPidAlive(p) /\ UNCHANGED <<chromeVars, history>>
               \/ /\ isPidAlive(p) /\ proc' = [proc EXCEPT ![p] = NoProcess]
                  /\ starting' = starting \ {p} /\ told' = told \ {p} /\ known' = known \ {p}
                  /\ Hits(p, d, "pid")
                  /\ UNCHANGED <<lock, reused, doubled>>
      /\ UNCHANGED <<fileVars, byHand, deaths>>

\* An id may be written in a file, or in what a command has read.
Mentioned(p) ==
  \/ \E d \in Dir : lock[d] = p
  \/ \E k \in Key : Loaded[k] = p
  \/ \E c \in Cmd : \/ cmds[c].pid = p
                    \/ \E k \in Key : \/ cmds[c].sessions[k] = p
                                      \/ cmds[c].base # Torn /\ cmds[c].base[k] = p

Starts(p, what) ==
  /\ proc[p] = NoProcess /\ proc' = [proc EXCEPT ![p] = what]
  /\ starting' = IF what \in Dir THEN starting \cup {p} ELSE starting
  /\ reused' = (reused \/ Mentioned(p))
  /\ UNCHANGED lock

spawnProcess(c) ==
  /\ cmds[c].at = "spawn"
  /\ \E p \in Pid :
       /\ Starts(p, cmds[c].dir)
       /\ Moves(c, IF cmds[c].next = "done" THEN [cmds[c] EXCEPT !.at = "done"]
                   ELSE [cmds[c] EXCEPT !.at = "load", !.pid = p])
  /\ UNCHANGED <<fileVars, byHand, deaths, told, known, strays, doubled>>

----------------------------------------------------------------------------
(* Closing *)

\* The sessions that match.
loadSessions(c) ==
  /\ cmds[c].at = "load" /\ cmds[c].next = "close"
  /\ Moves(c, [cmds[c] EXCEPT !.at = "close", !.sessions = Loaded, !.base = file,
                              !.todo = {d \in cmds[c].job.of : Loaded[d] # NoProcess}])
  /\ raced' = (raced \/ file = Torn)
  /\ UNCHANGED <<file, chromeVars, byHand, deaths, history>>

\* The next one is told to terminate; a dead one is only forgotten.
closeNext(c) ==
  /\ cmds[c].at = "close"
  /\ \E d \in cmds[c].todo :
       LET p == cmds[c].sessions[d]
       IN  \/ /\ isPidAlive(p) /\ Signals(p, d, "pid")
              /\ Moves(c, [cmds[c] EXCEPT !.at = "wait", !.dir = d])
           \/ /\ ~isPidAlive(p) /\ UNCHANGED history
              /\ Moves(c, [cmds[c] EXCEPT !.at = "forget", !.dir = d])
  /\ UNCHANGED <<fileVars, chromeVars, byHand, deaths>>

\* Its locks go too, whoever has them by now.
Forget(c) ==
  LET d == cmds[c].dir
  IN  /\ cmds[c].at = "forget"
      /\ Moves(c, [cmds[c] EXCEPT !.at = "close", !.sessions[d] = NoProcess, !.todo = @ \ {d}])
      /\ lock' = [lock EXCEPT ![d] = NoProcess]
      /\ UNCHANGED <<fileVars, proc, starting, byHand, deaths, history>>

\* What was read before the waiting is written, if anything was closed.
closed(c) ==
  /\ cmds[c].at = "close" /\ cmds[c].todo = {}
  /\ LET end == IF cmds[c].job.op = "quit" THEN "quit" ELSE "done"
     IN  \/ cmds[c].dir # NoProcess /\ Moves(c, [cmds[c] EXCEPT !.at = "truncate", !.next = end])
         \/ cmds[c].dir = NoProcess /\ Goes(c, end)
  /\ UNCHANGED <<fileVars, chromeVars, byHand, deaths, history>>

\* chrome quit: all Chromes are what the command was asked to stop.
quitChrome(c) ==
  /\ cmds[c].at = "quit" /\ TellAll
  /\ Moves(c, [cmds[c] EXCEPT !.at = "cleanAll", !.next = "done"])
  /\ UNCHANGED <<fileVars, chromeVars, byHand, deaths, known, strays, reused, doubled>>

----------------------------------------------------------------------------
(* Chrome, other programs, and commands that are interrupted *)

Gone(p) ==
  /\ proc' = [proc EXCEPT ![p] = NoProcess] /\ starting' = starting \ {p}
  /\ told' = told \ {p} /\ known' = known \ {p}
  /\ UNCHANGED <<strays, reused, doubled>>

\* A Chrome that finds another in its directory hands over to it and ends.
ChromeStarts(p) ==
  /\ p \in starting
  /\ \/ /\ \E q \in Pid : Holds(q, proc[p])
        /\ Gone(p) /\ UNCHANGED lock
     \/ /\ \A q \in Pid : ~Holds(q, proc[p])
        /\ lock' = [lock EXCEPT ![proc[p]] = p] /\ starting' = starting \ {p}
        /\ UNCHANGED <<proc, history>>
  /\ UNCHANGED <<fileVars, cmds, byHand, deaths>>

\* A process ends, asked to or not; a Chrome that crashes leaves its lock.
Exits(p) ==
  /\ proc[p] # NoProcess /\ Gone(p)
  /\ \/ UNCHANGED lock
     \/ proc[p] \in Dir /\ Holds(p, proc[p]) /\ lock' = [lock EXCEPT ![proc[p]] = NoProcess]
  /\ UNCHANGED <<fileVars, cmds, byHand, deaths>>

ByHand(p) ==
  /\ byHand < MaxByHand /\ byHand' = byHand + 1
  /\ \E what \in Visitors : Starts(p, what)
  /\ UNCHANGED <<fileVars, cmds, deaths, told, known, strays, doubled>>

\* A command is interrupted, perhaps with the file empty.
Dies(c) ==
  /\ deaths < MaxDeaths /\ deaths' = deaths + 1
  /\ cmds[c].at \notin {"new", "done"} /\ Goes(c, "done")
  /\ raced' = (raced \/ cmds[c].at = "write")
  /\ UNCHANGED <<file, chromeVars, byHand, history>>

Steps(c) ==
  \/ launchChrome(c) \/ ensureGatewayRunning(c) \/ closeChrome(c)
  \/ pruneDeadSessions(c) \/ Truncate(c) \/ Write(c) \/ rememberSession(c)
  \/ isLive(c) \/ isProfileLocked(c) \/ cleanStaleLocks(c) \/ Relaunch(c) \/ cleanAll(c)
  \/ giveUp(c) \/ spawnProcess(c)
  \/ loadSessions(c) \/ closeNext(c) \/ Forget(c) \/ closed(c) \/ quitChrome(c)

LauncherNext ==
  \/ \E c \in Cmd : Steps(c) \/ Dies(c)
  \/ \E p \in Pid : ChromeStarts(p) \/ Exits(p) \/ ByHand(p)

LauncherSpec == LauncherInit /\ [][LauncherNext]_launcherVars

----------------------------------------------------------------------------
(* Properties *)

\* A command that was not asked to quit them all stops nothing but the Chrome of the
\* directory it is about, however long it waited and whoever started and ended
\* meanwhile.  There are three exceptions.  The id of a process was given out again
\* while it was still written somewhere.  It was looked up by a path that is the
\* beginning of another.  Or an existing profile was relaunched, never a managed one:
\* if its lock names no process that lives, every Chrome is stopped.
StopsItsOwn ==
  \A x \in strays : \/ reused
                    \/ x.by = "ps" /\ x.of \in StartsWith[x.dir]
                    \/ x.by = "quit" /\ x.of \in Dir /\ x.dir \notin Managed

\* A process that a launch has recorded and that was not told to terminate is in the
\* file, or will be once the save that is under way is done: whatever commands prune,
\* close and forget, until one of them writes over what it has not read, or two launch
\* one directory at the same time.
KnownIsListed ==
  \A p \in known \ told :
    \/ file # Torn /\ file[proc[p]] = p
    \/ \E c \in Cmd : cmds[c].at = "write" /\ cmds[c].sessions[proc[p]] = p
    \/ raced \/ doubled \/ reused

\* Commands stop what they mean to stop and keep each other's entries.
SessionsKept == LauncherTypeOK /\ StopsItsOwn /\ KnownIsListed
=============================================================================
