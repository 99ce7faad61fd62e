----------------------------- MODULE MCCommands -----------------------------
(***************************************************************************)
(* Three parts of the command line that share no state, in one run: a      *)
(* behaviour is one of one of them, and the others rest.                   *)
(***************************************************************************)
EXTENDS ShadowLoop, Launcher, LaunchGuard, TLC

CONSTANTS c1, c2, p1, p2

VARIABLE part

\* The shadow loop.
Line(kind, indent, ref, role, name) ==
  [kind |-> kind, indent |-> indent, ref |-> ref, role |-> role, name |-> name,
   value |-> "", secret |-> FALSE, disabled |-> FALSE]

Form    == Line("document", 0, "", "", "Form")
Save    == Line("element", 1, "r1", "button", "Save")
Secret  == [Line("element", 1, "r2", "textbox", "Password") EXCEPT !.value = "x", !.secret = TRUE]
Field   == [Line("element", 2, "r2", "textbox", "City") EXCEPT !.value = "Hue"]

MCPage ==
  {<<Form, Save, Field>>,
   <<Form, [Save EXCEPT !.disabled = TRUE], Field>>,
   <<Save, [Save EXCEPT !.name = "Send", !.ref = "r2"], Line("note", 0, "", "", "")>>,
   <<[Field EXCEPT !.ref = "x9", !.indent = 1], Form, Secret, [Save EXCEPT !.indent = 2]>>,
   <<Form, Line("broken", 0, "", "", ""), [Secret EXCEPT !.value = ""],
     Line("truncated", 1, "", "", "")>>}

MCBounds == {[maxElements |-> 2, maxStateBytes |-> 2, maxQuestions |-> 3],
             [maxElements |-> 1, maxStateBytes |-> 3, maxQuestions |-> 3],
             [maxElements |-> 3, maxStateBytes |-> 3, maxQuestions |-> 2]}

\* The launcher.
Launch(d) == [op |-> "launch", dir |-> d, of |-> {}, mode |-> IF d = "e" THEN "existing" ELSE "managed", relaunch |-> FALSE]
Closing(S) == [op |-> "close", dir |-> "a", of |-> S, mode |-> "managed", relaunch |-> FALSE]
Quit == [Closing(Dir) EXCEPT !.op = "quit"]
MCJobs == c1 :> {[Launch("a") EXCEPT !.relaunch = TRUE], [Launch("e") EXCEPT !.relaunch = TRUE]}
 @@ c2 :> {Launch("a"), Closing({"a"}), Quit, [Launch("a") EXCEPT !.op = "gateway", !.dir = "gateway"]}
MCStartsWith == "a" :> {"a", "a2"} @@ "a2" :> {"a2"} @@ "e" :> {"e"}
MCLeft == {[file |-> NoSessions, lock |-> Unlocks],
  [file |-> [NoSessions EXCEPT !["a"] = p1], lock |-> [Unlocks EXCEPT !["a"] = p1]],
  [file |-> NoSessions, lock |-> [d \in Dir |-> IF d = "a2" THEN NoProcess ELSE "odd"]]}

\* The guard.
MCNorm == "x" :> "x" @@ "X" :> "x" @@ "y" :> "y" @@ "m:x" :> "m:x" @@ "m:X" :> "m:x" @@ "m:y" :> "m:y" @@ "C:D" :> "C:D" @@ "webmcp" :> "webmcp" @@ "m:w" :> "m:w"
MCFull == [w \in DOMAIN MCNorm |-> CASE w = "x" -> "m:x" [] w = "X" -> "m:X" [] w = "y" -> "m:y" [] OTHER -> w]
P(id, name, sub, proxy) ==
  [id |-> id, name |-> name, sub |-> sub, kind |-> "managed", proxy |-> proxy, sound |-> TRUE]
MCProfiles == {P("m:x", "y", "D", TRUE), P("m:X", "x", "D", FALSE), P("m:y", "x", "P", TRUE), [P("m:y", "webmcp", "P", TRUE) EXCEPT !.sound = FALSE], [P("C:D", "y", "D", TRUE) EXCEPT !.kind = "existing"]}
MCDisks == {S \in SUBSET MCProfiles : Cardinality(S) <= 2 /\ \A p, q \in S : p.id = q.id => p = q}
MCNew == {P("m:y", "x", "D", TRUE), P("m:X", "y", "P", FALSE)}
NoHint == [id |-> Nothing, dir |-> Nothing, name |-> Nothing, sub |-> Nothing]
MCHints == {Nothing, NoHint, Broken, [NoHint EXCEPT !.id = "m:x"], [NoHint EXCEPT !.id = "m:X", !.sub = "D"], [NoHint EXCEPT !.dir = "m:x", !.name = "x"],
  [NoHint EXCEPT !.name = "x"], [NoHint EXCEPT !.name = "y", !.sub = "P"], [NoHint EXCEPT !.sub = "D"]}
MCAsks == [profileId : {Nothing, "m:x", "y", "C:D"}, name : {Nothing, "x", "y"}, forceCreate : BOOLEAN, allowCreate : BOOLEAN]

ShadowRests ==
  /\ page = CHOOSE p \in Page : TRUE
  /\ now = 0 /\ snapshot = None /\ phase = "idle" /\ built = None /\ record = None /\ log = <<>>

Init ==
  /\ part \in {"shadow", "launcher", "guard"}
  /\ IF part = "shadow" THEN ShadowInit ELSE ShadowRests
  /\ IF part = "launcher" THEN LauncherInit
     ELSE LauncherFrom([file |-> NoSessions, lock |-> Unlocks])
  /\ IF part = "guard" THEN GuardInit ELSE GuardFrom({}, Nothing, CHOOSE a \in Asks : TRUE)

Next ==
  /\ UNCHANGED part
  /\ \/ part = "shadow"   /\ ShadowNext   /\ UNCHANGED <<launcherVars, guardVars>>
     \/ part = "launcher" /\ LauncherNext /\ UNCHANGED <<shadowVars, guardVars>>
     \/ part = "guard"    /\ GuardNext    /\ UNCHANGED <<shadowVars, launcherVars>>

Spec == Init /\ [][Next]_<<part, shadowVars, launcherVars, guardVars>>
=============================================================================
