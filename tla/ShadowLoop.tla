----------------------------- MODULE ShadowLoop -----------------------------
(***************************************************************************)
(* The shadow fast loop (lib/jev-shadow/loop.mjs, metrics.mjs) as the      *)
(* rehearsal drives it: a snapshot of the page is cut down to a request, a *)
(* provider answers while the page goes on changing, the answer is         *)
(* validated, compared with the agent's own choice, checked against a      *)
(* fresh snapshot, and recorded.  Nothing is ever executed.                *)
(*                                                                         *)
(* A line of a snapshot is a record; lexing it is left out.  An element    *)
(* and the rest of the state are weighed in units, not in bytes.           *)
(***************************************************************************)
EXTENDS Arrays, FiniteSets, FiniteSetsExt, TLC

CONSTANTS
  Page,           \* what the page may show: sequences of lines, a ref once
  Ref,            \* refs within the grammar
  Bounds,         \* maxElements, maxStateBytes and maxQuestions of a request
  DEFAULT_MAX_STATE_BYTES, DEFAULT_TTL_MS,
  MaxContext,     \* how many ancestors an element keeps, 3 in the code
  None,           \* null
  MaxTime, MaxSteps  \* bounds of the model

Redacted == "[REDACTED]"
CONTROL_OPERATIONS == {"WAIT", "DONE", "BLOCKED"}
ACTION_OPERATIONS  == {"CLICK", "TYPE_TEXT", "HOVER", "SELECT"}
FAILURE_CODES  == {"JEV_TIMEOUT", "UNKNOWN"}
STATUS_VALUES  == {"ok", "invalid", "fallback-required"}
RESULT_REASONS == {"RESULT_INVALID", "ANSWER_INVALID", "TARGET_MISSING", "TARGET_INCOMPATIBLE",
                   "TARGET_UNAVAILABLE", "DIGEST_MISMATCH", "TTL_EXPIRED", "NO_TARGET", "UNKNOWN"}
FAULT_VALUES   == {"unbound", "expired", "hidden", "replaced", "disabled", "covered"}

\* What a line, a snapshot, a fingerprint, a decision and a record are made of.
AriaLine ==
  [kind : STRING, indent : Nat, ref : STRING, role : STRING, name : STRING,
   value : STRING, secret : BOOLEAN, disabled : BOOLEAN]

Snapshot == [text : Page, at : 0 .. MaxTime]

Prints == STRING \X STRING \X ({""} \cup STRING) \X SUBSET ACTION_OPERATIONS

Decision ==
  [operation : CONTROL_OPERATIONS \cup ACTION_OPERATIONS \cup {None, Redacted},
   targetRef : Ref \cup {None, Redacted},
   fingerprint : Prints \cup {None},
   decidedAt : (0 .. MaxTime) \cup {None}, valid : BOOLEAN, invalid : BOOLEAN,
   stale : BOOLEAN, actionable : BOOLEAN, reasons : SUBSET RESULT_REASONS]

AgentDecision ==
  [operation : CONTROL_OPERATIONS \cup ACTION_OPERATIONS \cup {Redacted},
   targetRef : Ref \cup {None, Redacted}]

Record ==
  [status : STATUS_VALUES,
   reason : Seq({"INVALID_RESULT", "BUILD_FAILED", "QUERY_FAILED"} \cup FAILURE_CODES) \cup {None},
   jevDecision : Decision \cup {None},
   normalAgentDecision : AgentDecision \cup {None}, agreement : BOOLEAN \cup {None},
   snapshotCapturedAt : (0 .. MaxTime) \cup {None}]

ASSUME ShadowAssumption ==
  /\ Page \subseteq Seq(AriaLine)
  /\ {"none", Redacted} \cap Ref = {} /\ None \notin Ref \cup {Redacted}
  /\ None \notin BOOLEAN /\ None \notin Snapshot /\ None \notin Prints
  /\ None \notin FAULT_VALUES /\ None \notin Decision
  /\ None \notin AgentDecision /\ None \notin Record
  /\ \A b \in Bounds : b.maxElements \in Nat /\ b.maxStateBytes \in Nat
  /\ {DEFAULT_MAX_STATE_BYTES, DEFAULT_TTL_MS, MaxContext, MaxTime, MaxSteps} \subseteq Nat

VARIABLES
  page,      \* what the page shows now
  now,
  snapshot,  \* the snapshot the caller holds, and when it was taken
  phase,     \* "idle", "taken", "asked" or "judged"
  built,     \* the request in flight and what it was built from
  record,    \* the record being made
  log        \* the records of the run

shadowVars == <<page, now, snapshot, phase, built, record, log>>

-----------------------------------------------------------------------------
(* From a snapshot to a request. *)

parseAriaSnapshot(text) == Kept(text, {l \in AriaLine : l.kind # "broken"})

ROLE_OPERATIONS(role) ==
  CASE role = "button"  -> {"CLICK"}
    [] role = "textbox" -> {"TYPE_TEXT"}
    [] OTHER            -> {}

LastOf(s, n) == IF Len(s) > n THEN SubSeq(s, Len(s) - n + 1, Len(s)) ELSE s

Named(l) == l.kind \in {"element", "document"} /\ l.name # ""

\* The stack of named ancestors, popped down to the line's own depth.
PopTo(stack, entries, indent) ==
  SubSeq(stack, 1, Max({0} \cup {k \in DOMAIN stack : entries[stack[k]].indent < indent}))

\* The stack after the first n entries: their positions.
AncestorStack(entries) ==
  LET stack[n \in 0 .. Len(entries)] ==
        IF n = 0 THEN <<>>
        ELSE LET above == PopTo(stack[n - 1], entries, entries[n].indent)
             IN  IF Named(entries[n]) THEN Append(above, n) ELSE above
  IN  stack

\* The parentContext of every entry, in one pass.
ParentContexts(entries) ==
  [n \in DOMAIN entries |->
     LET above == PopTo(AncestorStack(entries)[n - 1], entries, entries[n].indent)
     IN  LastOf([k \in DOMAIN above |-> entries[above[k]].name], MaxContext)]

Visible(l, includeDisabled) ==
  /\ l.kind = "element" /\ l.ref \in Ref /\ ROLE_OPERATIONS(l.role) # {}
  /\ includeDisabled \/ ~l.disabled

\* What of an element is sent, and what its fingerprint is taken of.
Element(l) ==
  [ref |-> l.ref, role |-> l.role, name |-> l.name,
   value |-> IF l.secret THEN "" ELSE l.value,
   enabled |-> ~l.disabled, operations |-> ROLE_OPERATIONS(l.role)]

Fingerprint(el) == <<el.role, el.name, el.value, el.operations>>

Prefix(s, n) == SubSeq(s, 1, Min({n, Len(s)}))

normalizeAriaSnapshot(text, maxElements, maxBytes, includeDisabled) ==
  LET entries  == parseAriaSnapshot(text)
      raw      == Kept(entries, {l \in AriaLine : Visible(l, includeDisabled)})
      elements == Prefix([i \in DOMAIN raw |-> Element(raw[i])], Min({maxElements, maxBytes}))
  IN [elements  |-> elements,
      uncertain |-> \/ \E i \in DOMAIN entries : entries[i].kind = "truncated"
                    \/ Len(elements) < Len(raw)]

\* Mutant: what this trimming cuts off leaves no trace.
TrimSilently(norm, rest, maxBytes) ==
  [elements  |-> Prefix(norm.elements, IF rest > maxBytes THEN 0 ELSE maxBytes - rest),
   uncertain |-> norm.uncertain]

\* The state is trimmed again once the goal and the recent actions are in it.
TrimState(norm, rest, maxBytes) ==
  LET room == IF rest > maxBytes THEN 0 ELSE maxBytes - rest
  IN [elements  |-> Prefix(norm.elements, room),
      uncertain |-> norm.uncertain \/ Len(norm.elements) > room]

\* The criteria of the operation question and of one target question an operation.
Questions(elements, uncertain) ==
  LET els     == {elements[i] : i \in DOMAIN elements}
      offered == UNION {el.operations : el \in els}
  IN [q \in {"operation"} \cup offered |->
        IF q = "operation" THEN offered \cup CONTROL_OPERATIONS
        ELSE {el.ref : el \in {e \in els : q \in e.operations}}
             \cup (IF uncertain THEN {"none"} ELSE {})]

\* input.rest weighs the goal and the recent actions; input.fits says that ids,
\* origin and goal pass.
buildBrowserStepRequest(text, input) ==
  LET norm == normalizeAriaSnapshot(text, input.bounds.maxElements,
                                    input.bounds.maxStateBytes, FALSE)
      cut  == TrimState(norm, input.rest, input.bounds.maxStateBytes)
      qs   == Questions(cut.elements, cut.uncertain)
  IN [ok |-> /\ input.fits /\ input.rest <= input.bounds.maxStateBytes
             /\ Cardinality(DOMAIN qs) <= input.bounds.maxQuestions,
      elements |-> cut.elements, questions |-> qs]

-----------------------------------------------------------------------------
(* From an answer to a decision. *)

\* The probabilities are a distribution over the criteria with its maximum at
\* the choice: ans.sound.
isValidChoiceAnswer(ans, criteria) == ans.choice \in criteria /\ ans.sound

Having(elements, ref)    == {i \in DOMAIN elements : elements[i].ref = ref}
ElementOf(elements, ref) == elements[Min(Having(elements, ref))]

\* Of an action: its target, and what is wrong with it.
ChosenTarget(operation, answers, elements) ==
  IF operation \notin DOMAIN answers
  THEN [ref |-> None, print |-> None, actionable |-> FALSE, invalid |-> TRUE,
        reasons |-> {"ANSWER_INVALID"}]
  ELSE LET ref   == answers[operation].choice
           found == ElementOf(elements, ref)
           Bad(r, why) == [ref |-> r, print |-> None, actionable |-> FALSE, invalid |-> TRUE,
                           reasons |-> {why}]
       IN IF ref = "none" THEN [Bad(None, "NO_TARGET") EXCEPT !.invalid = FALSE]
          ELSE IF ref \notin Ref THEN Bad(Redacted, "TARGET_MISSING")
          ELSE IF Having(elements, ref) = {} THEN Bad(ref, "TARGET_MISSING")
          ELSE IF operation \notin found.operations THEN Bad(ref, "TARGET_INCOMPATIBLE")
          ELSE IF ~found.enabled THEN Bad(ref, "TARGET_UNAVAILABLE")
          ELSE [ref |-> ref, print |-> Fingerprint(found), actionable |-> TRUE,
                invalid |-> FALSE, reasons |-> {}]

Expired(at) == at = None \/ now - at > DEFAULT_TTL_MS

Undecided(reasons, stale) ==
  [operation |-> None, targetRef |-> None, fingerprint |-> None, decidedAt |-> None,
   valid |-> FALSE, invalid |-> TRUE, stale |-> stale, actionable |-> FALSE, reasons |-> reasons]

\* result.sound: its schema, status, advisoryOnly and requestId are right.
validateShadowDecision(result, request, boundAt) ==
  LET stale    == Expired(boundAt)
      expired  == IF stale THEN {"TTL_EXPIRED"} ELSE {}
      unsound  == IF result.sound THEN {} ELSE {"RESULT_INVALID"}
      answers  == result.answers
      wrong    == \E q \in DOMAIN answers :
                    \/ q \notin DOMAIN request.questions
                    \/ ~isValidChoiceAnswer(answers[q], request.questions[q])
      operation == answers["operation"].choice
      control  == [ref |-> None, print |-> None, actionable |-> TRUE, invalid |-> FALSE,
                   reasons |-> {}]
      neither  == [control EXCEPT !.actionable = FALSE]
      chosen   == CASE operation \in CONTROL_OPERATIONS -> control
                    [] operation \in ACTION_OPERATIONS ->
                         ChosenTarget(operation, answers, request.elements)
                    [] OTHER -> neither
      reasons  == expired \cup unsound \cup chosen.reasons
                    \cup (IF wrong THEN {"ANSWER_INVALID"} ELSE {})
      ok       == reasons \subseteq {"NO_TARGET"}
  IN IF "operation" \notin DOMAIN answers
     THEN Undecided(expired \cup unsound \cup {"ANSWER_INVALID"}, stale)
     ELSE [operation   |-> IF operation \in CONTROL_OPERATIONS \cup ACTION_OPERATIONS
                           THEN operation ELSE Redacted,
           targetRef   |-> chosen.ref, fingerprint |-> chosen.print, decidedAt |-> boundAt,
           valid       |-> ok, invalid |-> wrong \/ ~result.sound \/ chosen.invalid,
           stale       |-> stale, actionable |-> ok /\ chosen.actionable, reasons |-> reasons]

\* Disabled controls included.
MaxFreshElements == 10000
FreshElements(text) ==
  normalizeAriaSnapshot(text, MaxFreshElements, DEFAULT_MAX_STATE_BYTES, TRUE).elements

\* The target looked for in a fresh snapshot.
recheckShadowTarget(decision, text, covered) ==
  LET fresh == FreshElements(text)
      found == ElementOf(fresh, decision.targetRef)
      Stale(fault) == [ok |-> FALSE, stale |-> TRUE, fault |-> fault]
      Sound        == [ok |-> TRUE, stale |-> FALSE, fault |-> None]
  IN IF decision = None THEN Sound
     ELSE IF decision.targetRef = None THEN Sound
     ELSE IF decision.decidedAt = None \/ decision.fingerprint = None THEN Stale("unbound")
     ELSE IF Expired(decision.decidedAt) THEN Stale("expired")
     ELSE IF Having(fresh, decision.targetRef) = {} THEN Stale("hidden")
     ELSE IF Fingerprint(found) # decision.fingerprint THEN Stale("replaced")
     ELSE IF ~found.enabled THEN Stale("disabled")
     ELSE IF decision.targetRef \in covered THEN Stale("covered")
     ELSE Sound

-----------------------------------------------------------------------------
(* The step. *)

\* What the agent itself chose, cut down to the closed sets.
projectNormalAgentDecision(choice, refs) ==
  IF choice = None THEN None
  ELSE [operation |-> IF choice.operation \in CONTROL_OPERATIONS \cup ACTION_OPERATIONS
                      THEN choice.operation ELSE Redacted,
        targetRef |-> IF choice.targetRef = None \/ choice.targetRef \in refs
                      THEN choice.targetRef ELSE Redacted]

sanitizeReasonCode(code) == IF code \in FAILURE_CODES THEN code ELSE "UNKNOWN"

\* A record without a decision.
Fallback(why, code, choice, refs, b) ==
  [status |-> "fallback-required", reason |-> <<why, sanitizeReasonCode(code)>>,
   jevDecision |-> None, normalAgentDecision |-> projectNormalAgentDecision(choice, refs),
   agreement |-> None, snapshotCapturedAt |-> b]

Agree(decision, normal) ==
  decision.operation = normal.operation /\ decision.targetRef = normal.targetRef

Refs(elements) == {elements[i].ref : i \in DOMAIN elements}

StatusOf(decision) == IF decision.invalid THEN "invalid" ELSE "ok"

Judged(result, b) ==
  LET decision == validateShadowDecision(result, b, b.boundAt)
      normal   == projectNormalAgentDecision(b.choice, Refs(b.elements))
  IN [status |-> StatusOf(decision),
      reason |-> IF decision.invalid THEN <<"INVALID_RESULT">> ELSE None,
      jevDecision |-> decision, normalAgentDecision |-> normal,
      agreement |-> IF ~decision.invalid /\ decision.actionable /\ normal # None
                    THEN Agree(decision, normal) ELSE None,
      snapshotCapturedAt |-> b.boundAt]

ShadowInit ==
  /\ page \in Page /\ now = 0 /\ snapshot = None /\ phase = "idle"
  /\ built = None /\ record = None /\ log = <<>>

\* The environment: the page changes, time passes.
PageChanges ==
  /\ page' \in Page \ {page} /\ UNCHANGED <<now, snapshot, phase, built, record, log>>

Tick ==
  /\ now < MaxTime /\ now' = now + 1
  /\ UNCHANGED <<page, snapshot, phase, built, record, log>>

TakeSnapshot ==
  /\ phase = "idle" /\ Len(log) < MaxSteps
  /\ phase' = "taken" /\ snapshot' = [text |-> page, at |-> now]
  /\ UNCHANGED <<page, now, built, record, log>>

\* Mutant: the time of the call, whatever the caller tells.
BoundAtCall(told) == IF told = "garbled" THEN None ELSE now

\* The time the decision is bound to: that of the capture when the caller tells
\* it (None when what it tells is no time), else that of the call.
BoundAt(told) ==
  CASE told = "capture" -> snapshot.at [] told = "garbled" -> None [] told = "not" -> now

\* runShadowBrowserStep up to its await.
Ask(input, told, choice) ==
  /\ phase = "taken"
  /\ LET request == buildBrowserStepRequest(snapshot.text, input)
         b == [text |-> snapshot.text, elements |-> request.elements,
               questions |-> request.questions,
               boundAt |-> BoundAt(told), told |-> told, choice |-> choice]
     IN IF request.ok
        THEN phase' = "asked" /\ built' = b /\ UNCHANGED record
        ELSE /\ phase' = "judged" /\ UNCHANGED built
             /\ record' = Fallback("BUILD_FAILED", "REQUEST_INVALID", choice, {}, BoundAt(told))
  /\ UNCHANGED <<page, now, snapshot, log>>

QueryFails(code) ==
  /\ phase = "asked" /\ phase' = "judged"
  /\ record' = Fallback("QUERY_FAILED", code, built.choice, Refs(built.elements), built.boundAt)
  /\ UNCHANGED <<page, now, snapshot, built, log>>

QueryAnswers(result) ==
  /\ phase = "asked" /\ phase' = "judged"
  /\ record' = Judged(result, built)
  /\ UNCHANGED <<page, now, snapshot, built, log>>

-----------------------------------------------------------------------------
(* The evidence. *)

ClosedReason(reason) ==
  IF reason = None THEN None
  ELSE IF reason = <<"INVALID_RESULT">> THEN reason
  ELSE IF reason[1] \in {"BUILD_FAILED", "QUERY_FAILED"} /\ reason[2] \in FAILURE_CODES
  THEN reason ELSE <<Redacted>>

projectJevDecision(d) ==
  IF d = None THEN None
  ELSE [d EXCEPT
         !.operation = IF @ \in {None} \cup CONTROL_OPERATIONS \cup ACTION_OPERATIONS
                       THEN @ ELSE Redacted,
         !.targetRef = IF @ \in {None} \cup Ref THEN @ ELSE Redacted,
         !.reasons   = {IF r \in RESULT_REASONS THEN r ELSE "UNKNOWN" : r \in @}]

\* What of a record goes to the evidence file.
projectShadowRecord(r) ==
  [r EXCEPT !.status = IF @ \in STATUS_VALUES THEN @ ELSE Redacted,
            !.reason = ClosedReason(@),
            !.jevDecision = projectJevDecision(@),
            !.normalAgentDecision = projectNormalAgentDecision(@, Ref)]

\* What the metrics count of a record.
Entry(r, fresh) ==
  [status |-> r.status, agreement |-> r.agreement, fault |-> fresh.fault,
   stale |-> r.jevDecision # None /\ r.jevDecision.stale,
   invalid |-> r.jevDecision # None /\ r.jevDecision.invalid,
   actionable |-> r.jevDecision # None /\ r.jevDecision.actionable]

\* The fresh check, and the record of the step is closed.
Recheck(covered) ==
  /\ phase = "judged" /\ phase' = "idle"
  /\ log' = Append(log, Entry(projectShadowRecord(record),
                              recheckShadowTarget(record.jevDecision, page, covered)))
  /\ record' = None /\ built' = None /\ snapshot' = None
  /\ UNCHANGED <<page, now>>

aggregateShadowMetrics(records) ==
  LET Count(P(_)) == Cardinality({i \in DOMAIN records : P(records[i])})
  IN [decisions  |-> Len(records),
      ok         |-> Count(LAMBDA r : r.status = "ok"),
      invalidStatus |-> Count(LAMBDA r : r.status = "invalid"),
      fallback   |-> Count(LAMBDA r : r.status = "fallback-required"),
      counted    |-> Count(LAMBDA r : r.agreement \in BOOLEAN),
      agree      |-> Count(LAMBDA r : r.agreement = TRUE),
      stale      |-> Count(LAMBDA r : r.stale),
      invalid    |-> Count(LAMBDA r : r.invalid),
      actionable |-> Count(LAMBDA r : r.actionable)]

-----------------------------------------------------------------------------
\* The provider may answer anything; of the target questions one at a time.
Answers(choices) == [choice : choices, sound : BOOLEAN]
OperationAnswers == Answers({"CLICK", "TYPE_TEXT", "WAIT", "junk"})
TargetAnswers    == Answers(Ref \cup {"none", "junk"})
Results ==
  LET Both(q) == {("operation" :> a) @@ (q :> b) : a \in OperationAnswers, b \in TargetAnswers}
  IN [sound : BOOLEAN,
      answers : {<<>>} \cup {"operation" :> a : a \in OperationAnswers}
                \cup UNION {Both(q) : q \in {"CLICK", "TYPE_TEXT", "stray"}}]

Inputs == [fits : BOOLEAN, rest : 0 .. 1, bounds : Bounds]
AgentChoices ==
  {None} \cup [operation : {"WAIT", "junk"}, targetRef : {None}]
         \cup [operation : {"CLICK"}, targetRef : Ref \cup {"junk"}]

ShadowNext ==
  \/ PageChanges \/ Tick \/ TakeSnapshot
  \/ \E input \in Inputs, told \in {"capture", "garbled", "not"}, choice \in AgentChoices :
       Ask(input, told, choice)
  \/ \E code \in FAILURE_CODES \cup {"ECONNRESET"} : QueryFails(code)
  \/ \E result \in Results : QueryAnswers(result)
  \/ \E covered \in {{}} \cup {{r} : r \in Ref} : Recheck(covered)

ShadowSpec == ShadowInit /\ [][ShadowNext]_shadowVars

-----------------------------------------------------------------------------
ShadowTypeOK ==
  /\ page \in Page /\ now \in 0 .. MaxTime
  /\ phase \in {"idle", "taken", "asked", "judged"}
  /\ snapshot \in Snapshot \cup {None} /\ (snapshot # None <=> phase # "idle")
  /\ phase = "asked" => "operation" \in DOMAIN built.questions
  /\ record \in Record \cup {None} /\ (record # None <=> phase = "judged")
  /\ Len(log) <= MaxSteps
  /\ \A i \in DOMAIN log :
       log[i].status \in STATUS_VALUES /\ log[i].fault \in FAULT_VALUES \cup {None}

\* The context of an element is the names of the lines it lies under: of each
\* earlier named line less deep than it and than every line between, the last.
ContextIsAncestors ==
  LET entries == parseAriaSnapshot(page)
      Over(i, j) == /\ i < j /\ \A k \in i + 1 .. j : entries[i].indent < entries[k].indent
                    /\ Named(entries[i])
  IN \A j \in DOMAIN entries :
       LET above == {i \in DOMAIN entries : Over(i, j)}
       IN \E over \in [1 .. Cardinality(above) -> above] :
            /\ \A k, m \in DOMAIN over : k < m => over[k] < over[m]
            /\ ParentContexts(entries)[j] =
                 LastOf([k \in DOMAIN over |-> entries[over[k]].name], MaxContext)

\* When a control of the snapshot the provider could use is missing from the
\* request, every target question offers "none": whichever of the limits has cut
\* it, the provider need not choose a wrong target for want of the right one.
CutSnapshotOffersNone ==
  phase = "asked" =>
    \A i \in DOMAIN built.text :
      Visible(built.text[i], FALSE) /\ built.text[i].ref \notin Refs(built.elements) =>
        \A q \in DOMAIN built.questions \ {"operation"} : "none" \in built.questions[q]

\* A decision taken for valid chose among what its own request offered, and one
\* without a target was offered to have none.
AnswersStayInside ==
  LET d == record.jevDecision
  IN phase = "judged" /\ record.jevDecision # None /\ d.valid =>
       /\ d.operation \in built.questions["operation"]
       /\ d.operation \in ACTION_OPERATIONS =>
            (IF d.targetRef = None THEN "none" ELSE d.targetRef) \in built.questions[d.operation]

\* A counted agreement is with what the agent really chose, redacted or not, on
\* a decision that was valid and fresh.
AgreementMeansSame ==
  phase = "judged" /\ record.agreement = TRUE =>
    /\ record.jevDecision.valid /\ ~record.jevDecision.stale
    /\ built.choice.operation = record.jevDecision.operation
    /\ built.choice.targetRef = record.jevDecision.targetRef

\* What the loop records the evidence file keeps: nothing it writes falls outside
\* the closed sets the projection lets through.
EvidenceKeepsRecord == phase = "judged" => projectShadowRecord(record) = record

\* The counts of the metrics fit together.
BooksBalance ==
  LET m == aggregateShadowMetrics(log)
  IN /\ m.ok + m.invalidStatus + m.fallback = m.decisions
     /\ m.invalid = m.invalidStatus
     /\ m.agree <= m.counted /\ m.counted <= m.actionable
     /\ m.stale + m.actionable <= m.decisions

LastFault == log'[Len(log')].fault
Target    == record.jevDecision.targetRef
Aimed     == record.jevDecision # None /\ record.jevDecision.actionable /\ Target # None
Shown     == ElementOf(built.elements, Target)
OnPage    == {i \in DOMAIN page : page[i].kind = "element" /\ page[i].ref = Target}

\* A target that passes the fresh check is on the page as the provider was shown
\* it, enabled, and the snapshot it was chosen from is not older than the limit
\* when the caller told its age: however long the provider took.
PassedStands ==
  Aimed /\ LastFault = None =>
    /\ Shown.enabled /\ \E i \in OnPage : Element(page[i]) = Shown
    /\ built.told = "capture" => now - snapshot.at <= DEFAULT_TTL_MS

PassedTargetStands == [][log' # log => PassedStands]_shadowVars

\* The fault the check names is the one the page has.  A target the limits cut
\* from the fresh snapshot counts as hidden.
FaultNamed ==
  Aimed =>
    CASE LastFault = "hidden"   ->
           \/ \A i \in OnPage : ~Visible(page[i], TRUE)
           \/ Len(Kept(parseAriaSnapshot(page), {l \in AriaLine : Visible(l, TRUE)}))
                > Min({MaxFreshElements, DEFAULT_MAX_STATE_BYTES})
      [] LastFault = "replaced" ->
           \E i \in OnPage : Fingerprint(Element(page[i])) # Fingerprint(Shown)
      [] LastFault = "disabled" -> \E i \in OnPage : page[i].disabled
      [] LastFault = "unbound"  -> FALSE
      [] OTHER                  -> TRUE

FaultsNamed == [][log' # log => FaultNamed]_shadowVars

\* What a step asks, judges and records is about the snapshot it was asked of, and
\* the records and the metrics say the same.
StepsAreSound ==
  /\ ShadowTypeOK /\ ContextIsAncestors /\ CutSnapshotOffersNone
  /\ AnswersStayInside /\ AgreementMeansSame
  /\ EvidenceKeepsRecord /\ BooksBalance

\* The fresh check passes a target that stands and names what is wrong with another.
RecheckIsRight == PassedTargetStands /\ FaultsNamed
=============================================================================
