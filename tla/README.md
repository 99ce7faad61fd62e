# TLA+ verification of the web automation extension

This directory models the parts of the program that decide who may act on a
browser profile, what becomes of a command on its way through gateway and
extension, and what a caller may believe about the outcome. TLC checks the
models on small instances; TLAPS proves the most important properties for every
value of the constants.

Run TLC on a run of the table in section 3 with `tlc -workers 2 -config X.cfg M`,
and the proofs of a module with `tlapm M.tla`.

## 1. The system

An agent (a command line tool, an MCP server, a coordinator or any local HTTP
client) sends a command to the **gateway**, `POST /api`. The gateway picks the
browser profile the command is for, asks whether it is permitted, gives it a
JSON-RPC id and sends it over a WebSocket to the **extension** in that profile's
browser. The extension runs the command through the debugger and replies; the
gateway certifies the outcome in a receipt. Whether a caller may act on the
profile at all is the business of the **profile governor**: it grants a lease with
a fence epoch, and issues fences that the gateway checks. The older **profile
pool** does the same for one machine with a lock directory and a file. The
**shadow loop** asks a model what it would have done, and only records it.

### Components

| component | state | operations | talks to |
|---|---|---|---|
| profile governor, `src/profile-governor/lease-service.mjs`, `recovery.mjs`, `reconciliation.mjs`, `liveness.mjs` | per physical profile a resource (state, fence epoch, current lease, reconciliation flag, recovery plan), leases with fences and action journals | reconcile, acquire, heartbeat, openTab, createFence, authorizeFence, recordAction, transition, release, recover, detectExternalUse | Registry, Runner claims, liveness probe, grant revoker: each an await |
| governor repository, `repository.mjs` | the state file, the writer directory `<state>.writer` with `owner.json` | open (steal from a dead owner), transact, close | the file system, other processes |
| event journal, `events.mjs`, `recovery.mjs` | 256 events, their digests, 128 receipts, shared by all profiles | append with each transaction, validation | the repository |
| trusted context channel, `src/server/gateway/trusted-context-channel.mjs` | current context, last number, ids seen, revocations | verify and accept a line, collect expired ids | the coordinator, over a local socket |
| permit store, interactive runtime, verifier, `src/server/gateway/` | nonces seen, budgets, revocations, a registry of receipts | resolve the target, authorize a fence use, judge, charge, certify, verify | governor, channel, gateway |
| gateway server, `src/server/gateway_server.js` | route per profile, route map of names, pending HTTP requests by JSON-RPC id | socket connected, extensionReady, reply, close, `/api`, timeout, start, close | extension, runtime |
| coordinator dispatcher, `coordinator-dispatcher.mjs` | the dispatch under way | validate, post, check the answer, tell the receipt handler | gateway, the worker |
| extension connection, `src/webmcp-extension/dist/bg/ws-client.js`, `background.js` | the current socket, isConnecting, reconnect timer | connect, open, message, close, error, alarm, reconnectNow | gateway |
| debugger bridge, `bg/cdp-bridge.js` | attached tabs, idle timer, enabled domains, contexts, isolated worlds, frame listings | attach, detach, command, evaluate in a frame, resolve a frame, onDetach, onEvent | Chrome's debugger and chrome.webNavigation |
| command handlers, `bg/router.js`, `bg/handlers/` | network and console captures with their waiters, progress of a batch | one per action name, and batches of them | debugger bridge |
| jev shadow loop, `src/lib/jev-shadow/loop.mjs`, `metrics.mjs` | the record of a step, the counts | build a request, judge the answer, fresh check, record, project | a provider, the page |
| profile pool (legacy v1), `src/lib/profile-pool/` | state file, lock directory stolen by age | acquire, renew, release, reclaim, list, doctor | the file system |
| MCP server, `src/server/mcp_server.mjs` | none of its own | starts a gateway when none answers | gateway |
| chrome launcher, `src/chrome-launcher/` | sessions.json (process ids of managed Chromes and of the gateway), the directories of managed profiles, Chrome's Singleton files | launch, relaunch, close, quit, look for a profile | Chrome, other commands, all through files |
| command line, `src/lib/cli/commands/chrome.mjs` | none of its own | choose a profile under a project's pin, pass the proxy gate, start the gateway, launch | launcher, proxy governor, gateway |
| schedule, bootstrap, other commands, popup, content scripts, cookie export, mobile CDP, scripts | files or the page | sequential | - |

### What is hard here

* **Awaits.** A governor call reads the state, awaits up to five adapters, and
  only then runs its (synchronous, atomic) transaction. A gateway request picks
  its target, its socket and its time, then awaits the probe and the governor for
  each writing call. A handler of the extension asks Chrome step by step while the
  tab navigates and the debugger is taken away.
* **Processes.** The state file belongs to one writer at a time; gateways,
  tools and drills start, die and steal the writer directory. The pool's calls
  steal a lock that is only old. Launching and closing commands share a file
  without any lock, and know Chromes by process ids that are used again.
* **Restarts.** The governor's state survives a restart, the gateway's nonces,
  budgets, ids and receipts do not, and the extension's service worker is ended by
  the browser at will, while its commands and the gateway's requests live on.
* **Delivery.** Replies come late or over another socket, connections break
  with commands under way, context messages are delivered again and out of
  order, a handler that was given up finishes beside the next one.
* **Bounds.** Journals, quotas, budgets, capture buffers, the sizes of a shadow
  request, and the epochs between them.

### What makes each component correct

* governor: one holder; an old holder's fence is never used after a new one's;
  no authority survives a restart, a quarantine or an external user; an action
  of unknown outcome is never forgotten; every state that is written loads.
* repository: one writer, no lost update, opening ends.
* journals: the recent history is complete; an append is refused for no other
  reason than the one in the validation.
* context channel: a message is accepted once, in order, and a forged one
  leaves no trace; revocations stick.
* permits: a nonce is forwarded once, no budget is overdrawn, a revoked permit
  is not used, a denial costs nothing, whatever happens during the awaits.
* routing: a call goes to a profile its permit or its context means, whoever
  connects meanwhile.
* receipts: "applied" and "blocked" are true and stay true, one verdict per
  action, and what was handed out verifies.
* dispatcher: the receipt handler is told of everything that took effect.
* link: an answer is about the caller's own command and true; a live announced
  extension is reachable; the link comes back; every request ends.
* debugger bridge: what the worker remembers of a tab is what Chrome has, or the
  message that it is not is under way; the idle timer spares captures; commands
  end; a frame that was named is the frame that is used.
* captures: within the limit nothing is lost, nobody waits for what is there, a
  response goes to one waiter.
* batch: actions run in order and where the one before led, none after a failure
  that stops the batch, and the batch ends.
* shadow loop: what is counted as valid, as agreement and as an intact target is
  that; redaction and limits do not change it.
* pool: leases exclude each other and a granted one stays, calls are answered.
* launcher: a command stops only the Chrome it means, a Chrome that runs stays in the
  session file; in a project only the pinned profile is launched, and a profile that
  is bound to a proxy not without it.

`PROJECT.json` lists the hazards with their lines and the properties for them.

## 2. The modules

### Governor: `ProfileGovernor`, `FencedOwnership`

`ProfileGovernor` has one physical resource `res`, the lease records `leases`
(state, kind, epoch, generation, remaining time, tabs, fences, action journal)
and `generation`, as in the state file. A transaction is one action. A call
that reads, awaits and commits is two: `ReleaseBegin`/`ReleaseCommit`,
`CreateFenceBegin`/`CreateFenceCommit`, and so on for openTab, heartbeat,
authorizeFence, recordAction, transition and recover; `calls[c]` is what caller
`c` has read, exactly what its commit compares again. `Refuse` is a call that
ends without a change. `Barrier` (`_establishRevocationBarrier`) and
`LifecycleGate` (`_persistLifecycleState`) are what any call may do at any of its
awaits; of its reads only the lease matters, so they are actions without a
caller. `acquire`, `reconcileProfile` and `detectExternalUse` read nothing before
their awaits and are single actions. `Tick` is time (records hold the ticks they
have left) and `HostRestart` is a new service over the old file.

Recovery evidence is assumed to attest what the authorizer was shown: a recover
commits only if the plan (reason, lease, epoch) it was begun with is still the
one in the record, which is what the digest in the code compares. Aliases and
run identities only ever refuse a call and are left out. `JournalAssumption`
says that at most 64 actions are recorded: the code shifts the oldest of 64
entries out of the journal of a lease (see section 6). `LeaseRecord`,
`FenceRecord` and `LeasesAreConsistent` are the validators with which the
repository refuses a state; `ValidState` says they never have to.

`FencedOwnership` is the promise: a holder, an epoch that only advances,
authority that is opened by `Grant` together with a new epoch and never opened
again once closed. `ImplementsFencedOwnership` is the refinement; that fences are
used in epoch order follows from it (`FencesInEpochOrder`, proved).

### State file: `GovernorRepository`, `EventJournal`

`GovernorRepository` has one action per file system call: mkdir of the writer
directory, the exclusive creation of `owner.json`, the look at a dead owner, the
two halves of its removal (`rmSync` unlinks the file and then the directory), the
check before and the rename of a transaction. Processes die between any two and
their identifiers are used again. `contested` records that two processes were
stealing from the same owner. `StateFileSafe`: types, `OneWriterUnlessRaced`,
`UpdatesNotLost`.

`EventJournal` has the two bounded journals and the validation of
`repository.mjs`, the call that appends to each, and enough of the leases
(none, usable, gated, quarantined, external) to say which calls those are.
`JournalsSafe`: `RecentHistoryKept`, `RefusedOnlyForNamedEvent`,
`FullReceiptsDoNotBlock`. `MCGovernorStore` runs both: a behaviour is one of one
of them.

### Permits: `TrustedContext`, `PermitGate`

`TrustedContext` is the channel: messages with number, id, times and
revocations are delivered in any order and again; `Accept` and `Refuse` are
`processMessage`. Ids that have expired are collected. `ChannelSafe`:
`AcceptedOnce`, `NumberedInOrder`, `OnlyAcceptedLeavesTrace`, `RevocationsStick`.
`PermitGate` extends it with the requests: `arrived` (target resolved, time
taken), `authorizing` (one governor answer per writing call), then judged,
charged and forwarded in one action, because only microtasks run between those
in the code. `fenceMode` is off, observe or enforce, chosen when the gateway is
started and the same in each of its processes. Signatures, action classes and
origins are in scope: without one a request is denied where it is judged.
Bindings, revisions and digests are one value, `plan`. `seenNonce` is a set
because nothing in the program calls `gc`. `AllowancesKept`: types,
`BudgetNotOverdrawn`, `CallsWithinBudget`, `WritesWithinUses`.

### What becomes of a call: `ProfileRouting`, `ExecutionReceipts`, `CoordinatorDispatcher`

`ProfileRouting` is the choice of a profile among several: the route map that
`dispatcher-route-resolver.mjs` builds at start from any bindings of aliases to
physical profiles, the target picked when the call arrives, what the verifier
compares after its awaits, and the second look before the call is sent. Profiles
connect and disconnect and the trusted context is replaced at any moment.
`RoutingSafe`: `GoesWherePermitted`, `DigestBinds`.

`ExecutionReceipts` is what the gateway certifies of a call, single or a batch:
`blocked` before it is sent, `applied`, `failed` or `indeterminate` after; late
replies, handlers that were given up and take effect all the same, a gateway
that starts again with an empty registry. `did` and `told` are what really
happened in the browser. Each refusal of the code is an action (`NoTarget`,
`BindingMismatch`, `ExternalUse`, `OriginsDenied`, `DeniedByVerifier`, `ProfileRequired`,
`TrustedTargetGone`, `MappingError`, `ChildMappingError`), and so is the refusal
that is only observed, whose receipt stays in the registry while the call goes on
(`PassedThrough`). A reply finds the call that waits under its number, be the reply to
another call, of the process before the restart (`Settle`; `reused` records the calls
that were sent under a number for which such a reply was still due).
`ReceiptsAreTrue`: `AppliedTookEffect`, which leaves those calls out, `BlockedHadNoEffect`
about the answers, `OneVerdict`, `AnswersVerify`.

`CoordinatorDispatcher` extends it: each call of a worker is one call of the
gateway, validated, posted, its answer checked, its receipt handler told, who may
reject or throw. `DispatcherSafe`: `HandlerTold`, `ResultsAreCertified`,
`ShownReceiptsAreTrue`. `MCGateway` runs routing, the dispatcher and the channel.

### Link: `Sockets`, `WsClient`, `GatewayServer`, `CommandService`, `ExtensionLink`

`Sockets` is the connections as both ends see them: each end has its
`readyState`, each direction a queue, and `broken` loses what is under way. A name
whose both ends are closed serves the next connection. `WsClient` is the extension:
`ws`, `isConnecting`, the timer, handshakes that await the profile information
(`announcing`) and commands that run (`tasks`). onclose and onerror are one action;
a killed worker is the state without socket, timer and tasks, which the next
alarm starts again. `GatewayServer` is the route, the announced sockets, and the
requests: `new`, `deciding` (the awaits, decided in `PermitGate`), `pending`,
`answered`, or `lost` with the process. A request keeps the socket it picked on
arrival. `ExtensionLink` composes them with crashes, restarts and broken
connections. One browser profile is modelled here, several in `ProfileRouting`.

`CommandService` is what a caller may conclude: a refused command has not run
and never will, one reported done has run, of every other nothing is known; after
a restart of the gateway a report proves nothing, because the code promises
nothing there. `ImplementsCommandService` is the refinement.

### In the browser: `DebuggerBridge`, `FrameTree`, `NetworkCapture`, `ConsoleCapture`, `Batch`

`DebuggerBridge` has two sides for one tab with one sub-frame. `bridge` is what
the worker believes: attached, domains enabled, contexts, the isolated world, the
frame listing, the idle timer, the captures. `owner`, `domains` and `doc` are
Chrome. Commands to Chrome and its answers and events are queues; a call of the
worker runs from one await to the next in one action (`First`, `Following`,
`Attached`, `Answered` ...). Other debuggers, the user and navigations intervene
anywhere; Chrome may not answer at all (`ChromeHangs`), and the 30 s timer ends the
command. `MemoryIsTrue`: types, `AttachedIsOurs`, `EnabledAsRemembered`. `WorldIsCurrent`
is a property of its own, for it is true of two commands at a time and not of any
number (section 6).

`FrameTree` is the part of the bridge that names frames: the tree of the debugger
and the list of chrome.webNavigation, asked for together and matched by address;
the listing that is kept until a navigation; the ways a command names a frame, by
number, name, address, position or a path of segments that are looked up in each
document; and the offset, for which each document above is asked for an element.
`page` is what Chrome shows, and changes between any two answers. `FramesSafe`:
`NumbersAreTrue`, `ListingIsCurrent`, `PathLeadsThere`, `OffsetIsItsOwn`.

`NetworkCapture` is the session of `network-intercept.js`: requests with their
events, bodies fetched with an await, waiters with their timers, eviction beyond
the limit, listings by pattern and limit. `CaptureSafe`: `NoForgottenWaiter`,
`RecentRequestsHeld`; the second is about what the session holds and, of it, what a
listing gives. `ConsoleCapture` is the buffer of `console-capture.js` with its
filtered, clearing reads. `Batch` is `runBatch`: actions with time limits, handlers
that were given up and answer in the middle of the next action, screenshots.
`MCHandlers` runs the frames, the captures and the batch.

### Shadow loop: `ShadowLoop`

A snapshot (a sequence of lines) is cut to a request within limits of elements,
size and questions (`TrimState`); the provider answers anything while the page
changes; the answer is validated, compared with the agent's own choice under
redaction, rechecked against a fresh snapshot (`BoundAt` dates the one it was
chosen from), recorded, projected through closed sets and counted. A line is a
record, sizes are in units. `StepsAreSound` has seven parts, `RecheckIsRight` two;
each part has its own comment. What the loop filters is written with `Kept` of
`Arrays`, which is a function and not a recursive operator, so that it can be proved
about.

### Pool: `ProfilePool`

One action per file system call of `legacy-v1-state.mjs`: `mkdirSync`, `statSync`,
the removal of a stale lock, the read, the write of `<path>.tmp` (which all calls
share: `openTmp`, then the content), the rename, the unlock. Calls are processes of
eight kinds; one may die while it holds the lock. `misjudged` records that a lock
was stolen from a call that was only slow. `LeasesHold`: `HeldAloneUnlessMisjudged`,
`LeasesExclude`, `PromisedLeasesStand`.

### Launcher: `Launcher`, `LaunchGuard`

`Launcher` has the commands that launch, close and quit, each a process with what it
has read of `sessions.json` (`sessions`), the file it read (`base`) and where it is
(`at`). A save is two actions, as opening the file empties it. Beside the file there
are the processes, and the Singleton files, in which a Chrome names itself. Chromes
start, hand over to another in their directory, crash and end; other programs get their
ids; commands die. `raced`, `doubled` and `reused` record when a file was written over
what the writer had not read, two commands launched one directory, and an id was given
out again while something still held it. A launch knows whether its profile is a managed
one from where it found it (`LauncherAssumption`), and a relaunch differs: `RelaunchManaged`
stops the process of the lock or none, `RelaunchExisting` quits every Chrome if the lock
names no process that lives. `strays` records whom a command stopped besides those of its
directory, and how. `SessionsKept`: types, `KnownIsListed`, which says what holds until one
of the three has happened, and `StopsItsOwn` with its three exceptions: an id that was given
out again, a path that begins another, and that relaunch. A process of another user counts
as dead to the commands, and is none of the model's.

`LaunchGuard` is one launch: the profile that a project pins (`Pinned`, `Agrees`), what
the flags ask for, whom the search on the disk finds at two moments, and whether the
proxy is among the arguments. A profile may appear in between (`Appears`). Names and ids
are compared without case (`Norm`), and a name may stand for a directory (`Full`).
`LaunchGuarded`: types, `LaunchedIsPinned`, `ProxyIsUsed`. `MCCommands` runs both, and
the shadow loop.

Operators marked `Mutant:` are plausible bugs, each used to see that a property
notices; no action uses them.

## 3. The runs

| run | instance | states | what it shows |
|---|---|---|---|
| `governor_fencing` | 2 leases, 1 fence, 2 callers, epoch to 2 | 1.0 M | types and quotas, `ImplementsFencedOwnership`, `EpochsSeparateOwners` under every interleaving of calls with acquire, release, reconciliation and barrier; no restart |
| `governor_restart` | 1 lease, 1 fence, 1 action, 2 callers, epoch to 3, 1 restart | 0.7 M | `ValidState`, `NoResurrection`, `IndeterminatePinsOwner`, `ExternalProvenanceKept` |
| `governor_stale_release` | 1 lease, 1 fence, 1 action, 2 callers, epoch to 2 | - | counterexample to `ReleaseAfterActionsResolved` (section 4) |
| `governor_store` | 3 processes, 2 opens each, 2 transactions; 2 profiles, 3 events, 2 receipts, 9 writes | 0.5 M | `StateFileSafe`, `OpeningEnds`; `JournalsSafe` |
| `permits` | 2 requests, 3 permits of 2 ids, 2 contexts, 1 proof, fence enforced or observed, 1 restart | 2.4 M | `NonceForwardedOnceUnlessObserved`, `AllowancesKept`, `RevokedNotForwarded`, `DenialSpendsNothing` |
| `link_answers` | 2 requests, 2 socket names, 1 restart | 0.6 M | `LinkSafe` (types, `RepliesMatch`), `ImplementsCommandService` |
| `link_returns` | 1 request, 2 socket names, 2 handshakes at once, 1 restart | 93 k | `AnnouncedIsRouted`, `RequestsSettled`, `ExtensionReturns` |
| `bridge` | 1 tab, 2 commands at once out of 5 workloads, 1 navigation | 0.2 M | `MemoryIsTrue`, `WorldIsCurrent`, `IdleSparesCaptures`, `CommandsEnd` |
| `handlers` | 3 requests, 2 waiters, a limit of 2 records; a limit of 2 messages out of 5; 3 actions, 2 tabs; 2 frames below the main one, paths of 2 segments, 1 change of the page during a call | 0.8 M | `CaptureSafe`, `WaitersServed`; `ConsoleSafe`; `BatchSafe`, `RunBatchEnds`; `FramesSafe` |
| `gateway` | 2 profiles, 2 aliases, 2 gateways in the route map; 2 calls, batches of 2; 5 messages, 4 ticks; 1 restart | 1.7 M | `RoutingSafe`, `RoutedCallIsServed`; `ReceiptsAreTrue`, `DispatcherSafe`; `ChannelSafe` |
| `commands` | 5 pages, 3 sets of limits, 1 step, 2 ticks; 2 commands, 2 process ids, 3 directories; up to 2 profiles and 1 that appears, 9 pins, 48 requests | 0.9 M | `StepsAreSound`, `RecheckIsRight`; `SessionsKept`; `LaunchGuarded` |
| `pool` | 3 calls of 8 kinds, 2 aliases that are one physical profile or two, 1 crash, 2 ticks | 0.8 M | `LeasesHold`, `CallsAnswered` |

The config of a run is `MC<Run>.cfg` (`MCLink.cfg` for `link_answers`); the module is
`MCProfileGovernor` for the first three, `MCPermitGate` for `permits`,
`ExtensionLink` for those of the link, `DebuggerBridge` for `bridge`, and otherwise
`MC<Run>` (`MCGovernorStore`, `MCHandlers`, `MCGateway`, `MCCommands`, `MCPool`).
`MCTrustedContext` gives the messages of `MCGateway` their contents.

Properties named `...Safe`, `...True`, `...Kept`, `...Sound`, `...Right`, `...Hold`,
`...Guarded` and `...Served` are conjunctions; section 2 and the modules name their parts. Parts of a
run that share no state are checked in one run, as the disjoint behaviours of an MC
module, so that their numbers of states add and do not multiply.

### Bounds, and why they are enough

* `MaxEpoch`, `MaxGeneration`: with epoch 2 a lease can be replaced by another
  or be fenced off once; with epoch 3 the restart run sees a lease granted before the
  restart, reconciled and recovered after it. Two callers give every pair of calls in
  flight; three would only add calls that are refused. The proofs of section 5
  have no bound.
* `LeaseTtl`, `FenceTtl` 1, `TabLimit`, `UseLimit` 1: a live and an expired
  lease, a free and an exhausted quota; one more is refused.
* `MaxOpens`, `MaxCommits` 2 with 3 processes: a dead owner, two that steal,
  and identifiers that are used again.
* Journals: 3 and 2 stand for 256 and 128; 9 writes fill each journal and turn
  it over, in every order of events with and without a receipt.
* `MaxTime`, `MaxBoots`, `MaxCalls` 3: messages and permits before, at and after
  their expiry; a process and its successor; batches within and beyond a budget.
* `MaxAnnouncing`, `MaxRestarts`: one or two handshakes that wait; one restart
  is where the ids start again. Two socket names: names are reused, so there are
  old and new connections, one replacing the other, without limit.
* Bridge: `MaxDoc` 2 is one navigation, before, between or after any two steps;
  `MaxSent` bounds the messages in the queues; the `Workloads` are the pairs of
  commands that share memory: frames with a detach, the main world alone, a console
  capture started, stopped and detached, a network capture beside an evaluation, and
  the viewport override.
* Frames: two frames are siblings in either order, or nested; every change of the
  page is possible between calls and one during a call. A frame is attached once,
  as its identifiers are never used again.
* Captures: one record more than the limit evicts, and a listing stops below, at or
  above what is held; two waiters are served in either order. One request may be
  redirected, and a third one comes only where none was and nobody has waited: eviction
  by order, by a second entry, and waiters of records that go are met apart. Batches of three have a failure before, between and after.
* Routing: two profiles and two aliases give every map that mixes them up, also one
  alias to both. Receipts: two calls, of which one may be of the process before and its
  reply still to come when the other is sent under its number.
* Shadow: each limit is one below, at, or above what the pages need.
* Launcher: a relaunch of either kind beside a launch, a close, a quit or a start of the
  gateway is every pair of commands that share an entry; two ids mean that one is used
  again; one of three directories has a path that begins with another's. Files may be
  left of the session before. Somebody starts one Chrome or program, one command dies.
* Guard: two profiles and one that appears make each search ambiguous, exact or
  empty; ids differ in case only, a name is another's directory, and each kind of pin
  meets each of its mismatches.
* Pool: the ages at which a lock is stolen and a lease ends are one tick. A call
  crashes at most once, and only with the lock, as without it it leaves nothing.
* Symmetry is used for leases, fences and callers, for profiles and for
  requests, in runs without liveness properties only.
* Deadlock is not checked in `permits`, `handlers`, `gateway`, `commands` and `pool`:
  time is bounded there and every request, batch, call or command may be over. It is checked
  everywhere else.

### Fairness

* Governor, journals, permits, channel, routing, receipts, shadow, launcher: none; only safety
  is claimed.
* Repository: `WF(Proceed(p))`. Opening and transacting are synchronous code;
  a process that lives gets through them, one that dies leaves the action
  disabled (it does nothing until it is booted, which is not fair).
* Link: `WF` on the extension's events, timers and alarm together (`chrome.alarms`
  comes back every half minute, also for a worker that was ended), on the
  gateway's socket events together, on the next step of each request (every await
  is answered or times out; every pending request has a timer, `timeoutTimer`), and
  on the failure of a connection attempt to a gateway that does not run. Nothing is
  assumed of `Arrive`, `Finish`, `Restart`, of breaks, kills or the user.
* `ExtensionReturns` is conditional: once the user's `reconnectNow`, kills,
  crashes and breaks have stopped, the link is up and stays up while the gateway
  runs. `getProfileInfo` is assumed to answer (section 6).
* Bridge: `WF` on Chrome's answering or hanging, on the delivery of its messages, and
  on the next step of each call, to which the timer of a command that hangs belongs.
* Network capture: `WF` on the timer of each waiter (`setTimeout`). Batch: `WF` on its
  moves, of which a handler that never answers is none: the time limit of the action is.
* Pool: `WF` on time and on the next step of each call that lives.

## 4. What contradicts the code's own words

`governor_stale_release` is a run: `release` looks at the action journal before its
awaits and not in its transaction; an action recorded meanwhile stays unresolved on a
profile that is given up (`lease-service.mjs:513`).

Three more contradict a comment or a document. They have no run of their own any
more; the passing properties say exactly when they happen.

1. An acquire whose liveness is not healthy moves an owned profile from external use
   to unknown, where release and recovery are open again (`lease-service.mjs:355`).
   `ExternalProvenanceKept` is about what is durably recorded, which stays.
2. Of two processes that find the same dead owner the slower one removes the
   directory of the faster one; both write (`repository.mjs:342`). `StateFileSafe`
   holds until two processes have been stealing from one owner (`contested`).
3. With the fence only observed, the verdict about the fence is returned before the
   permit is judged, so a spent, revoked or expired permit passes with a missing or
   stale proof (`verifier.mjs:626`, `gateway_server.js:1033`).
   `NonceForwardedOnceUnlessObserved` and the theorems leave that mode out; what holds
   in every mode is `AllowancesKept` (with `BudgetNotOverdrawn`) and `DenialSpendsNothing`.

The fence mode `off` is left to the proofs.

## 5. What is proved

All proofs are for any sets of leases, fences, callers, processes, messages,
permits, requests, calls, sockets and frames, and any bounds. They rest on the named
assumptions of the modules (`ConstantsAssumption`, `JournalAssumption`,
`PermitAssumption`, `GenuineIdsDiffer`, `SocketAssumption`, `BoundsAssumption`,
`ReceiptsAssumption`, `ShadowAssumption`, `FrameAssumption` ...), which TLC evaluates in
every run.

* `ProfileGovernor_proofs`: `TypeOK`, `ValidState`, `NoResurrection`,
  `EpochsSeparateOwners`, `IndeterminatePinsOwner`, `ExternalProvenanceKept`,
  and that the governor implements `FencedOwnership`. The abstract specification keeps
  uses in epoch order (`UsesOrdered`), so the governor does (`FencesInEpochOrder`). The
  inductive invariant is `IInv == TypeOK /\ RecordsInv /\ CallsAreRooted`.
  `CallsAreRooted` is why interleavings are harmless: what a call in flight has
  read about its lease is still true, or its lease's epoch has moved on and the
  commit sees it. Each mutation shared by several calls has a lemma of its own;
  `NextInv` goes through the actions.
* `PermitGate_proofs`: first the channel, `ChannelSafe`, all of it. `ChannelInv` adds
  that the id of an accepted message is remembered until it has expired, and that
  `lastSeq` bounds every accepted number. `AcceptedOnce` uses `GenuineIdsDiffer`: two
  genuine messages have different ids. Then the gate:
  `NonceForwardedOnceUnlessObserved`, `BudgetNotOverdrawn`, `RevokedNotForwarded`,
  `DenialSpendsNothing` from `GateInv` (what a process has forwarded is in its
  ledger), and `AllowancesKept` from `AllowanceInvariant`: the calls a process has
  charged to a permit are as many as its ledger says, and each writing call it has
  authorized is one use of the proof, which is why both are counted as sets of pairs
  and not as sums.
* `ExtensionLink_proofs`: `LinkSafe` and `AnnouncedIsRouted`. `LinkInv`
  follows an id from the pending request through the connection, the running
  command and the reply: while the first process lives, an id under way is below
  `nextId` and, if a request waits for it, it is the one it was given to; only
  commands that were forwarded are under way, run or reported. Steps that leave
  the requests alone are `Quiet` and share their lemmas. The link implements
  `CommandService`: `LinkInv` supplies what the abstract guards ask, that a request
  which is denied was never forwarded and a reply is about an executed command.
* `Stores_proofs`: `StateFileSafe` and `JournalsSafe`, then the pool. `StateFileSafe` is
  for any number of processes. The invariant is about whoever has business with the writer directory (`Engaged`): there
  is one such process at most, the directory shows what it is engaged in, and the base
  of a transaction is the current version (`Apart`). All of it is claimed while
  `contested` is false only; a race on a dead owner is what breaks it. And
  `JournalsSafe` of `EventJournal`: events and receipts are numbered without a gap, so
  that what each journal holds is a suffix of what was appended.
  `LeasesHold` of the pool is for any number of calls and any mapping of
  aliases. Until a lock is misjudged at most one call is between lock and unlock; what
  that call has read is the file (`Pending`), what it is about to write keeps every
  lease that was promised and has not ended (`Kept`, `Covers`), and no two of its
  leases are for one physical profile (`Exclusive`).
* `Gateway_proofs`: `ReceiptsAreTrue` and `DispatcherSafe`, under `DispatchSpec` (the
  calls of the dispatcher's workers beside those of other clients; the run `gateway`
  has the same steps). `ReceiptsInv` says of each call that nothing is told or done
  before it is sent (`Progress`), that its receipts are true of what took effect and a
  blocked call stays blocked (`Verdict`; of a call in `reused` no more than that its verdict is
  about its own actions), that a reply with the number of a call that waits is its own or
  the call is in `reused` (`Numbered`), and that the registry holds permissions, refusals
  that were observed and what calls were answered with (`Registered`); `Truthful` is shown once for each kind
  of answer. `Dispatched` ties each step of a dispatch to its call. `RoutingSafe` and
  `RoutedCallIsServed` for any profiles, aliases and bindings: what a call has picked
  is what the route map made of its name when it arrived, and the map does not change.
* `Extension_proofs`, one part after the other:
  the batch (`BatchSafe`: the results are those of the actions before the present one);
  the bridge (`MemoryIsTrue`, `IdleSparesCaptures`: the message at the head of Chrome's
  queue is what its call waits for; an answer is true of Chrome or what makes it false
  is behind it in the queue; nothing that enables a domain is ahead of a stop or of an
  idle detachment that did not race);
  the console (`ConsoleSafe`: every message is in the buffer, handed out or counted as
  dropped, and the next number is ahead of all);
  the network capture (`CaptureSafe`, and that a response goes to one waiter,
  `ConsumedOnce`). `CaptureInv`: whoever waits is listed once and newest first, nothing
  that is ready matches a waiter, a record is fresh until its request has ended, and
  what is held is the recent end of what was recorded, of which a listing takes the
  first places (`EarlierPlaces`, `FewEarlier`);
  the frames (`FramesSafe`), for pages of any size and nesting. A page stays a tree
  through every change (`IsTree`), so its flat listing has each frame once and after its
  parent (`ListingIs`). Hence the matching, which goes through the listing in order,
  gives each frame its own number or none (`OwnNumbers`), and no number twice however
  the two answers differ (`OneEach`). `FramesInv` ties a call to the listing it goes by,
  which is the one that is kept until the page changes (`Looks`); what is left of a
  chain and what was measured of it make up the chain (`Measures`).
* `Commands_proofs`: `LaunchGuarded`, `SessionsKept`, and of the shadow loop
  `StepsAreSound` and `RecheckIsRight`. `GuardInv` says that the choice
  stands from the moment it is made: it is what the pin says, or nothing on the disk
  answered to the name, and whatever answers to it later is new. `SessionsInv` relates
  the world to what commands have read of it. Until an id is given out again, an id that
  is alive and written anywhere is that of the process it was written for
  (`NamesTrue`); what a command would no longer write is dead or told to terminate
  (`Copied`, `GivenUp`), so that a save over the file it was read from drops nothing;
  and until commands race only one of them writes (`ReadWhole`, `WritesAlone`). Steps in
  which no process begins and no file is touched are `QuietWorld` and share one lemma.
  The shadow loop is first a matter of what its pure definitions compute: the stack of
  ancestors after any number of lines holds exactly the named lines that still stand
  above (`Stands`), a request contains a visible control or says that it is cut, an
  answer that is taken for valid names what was offered. `ShadowInv` then carries this
  from the snapshot to the request (`Shows`), to the record (`Recorded`) and to each
  entry of the log; `RecheckStaysRight` needs of it that the fingerprint of a decision
  is that of the element the provider was shown.
* `Arrays_proofs`: what a filter keeps, in which order, and how many; what the parts of
  a sequence, and sequences that are put together, hold; a function that is
  defined by recursion over a number exists and obeys its equation
  (`FunctionByRecursion`); the least number with a property that is given as a set
  (`LeastNumber`), and induction in the same form (`AllNumbers`). Stated about sets
  instead of operators they can be cited, and so what `ParentContexts` computes is
  proved for every snapshot, and what `flattenCdpFrameTree` and `mergeNavigationFrames`
  compute for every page.

**Only model-checked.**

* Liveness (`OpeningEnds`, `RequestsSettled`, `ExtensionReturns`, `CommandsEnd`,
  `WaitersServed`, `RunBatchEnds`, `CallsAnswered`): the prover has no rules for
  fairness and ENABLED. The half of `WaitersServed` that is no liveness, `ConsumedOnce`,
  is proved.
* `WorldIsCurrent`: it is not true of every number of commands (section 6).

## 6. Other divergences seen while modelling

These have no run of their own; the models behave as the code does, and where a
property would fail it says under which condition it holds.

* Journals: when the journal is full and a receipt names the oldest event, every
  append without a receipt is refused, a revocation barrier, a heartbeat and a
  release included, until a receipt is dropped (`events.mjs:78`;
  `tests/unit/profile-governor-core.test.mjs:273` "claim loss and grant-revocation
  failure invalidate active state and issued fences"). `RefusedOnlyForNamedEvent`
  says exactly when.
* Governor: two concurrent `recordAction` calls judge the same read; the later commit
  overwrites a final outcome (`lease-service.mjs:657`). `release` assigns cooldown
  past the state machine (`:552`). A heartbeat that finds its lease expired throws
  inside the transaction, so the mark it sets is rolled back (`:488`). A lease that
  has expired keeps its profile, and one that became unknown that way has no
  recovery plan that evidence could match. The oldest of 64 journal entries goes
  even when it is unresolved (`:678`). An acquire that is repeated gets its lease
  back whatever its expiry or external use (`:375`); recovery looks at indeterminate
  entries and not at prepared or dispatched ones (`:728`); tabs are never closed (`:440`).
* Repository: a process that dies between mkdir and `owner.json` makes every later
  open refuse (`repository.mjs:324`); a dead owner with one's own pid looks alive
  (`:338`); an fsync that fails after the rename reports a failure (`:396`); above
  2 MiB nothing can be written (`:380`).
* Permits: a permit is judged at the time taken before the awaits
  (`interactive-runtime.mjs:1016`); a request that cannot be delivered is charged
  (`gateway_server.js:870`); `reserveBudget` changes the budget before it denies
  (`permit-store.mjs:107`, not called by the program).
* Link: ids start at 1 again after a restart of the gateway and replies travel over
  the current socket, so the reply to a command of the process before can settle a
  request of the new one (`gateway_server.js:464`, `1389`; what is then certified is
  under receipts). A request whose socket has closed before its command is
  sent waits for its timer, since the close event has passed; a message that is sent
  while the socket is not open is dropped silently. If the profile information cannot
  be read the handshake is never sent, the socket stays open, and nothing reconnects
  (`ws-client.js:177`).
* Routing: when the trusted context is replaced during a call's awaits, the second
  look still routes by the context of its arrival (`gateway_server.js:825`, `1136`),
  which `GoesWherePermitted` allows for. A context whose profileId is an alias never
  routes. The fence epoch in a receipt is the one in force when it is written
  (`interactive-runtime.mjs:199`). A binding key with surrounding blanks fails the
  registry adapter and is trimmed by the route map; one physical profile has a
  different resource name at each gateway.
* Receipts and dispatcher: after a restart of the gateway a reply to the process before
  can be taken for that of a new call with its number, which is then certified as applied
  or failed without a look at what was sent (`gateway_server.js:1390`); so may the result
  of a dispatch be. `AppliedTookEffect`, the second half of `OneVerdict` and
  `ResultsAreCertified` leave such calls out. With the fence only observed the "blocked"
  receipt of a call that is forwarded all the same stays in the registry, given to nobody
  (`interactive-runtime.mjs:1005`, `gateway_server.js:1034`). The "not-applied" receipt of
  an admitted call stays in the registry and verifies; a profile without the digest of its
  permit is refused without a receipt (`gateway_server.js:914`); receipts of batch actions that were never begun say
  "attempted"; a call without a target makes two blocked receipts; a handler given up
  by its time limit is certified as failed and may take effect later. When the result
  of an applied command cannot be shown, the dispatcher tells its handler of a failure
  without a receipt (`coordinator-dispatcher.mjs:431`). Its fetch has no time limit;
  `request.fenceEpoch` is validated and not used. `listDownloadEvents` compares
  strictly and misses events of the same millisecond.
* Debugger bridge: the stop of a capture that races with another call's enabling
  leaves a deaf capture, or Runtime remembered as enabled (`cdp-bridge.js:610`;
  `raced` in the model). The probe for one's own session has no time limit (`:103`).
  A frame listing whose navigation came between its answers is kept (`:406`).
  The clean-up of a second detachment erases a re-attachment, which heals at the next
  command. `ensureDebuggerAttached` is not shared by the calls that wait for it
  (`:116`), so that with four commands at once an old request to attach can take effect
  between two losses that the worker has not yet heard of: the isolated world of a
  later command is then created in a session where Page is not enabled, and no event
  tells the worker when a navigation ends that world. Four are beyond the bounds of
  the run; two do not suffice.
* Frames: the position of an element in its document is used as the position in the
  debugger's tree, which is in order of attachment; an element inserted before an
  older one is another frame, and neither its name nor its address is looked at
  (`cdp-bridge.js:503`; `docs/extension/20260628_implementation_plan_iframe_handling.md:180`
  has selectors "resolve to exactly one frame", which the wrong one is). An offset looks
  for an element with the frame's address as soon as the positioned one's `src` is not
  it, after a redirect for example, and takes the first element without a `src`, since
  every address includes the empty one (`:699`). A frame that goes away before its
  offset is measured has offset zero (`:671`). A segment of a path that is a number is
  taken for a frameId, which no segment may be (`:454`). A frame that is replaced by
  another of the same address between the two answers gets the other's number. Blank
  frames that are added are not listed until the next navigation.
* Captures and batch: a redirected request is entered twice under one id, so that its
  eviction removes the live record and listings show it twice
  (`network-intercept.js:190`); the newest waiter is served first. `getCapturedRequests`
  goes from the oldest record on and stops at its limit, which is 100 unless given while
  a session holds 300 (`:143`), so that beyond 100 the newest are missing, although
  `skills/webmcp-browser-automation/SKILL.md:460` calls it "List everything captured so far". Two starts of the
  console capture that overlap empty its buffer twice, and drop what came in between
  (`console-capture.js:137`). The screenshot
  after an action has no time limit in the batch.
* Shadow loop: the fresh check uses the default limit of 32768 bytes even when the
  request's was larger, so a target that was shown may count as hidden
  (`loop.mjs:1279`). Without a capture time a stale snapshot is dated at the call
  (`:1355`). A build failure is always recorded as UNKNOWN; `freshCheck.ok` is true of
  invalid decisions (`:1257`); a stale answer has status "ok"; the provider's answer
  has no time limit; references are taken to be unique.
* Pool: two calls that find one old lock both remove it, the slower that of the
  faster (`legacy-v1-state.mjs:82`); a call that takes longer than the 10 s is robbed,
  and its `finally` then removes the thief's lock (`:96`); all calls write the one
  `<path>.tmp` (`:55`); a lock that vanishes is tried again without a look at the
  deadline (`:80`). "Serializes concurrent broker calls" (`:63`) holds until one of
  these. A lease that is reused keeps its old end although the answer has the new
  ttl (`legacy-v1-lease.mjs:8`, `cli.mjs:174`), and is reused whatever tab is asked
  for. The mapping of aliases is read at each acquire: an edited one may lease a
  physical profile twice; `LeasesExclude` is for a mapping that stays.

* Launcher: `sessions.json` is written without a lock and not by a rename
  (`sessions.js:49`): a command interrupted or overtaken in the middle leaves a
  file that the next one reads as empty, and `closeChrome` writes after its waits what
  it read before them (`launcher.js:709`). Two launches of one directory at once leave
  a running Chrome out of the list. A recorded id is signalled without a look at what
  it is by now (`launcher.js:695`), and `findChromePidForUserDataDir` finds a
  process whose directory only begins with the path (`:99`). The relaunch of an existing
  profile whose lock names no process that lives quits every Chrome on the machine, those
  of other directories included (`launcher.js:481`); that of a managed one refuses to
  (`:590`). Closing and quitting
  remove the Singleton files of whoever has them (`:705`, `:284`). A dry run with
  `--relaunch` still stops the running Chrome; dry runs are not modelled.
* Launch guard: without a name and a profile id `webmcp launch` finds an existing profile
  named "webmcp" after the proxy gate, and launches it without its proxy
  (`chrome.mjs:403`, `launcher.js:500`), although
  `skills/webmcp-chrome-launcher/SKILL.md:88` has the launch of a bound profile
  "automatically" pass the gate; so does one whose metadata cannot be read
  (`chrome.mjs:371`). `ProxyIsUsed` names the first; the second is no binding in the model.

## 7. Not modelled, and what could follow

No state to check: content scripts, popup, the other commands of the command line,
cookie export, the tool catalogue, the registry adapter (a projection of a document),
scripts, the mobile client. Edits of files under an operator's control: schedules,
bootstrap, forked profiles. The MCP server starts a gateway when none
answers; two of them start two, and the second finds the port taken
(`mcp_server.mjs:58`), which needs no model.

Left out of parts that are modelled: action classes and origins of a permit, the
health and revocation requests over HTTP beyond their effect, the contents of download
events and dialogs, addresses and backoff times, Ed25519 and canonical JSON (a boolean
each), the lexing of a snapshot, confidence, postconditions, lineage and timings of the
shadow loop, frames of other processes, `markAttached` without a probe, of the pool
the calls that end with an unreadable configuration or an unknown alias
(`cli.mjs:152`, `215`), and of the
launcher the binary, its arguments, forks, names and avatars of profiles, and what the
flags skip.

What could follow: a composition of `ProfileRouting` with `GatewayServer` for
several profiles and their sockets at once; `DebuggerBridge` with two tabs; a
condition under which `WorldIsCurrent` is inductive.
