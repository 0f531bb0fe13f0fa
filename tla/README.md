# cubepilot: a verification project

cubepilot runs one OpenClaw agent per user on Kubernetes. A web portal talks to
an API process (`cmd/cubepilot-api`, `internal/server`), which keeps one
WebSocket per user to the gateway inside that user's agent pod; an operator
(`cmd/cubepilot-operator`) reconciles agents, configuration and scheduled Tasks;
a supervisor (`cmd/cubepilot-supervisor`) runs in the pod and keeps the gateway
child and its files in step with the cluster.

This directory holds TLA+ models of the parts of that system whose correctness
depends on interleavings, lost replies and restarts, the TLC runs that check
them, and proofs of the properties that matter most. File and line references
are to the repository, the root of which is called `src/` in `PROJECT.json`.

## Inventory

Every component, with its state, its operations, what makes it hard and what
makes it correct. "Model" names the module that has it.

| Component | State | Operations | Hard part | Correct when | Model |
|---|---|---|---|---|---|
| SSE hub `server/ssehub.go` | one active stream per key; a stream's `closed` | Open (409 on conflict), Send, Close, WaitIdle | Close is two critical sections | one turn per session; a stream removes only itself | `SseHub` |
| Chat turns `server/handlers.go`, `live.go`, `attach.go`, `abort.go`, `gateway.go` | registered live turn, its run id and outcome; each request's locals | POST messages, GET turn, GET turn/events, POST abort | lost replies, frames of other runs, an abort that overtakes its message | a Stop's 200 is true; only the named run is stopped; a turn reports its own run; a turn ends without its client | `SessionTurns` |
| OpenClaw gateway (external) | runs, parked decisions, events and frames on the wire | sessions.send, chat.abort, agent.wait, question and approval calls | one run at a time, promotion of queued ones | assumed | `OpenClawGateway` |
| Approval channel `server/approvals.go`, `settle.go` | a reservation per decision being written | decision endpoint, relay of broadcasts, a Stop's settling | decisions of several tabs against a Stop, lost replies, restarts | ledger and card tell the decision that was taken | `Approvals` |
| Task scheduler `scheduler/scheduler.go`, `runner/runner.go`, `schedule/cron.go` | Task annotations and status, TaskRuns | Reconcile, fire, run and toggle endpoints | stale cache, patches that fail, crash during a turn | a report is final; an outcome names its run; a manual run is acted on | `Scheduler` |
| Exec policy push `server/approvals.go` (PreTurn), `allowlist` | applied revision per user, the list on the gateway | resolve, compare, read, compare-and-set, remember | a policy resolved before another and written after it; lost replies | no turn runs on a policy that was not written | `ExecPolicy` |
| Grants `grants/grants.go` | one ConfigMap per user | Add, Remove, evict | optimistic concurrency with retry | no grant is lost | `ExecPolicy` |
| Connection pool `server/gateway.go` | per-user entry, a capacity-1 dialling channel | gatewayFor, markConnected, liveConn | the entry is replaced under a lock that a dial holds for 30 s | one live client; the lock comes back | `ExecPolicy` |
| WebSocket client `openclaw/ws/client.go` | pending calls, write token, one channel per call | Call, readPump, failAllPending | a timeout, a late reply and the end of the connection | every call returns, with its own reply or an error | `WsCalls` |
| Live projector `server/livetools.go`, `openclaw/events.go` | tool cards, narration blocks | feed, finalizeAll | three streams about one call, an observer that joins late | one card per call and one result, the richest | `ToolProjector` |
| Model catalogue `server/handlers_llms.go`, `handlers_platform.go`, `controller/openclawconfig_controller.go`, `gateway/render.go`, `resolver` | template, credential Secrets, selections, rendered config | add, edit, delete a provider; select a model; render; resolve | template and Secret are two writes; edits against selections | a selected model is not taken away; a config allows its primary | `LlmProviders` |
| Supervisor `supervisor/supervisor.go`, `pairing.go` | last config, keys.json, openclaw.json, the gateway child | Run: poll, sync, refresh, respawn, pair | partial failures, restarts, an agent that edits the same files | keys are whole, the pod follows the catalogue | `Supervisor` |
| Skills `skill`, `server/skillrepo`, supervisor's `syncSkills` | tars by version, Skill resources, workspace directories | publish, seed, switch, sync | two publishes of a version; a crash between two renames | what is vouched for has its digest; the workspace follows | `SkillDelivery` |
| Agent controller `controller/agentinstance_controller.go` | finalizer, volume, pod, status | Reconcile, ensurePVC, ensurePod, revokeLastIdentity | reads that are stale when it writes; a bootstrap that undoes its work | only a failed or outdated pod of its own is ended; everything settles | `AgentInstances` |
| Builtin bootstrap `controller/builtin.go` | account, bindings, token, kubeconfig of a user | mint, prune | nothing orders it with the agent controller | the identity is whole, or gone with the last instance | `AgentInstances` |
| Instance manager `instances/manager.go` | none | EnsureFor, wait warm, wait reachable | — | — | its creation in `AgentInstances` |
| Questions `server/questions.go` | route of each pending question | relay, answer, cancel, list | answer against expiry and Stop | a question is settled once, by its own session | partly in `SessionTurns` |
| Session delete `server/sessiondelete.go` | none | delete at the gateway, wait for the hub | a stream that outlives its session | 200 only when nothing streams | not modelled |
| Audit store | one file | append | pure I/O | — | its content in `Approvals` |
| Kubernetes helpers, API types, wiring, metrics, logging | none | — | — | — | not modelled |
| Web client `web/src` | the chat view's cards | fold of SSE events | a card closed by the wrong event | a closed card tells what happened | its cards in `Approvals` |

How they interact. A chat request opens the one stream of its session in the
hub, waits for the agent instance, pushes the exec policy, takes the user's
connection from the pool, registers a live turn, subscribes, sends the message,
and then waits for a terminal frame (routed by the connection's event callback),
for `agent.wait`, for the connection to drop, or for its client to leave. A
decision is posted on a second HTTP request and goes straight to the gateway. A
Stop is a third request; it shares with the first one only the hub, the live
turn and the gateway. The operator's scheduler sends the same messages through
`RunTask`, from another process.

`PROJECT.json` lists under `hazards` where each of these is hard to test, at its
line, and which property watches over it.

## Modules

    SseHub   OpenClawGateway   TurnPromise     ApprovalLedger
          \       |       . '                       .
           SessionTurns                         Approvals          Scheduler
            /        \                           /     \            /     \
 MCSessionTurns  ...Proofs  MCApprovals  ...Proofs  MCScheduler  ...Proofs

    LlmProviders                                   GrantList
         |                                             .
     Supervisor   SkillDelivery  AgentInstances    ExecPolicy  WsCalls  ToolProjector
         |      \       |        /       \              \         |        /
 SupervisorProofs  MCPlatform     PlatformProofs          MCChannel
                                             ExecPolicyProofs, WsCallsProofs,
                                             ToolProjectorProofs

A dotted line leads from an abstract specification to the module that is shown to
implement it, by TLC on the instance of a run and by a proof for every instance:
`TurnPromise`, `ApprovalLedger` and `GrantList` say what a user is promised and
nothing of how.

`Supervisor` composes with `LlmProviders`: the pod polls what the admins edit and
the operator renders. The other parts of `MCPlatform` and of `MCChannel` share no
state in the code that their models keep, so a behaviour of these two modules
chooses one part, in the variable `part`, and runs it alone: the state space is
the sum of the parts and not their product. Each part has its own fairness, and a
temporal property of a part is stated where that part runs.

### SseHub, OpenClawGateway and SessionTurns

`SseHub` is `Hub.active` for one key and the set of streams whose `closedCh` is
closed. `Open` is `Hub.Open`, `MarkClosed` and `Remove` are the two critical
sections of `Stream.Close`. Keys are independent in the hub.

`OpenClawGateway` is external: the runs of one session (`new`, `queued`,
`running`, `over`), the decision each run is parked on, whether the WebSocket is
up and subscribed, the terminal frames on their way (`events`) and the frames
whose senders gave up but which may still be handled (`wire`). It contains
nothing the platform's code does not rely on: one run at a time
(`sessions.send` to a busy session is queued and promoted), a scoped
`chat.abort`, replies behind the events sent before them.

`SessionTurns` composes the two. Requests are processes with a program counter:

| Request | Steps (pc) | Code |
|---|---|---|
| POST messages | open, prepare, arm, subscribe, send, await, release, say, close, remove | `handleMessages`, `RunLiveTurn`, `registerLive`, `releaseLive`, `Stream.Close` |
| GET turn/events | gate, open, prepare, arm, subscribe, revalidate, observe, release, ... | `handleSessionStream`, `AttachLiveTurn`, `parkedTurn` |
| POST abort | target, abort, reconcile, settle, cancel, wait, recheck, confirm | `handleAbort`, `abortLanded`, `settlePendingForSession`, `waitSessionIdle` |

A step ends where the code waits or leaves a critical section. Of its data only
what the properties tell apart is kept: a post is also the run id it generates
(`Posts \subseteq Runs`), a terminal frame is the run it belongs to. An RPC that
succeeds has its effect and its answer in one step, which is sound because the
caller does nothing in between and the effect is atomic at the gateway; an RPC
that fails may have had its effect, may have none, or leaves its frame on
`wire`. Two reads of the gateway are taken as one where the code makes them back
to back and combines them: questions and approvals in `parkedTurn`. A client may
leave at every wait.

The exec policy push and the instance wait, which come before the turn is
registered and touch nothing of the session, are inside `Prepare`.

`TurnPromise` is what the user is promised, with no hub, wire or connection in it:
a message meets one fate (`completed`, `error`, `stopped`, or `never` when it was
refused or lost before the gateway had it); it is only stopped when a Stop is about
it; a stream reports once, and besides an error only the fate of a run that it is
about; a Stop that is answered well has stopped what it is about for good. The
mapping is at the end of `SessionTurns`: `Life` reads a run's fate off the
gateway's state and the wire, `said` is the report, the Stop's program counter its
answer.

### Approvals and ApprovalLedger

One session's approvals: the gateway's records (external), the platform's
`inflight` reservations (`ApprovalService.reserve`, `release`, `deciding`), the
requests that decide them (`Resolve`: reserve, verify, write, publish, record,
release), the Stops that capture and settle them (`handleAbort`,
`settlePendingForSession`), the relay of the gateway's broadcasts
(`RelayRequested`, `relayApprovalResolved`) and the card that the web client
shows (`useChatThread.ts`). `Restart` is the API process going away: requests,
reservations and streams with it. The loss of the WebSocket (`Drop`) takes the
broadcasts with it. What a card shows is part of the model because a card that a
Stop closes with "stopped" while a decision is honoured is the race that
`deciding` exists for.

`ApprovalLedger` is the abstract promise: per approval, somebody's decision is
honoured at most once and the ledger is then given that decision, and never
another. `Approvals` is checked to implement it under the mapping at its end
(`LedgerKept`).

### Scheduler

One Task and the one worker that reconciles it. `Begin` reads any version that
the cache holds (`Sync` brings the cache up to date); `Fire`, `CreateRun`,
`MarkRunning`, `NameRun`, `EndTurn`, `Report`, `RecordOutcome` are
`scheduler.go`'s `fire`, one step per API call; `MarkSkipped` and `RecordSkip`
are `recordSkippedRun`; `Clear` is the patch that takes the annotation off.
`StatusPatch` is `client.MergeFrom`: a patch holds only the fields in which the
local object differs from the baseline. A patch that fails may have been applied,
and its error is only logged. Seconds name TaskRuns, as `NewTaskRun` does. `Crash`
is the operator restarting, between any two calls. `RequestRun` and `Toggle` are
the two endpoints that write the Task.

### ExecPolicy

The path of the policy that asks before a command runs. `BeginAdd`,
`PutApproval`, `ReadGrants` and `WriteGrants` are requests that change it:
`grants.Add` and `Remove` read the ConfigMap, write it under its resource version
and start again on a conflict, a bounded number of times. The list keeps when each
rule was granted (`CreatedAt`): `evict` drops one of the oldest beyond the cap, and an
Add whose clock was read before all of the others is refused (`Displaced`), since it
would evict itself. Clocks of `Times` may go back or stand. A turn is `Resolve`
and `ListGrants` (`PreTurn`'s effective policy, from two reads), `Reuse`, `Lock`, `Enter`, `Connect`, `NotPaired`
(`gatewayFor`, `conn` and the pairing retries), `Check`, `GetPolicy`, `SetPolicy`,
`Mark` (`applyPolicy`, its rounds and the remembered revision), and `EndTurn`. The
context of a caller may end while it queues (`LeaveQueue`); a dial may fail
(`DialFails`); a set may be lost, or only its reply. `Approve` is the supervisor
of the pod. A revision is the policy itself: the fingerprint is taken to be
injective. A turn that dials connects the client it has made (`turn[t].client`), and
not whatever the pool's entry is by then; that the two are the same is proved.

`GrantList` is the store as the requests should see it: one rule is added or taken out
of the list as it is at that moment, an entry keeps its age, only the oldest go, and
only when the cap is reached, and what was reported as stored goes in no other way.
`GrantsAtomic` is the refinement.

### WsCalls

The calls on one connection. `Register`, `Acquire`, the write and the wait with
its three ends are `Client.Call`; the pump's steps are `readPump`, the delivery
out of the table, and `failAllPending` at the end. A call takes its number from
`nextID`; a reply bears the number of the call that the gateway answers, so that a
reply in the wrong hands can be told. The channel of a call holds one frame.

### ToolProjector

The fold of the live frames into cards. After its start, what the gateway says of a call
comes on three streams in any order between them (`Sends`): the result may come before
or after the end of the output, and that may carry the output or not (`EndFrames`). `Start`,
`Output`, `ToolResult` and `OutputEnd` are the projector's handlers of the three streams,
`Terminal` is `finalizeAll`, `Attach` an observer that joins in mid-run. Of an output only its origin is kept
(full, partial, stand-in, summary, result, none): `Best` is the reference definition of the
richest one that was heard.

### LlmProviders and Supervisor

An admin's request is a process: the list of the instances that select what it
drops, the template's `Update` under its version, then the Secret. A user's
selection is checked first and stored afterwards. `RenderRead` and `RenderWrite`
are the operator's reconcile of the gateway config. `PersonalConfig` is what the
internal API serves, with the user's selection as primary.

`Supervisor` is `Run`: the boot loop until one round has polled and fetched a
config, the keys, the child, and then tick by tick `respawn`, `poll`,
`syncCredentials`, `refreshGatewayConfig` and `ensureDevicePaired`. A selection that
cannot be read leaves the shared config with its own primary in openclaw.json
(`WriteShared`). The agent may
rewrite openclaw.json, the child may exit, the container or the whole pod may
restart.

### SkillDelivery

A publish resolves a version, writes the tar and then updates the Skill resource
under its version; the seed of the presets is one that is tried again. The
supervisor's sync prunes, verifies, fetches, and installs by two renames, each a
step; each may fail and ends the sync, and a crash may fall between any two. The agent writes, removes and unmarks
directories at any time.

### AgentInstances

The instance controller's pass (`step` in `pass`) and the bootstrap's (`boot`), on
the objects of one user. A read and the write that rests on it are different
steps. The uid of an instance counts the creations; other identities that nothing
refers to are forgotten: `Fresh` gives a pod's uid or a resource version that nothing
which is compared with it has. That keeps the state space finite and is what uniqueness
means for those that look. `FillToken`, `DropToken`, `Collect` and `PodStops` are
Kubernetes.

`queue` is the controller's work queue. `Turn` takes an instance out; `Event` is what
`SetupWithManager` watches and puts one in, also while a pass on it goes on; a pass that
returns an error or a requeue puts it back. The paths of `Reconcile` that report in the
status and return no error (`Refuses`, and the second case of `PassFails`) do not:
there the instance waits for an event, of which the status that has just changed is one.

## What the runs check

| Run | Instance | Shows |
|---|---|---|
| `session_turns` | 2 posts, 1 attach, 1 Stop | `TypeOK`; `LiveTurnHoldsStream`; `PromiseKept` (refinement); `OnlyNamedRunsAreStopped`; `SettleOnProof` |
| `session_turns_live` | 1 post, 1 Stop, 1 outside run, 1 lost connection, fairness | `TurnEnds`, `StopIsAnswered`, and `StopProven` through the connection loss |
| `approvals` | 1 approval, 2 decisions, 1 Stop, restarts, fairness | `DecisionsSerialized`; `ClosedCardIsSettled`; `CardTellsTheDecision`; `LedgerKept` (refinement); `StopSparesDecisions`; `ReservationEnds` |
| `scheduler` | 2 seconds, a cron that fires every second, 1 edit, 1 crash, fairness | `ReportsAreFinal`; `OutcomeNamesItsRun`; `SkipIsRecorded`; `LastRunAdvances`; `RequestIsActedOn` |
| `platform` | 2 providers, 2 models, 1 admin request, 1 fault; 2 skills, 2 contents, an upload and the seed, 2 upsets; 2 instance names, 2 creations, 1 mishap; fairness | `BootsConfigured`; `SelectionSpared`; `KeysStayWhole`; `KeysDelivered`; `PodRunFollows`; `VouchedContent`; `Fetchable`; `SkillsRunFollow`; `PodsSpared`; `OwnData`; `InstancesRunSettle` |
| `channel` | 3 edits of 2 rules with a cap of 1; 2 turns beside 1 edit, 1 break; 2 callers, 3 calls; one tool call of each kind; fairness | `GrantsAtomic` (refinement); `OneClient`; `AppliedIsKnown`; `TurnDecided`; `OwnReply`; `NoneLeaks`; `CallsEnd`; `CardsPair`; `RichestWins`; `BlocksApart` |
| `settle_after_proof` | finding 1 | `SettleSparesLiveRuns` is violated |
| `attach_stale_run` | finding 2 | `AttachStillParked` is violated |
| `unarmed_turn` | finding 3 | `OwnOutcome` is violated when an unsubscribe is lost |
| `approval_ledger` | finding 4 | `DecisionsAreRecorded` is violated |
| `manual_run_once` | finding 5 | `ManualRunFiresOnce` is violated |
| `policy_revoked` | finding 6 | `RevokedIsGone` is violated |

`OwnOutcome` and `GrantsKept` are consequences of the refinements `PromiseKept` and
`GrantsAtomic` and are no properties of a run of their own; like the type invariants of
`Approvals`, `Scheduler` and `LlmProviders` they are theorems.

Each property is preceded in its module by a statement in words. `PROJECT.json`
has, for each property of a passing run, a mutant: a plausible bug in a mapped
definition that the same run finds.

### Bounds and why they are enough

* Two posts are what it takes for one run to be promoted, or started, in place of
  another; an attach adds the third kind of reader of the live turn; the Stop is
  the only actor whose claims are checked, and two Stops do not interact except
  through the runs (the theorems cover any number). `Posts`, `Attaches` and
  `Stops` are symmetric sets in the safety run; no symmetry is used with
  liveness.
* `MaxDrops` is 1 in the liveness run and 0 in the safety run. The theorems hold
  for every value.
* `LossyUnsubscribe` separates what holds when the best-effort unsubscribe of
  `releaseLive` is delivered from finding 3. It is a parameter of the model and
  not a property of the network: `PromiseKept` is checked under `FALSE`, and the run
  `unarmed_turn` shows what happens to `OwnOutcome` under `TRUE`. Only the theorems
  on these two assume that it is `FALSE`; the others hold for both.
* Approvals do not share state except that a run's end withdraws all of them, so
  one approval with two deciders and a Stop shows every race of the reservation.
  The theorems cover any number of each.
* Two seconds with `Period = 1` let the cron and a manual run meet in one second
  (they compete for one TaskRun name) and in different ones; `Period = 2` leaves
  the manual run alone. One crash may fall between any two calls of a fire, and
  the next fire then meets what it left behind. `MaxEdits` bounds the user's
  actions: one is enough for every property of the run; two were checked for
  safety.

* `platform`: the second provider is what can be added, and what is left to render
  when the bundled one goes; the models are alike, so the bundled provider begins
  with `m1` (`PlatformInit`). One fault, upset or mishap at any call is one failure
  of each kind at each place; two upsets in the skills part are a crash and an
  interference. Instances (`InstancesBound`): the mishap falls before the last
  creation, and a second name is used only beside a first that serves already, in
  behaviours without a mishap; one name, deleted and created again while the passes
  go on, is where the two controllers meet each other's work. `CHECK_DEADLOCK` is
  off because requests are bounded.
* `channel`: a cap of one grant makes every second grant evict; three edits let two
  conflict with a third. Two readings of the clock put any two grants in either order
  or at one instant. Two turns are what it takes to resolve two policies and to
  compete for one dial, `Beside` has the edits that run next to them, and three
  calls let a reply be late for one call while the next one of the same caller
  waits. The proofs need none of these bounds.

### Fairness

* `SessionTurns`: handlers, posts and Stops keep running (goroutines are
  scheduled, every RPC is bounded by a context); frames that were delivered are
  routed; what is on `wire` is handled while the connection is up. Strong fairness
  of `GiveUpWaiting` is the deadline of `abortSettleTimeout`: it keeps passing
  while the wait goes around. Not assumed: that a client leaves, that a run ends,
  that the connection drops.
* `Approvals`: weak fairness of each decision's steps alone, for the same reason;
  a Stop, the gateway and the relay are assumed nothing of.
* `Scheduler`: the worker runs, the watch delivers, and a clearing patch that is
  tried again and again is at some time taken (strong, because a retry is a new
  attempt, not a continuous one). The turn itself has no deadline in the code, so
  none is assumed: `RequestIsActedOn` promises that a manual run *reaches* a turn
  or is taken off the Task, never that the turn ends.

* `LlmProviders` and `Supervisor`: requests that have begun go on, the operator
  reconciles until what it renders is stored, `Run` is a loop with a ticker. Not
  assumed: that anybody edits, that faults occur or cease; they are bounded.
* `SkillDelivery`: the supervisor polls for ever, publish requests run to their end.
  No fairness of the seed's first step: what is published is up to the requests.
* `AgentInstances`: an instance that is in the queue gets its turn (strong, since one
  worker serves them all), and a pass that has begun goes on; nothing is assumed of an
  instance that is not in the queue, and the resync of the cache is left out, so what
  brings it back is the events that the controller watches. The bootstrap runs every
  five minutes. Kubernetes fills tokens, stops pods and collects orphans. A pod that
  fails may stay so. With one mishap, as the run has it, an error is reported once, and
  the status it changes is the event that retries it. The same error reported twice in a
  row changes nothing the second time, and then only another event or the resync, hours
  later, brings the instance back.
* `ExecPolicy`: a turn that has begun goes on, and the queue for the dial is served
  in some order (strong fairness of `Enter`: the token is a channel of capacity one
  and Go serves its receivers in order). The supervisor approves the device.
* `WsCalls`: the pump and the callers run; the write token is served in some order.
  Contexts are not assumed to end: a call returns when the connection has died.

## What is proved

For every value of the constants, from the assumptions named in the modules. TLC
evaluates each assumption in the runs of its component.

| Theorem | States |
|---|---|
| `SessionTurnsProofs!TypeCorrect` | `Spec => []TypeOK` |
| `SessionTurnsProofs!LiveTurnCorrect` | `Spec => []LiveTurnHoldsStream` |
| `SessionTurnsProofs!StopProvenCorrect` | `Spec => []StopProven` |
| `SessionTurnsProofs!OnlyNamedRunsCorrect` | `Spec => OnlyNamedRunsAreStopped` |
| `SessionTurnsProofs!SettleOnProofCorrect` | `Spec => SettleOnProof` |
| `SessionTurnsProofs!OwnOutcomeCorrect` | `~LossyUnsubscribe /\ Spec => []OwnOutcome` |
| `SessionTurnsProofs!PromiseKeptCorrect` | `~LossyUnsubscribe /\ Spec => PromiseKept`, the refinement of `TurnPromise` |
| `ApprovalsProofs!ApprovalsTypeCorrect` | `Spec => []TypeOK` |
| `ApprovalsProofs!DecisionsSerializedCorrect` | `Spec => []DecisionsSerialized` |
| `ApprovalsProofs!ClosedCardCorrect` | `Spec => []ClosedCardIsSettled` |
| `ApprovalsProofs!CardCorrect` | `Spec => []CardTellsTheDecision` |
| `ApprovalsProofs!StopSparesCorrect` | `Spec => StopSparesDecisions` |
| `ApprovalsProofs!LedgerKeptCorrect` | `Spec => LedgerKept`, the refinement of `ApprovalLedger` |
| `SchedulerProofs!SchedulerTypeCorrect` | `Spec => []TypeOK` |
| `SchedulerProofs!ReportsAreFinalCorrect` | `Spec => ReportsAreFinal` |
| `SchedulerProofs!OutcomeNamesItsRunCorrect` | `Spec => OutcomeNamesItsRun` |
| `SchedulerProofs!SkipIsRecordedCorrect` | `Spec => SkipIsRecorded` |
| `SchedulerProofs!LastRunAdvancesCorrect` | `Spec => LastRunAdvances` |
| `SupervisorProofs!CatalogTypeCorrect` | `Spec => []CatalogTypeOK` |
| `SupervisorProofs!BootsConfiguredCorrect` | `Spec => []BootsConfigured` |
| `SupervisorProofs!KeysStayWholeCorrect` | `Spec => KeysStayWhole` |
| `SupervisorProofs!SelectionSparedCorrect` | `Spec => SelectionSpared` |
| `SupervisorProofs!KeysDeliveredCorrect` | `Spec => KeysDelivered` |
| `ExecPolicyProofs!OneClientCorrect` | `ExecSpec => []OneClient` |
| `ExecPolicyProofs!AppliedIsKnownCorrect` | `ExecSpec => []AppliedIsKnown` |
| `ExecPolicyProofs!GrantsKeptCorrect` | `ExecSpec => []GrantsKept` |
| `ExecPolicyProofs!GrantsAtomicCorrect` | `ExecSpec => GrantsAtomic`, the refinement of `GrantList` |
| `WsCallsProofs!OwnReplyCorrect` | `CallSpec => []OwnReply` |
| `WsCallsProofs!NoneLeaksCorrect` | `CallSpec => []NoneLeaks` |
| `ToolProjectorProofs!CardsPairCorrect` | `ToolSpec => []CardsPair` |
| `ToolProjectorProofs!RichestWinsCorrect` | `ToolSpec => []RichestWins` |
| `ToolProjectorProofs!BlocksApartCorrect` | `ToolSpec => []BlocksApart` |
| `PlatformProofs!VouchedContentCorrect` | `SkillSpec => []VouchedContent` |
| `PlatformProofs!FetchableCorrect` | `SkillSpec => []Fetchable` |
| `PlatformProofs!PodsSparedCorrect` | `InstanceSpec => PodsSpared` |
| `PlatformProofs!OwnDataCorrect` | `InstanceSpec => []OwnData` |

Assumed: `HandlersAssumption` (`None` is no handler), `ProcessesAssumption` (posts,
attaches and Stops are different requests, outside runs are not posts, `None` is
no run), `BoundsAssumption`, `RequestsAssumption` (decisions and Stops are
different requests), `TimeAssumption` (the period is positive), `CatalogAssumption`,
`EditedAssumption` and `KeysAssumption` (`None`, the installed key and an edited file
are no records of the catalogue, and `None` no content of keys.json), `SkillAssumption`,
`ExecAssumption` (cap, attempts and retries are positive, clocks are numbers, `Absent`
is no policy and no turn), `CallAssumption` (the marks are distinct and no numbers),
`ToolAssumption` (a call is of one kind), `InstanceAssumption` (the instances are
finitely many, `Missing` is no number and no instance). Beyond these, which say no more than that
names are different and bounds are numbers, two theorems assume `~LossyUnsubscribe`; finding 3 shows that
they are false without it.

### The argument for SessionTurns

None of the properties is inductive by itself.

* `LiveTurnHoldsStream` follows from `SlotInv`: a handler between `open` and the
  removal of its stream holds the slot, a closed stream is one that is leaving,
  and the registered turn is that of a handler between registration and release.
* `StopProven` needs what a Stop knows of the run it named to grow with its
  steps. When it names the run, the run has begun, or its post is past
  registration and holds the slot, or has ended (`Nameable`). Once the hub was
  seen idle, that post has ended (`Left`). Once the gateway then answers "not
  busy", with nothing left on the wire, the run is over or never starts
  (`Settled`). `NameInv` states this per program counter, with what a handler's
  run id can be; `RunInv` states what the gateway keeps: at most one run in
  flight, nothing queued in an idle session, no question of a run that did not
  begin. The lemma `NamedStay` shows that no step of anybody else takes this
  knowledge back: this is where a late frame and an outside run are dealt with.
* `OnlyNamedRunsAreStopped` needs `AimInv`: a Stop names its run once, and an
  abort on the wire carries a run that a Stop named.
* `SettleOnProof` follows from `RunInv` and `AimInv`, one action at a time.
* `OwnOutcome` needs to know whose frames may be in `events`. `StreamInv`: while the
  platform is subscribed, or a frame is on its way, the stream that holds the slot is
  the one that subscribed; this is where a lost unsubscribe would break it. `Armed`:
  a registered handler is the live turn, and from before it subscribes it has the run
  it expects, so that a frame it accepts is of that run. `Truthful`: what a turn has
  seen, will report and has told are the ending of a run that it is about.
* `PromiseKept` is `OutcomeInv` (the three above and `Awaited`) taken step by step. A
  run that is over stays as it ended, a message that never runs is nowhere on the
  wire, and `Awaited` has that a turn which finds its run over by `agent.wait` has
  seen its terminal frame or will; so what it reports is the fate, also where a frame
  and the backstop race. Each of the 30-odd steps is then one step of `TurnPromise`
  or leaves all four of its variables alone.

### The argument for Approvals

`Inv` is the conjunction of `HoldInv` (a decision that is being written holds the
reservation, of an approval that was raised), `AnswerInv` (an answer of 404 or 409
is about an approval that ended; a decision that is about to be told is the one
the gateway has), `LedgerInv`, `NewsInv` (each broadcast on its way tells the
truth about its approval), `CardTellsTheDecision` and `AimInv` (a settling Stop
comes after the run, when nothing is pending, and aims at no decision that is
about to be told). All rest on `FinalStays`: an approval that ended stays as it
ended, whatever arrives late. The refinement maps `status` and `ledger` to
themselves; a second record of the same decision is a stutter.

### The argument for Scheduler

`RunInv` has the TaskRun of the worker unreported until its report, and a skip
recorded before the Task is told. `CreatedInv` says that no version of the Task,
fresh, stale or local, names a TaskRun that is still to be created, so a run that
has just been created is named by none; hence `NameInv`: from the start of the
turn the local object names the run and the baseline does not, and the merge
patch of the outcome carries the name even when the first patch was lost.
`LastRunAdvances` needs `LastInv` (the Task's last run is not in the future) and that a
patch either leaves the field alone, because object and baseline are of one version,
or writes the present time; the mutant that writes the whole status shows that the
merge patch is what it rests on.

### The argument for the catalogue and the supervisor

`CatalogInv` is the type, `RequestInv` and `RenderInv`. `Covered` is what makes
`SelectionSpared` inductive: as long as the template has the version that a request
read, the request has listed all that its write would take away; so a write that
passes the version check and still takes away the selected model was preceded by a
list that did not see it. `RenderInv` says that a rendered config allows its own
primary; `PodInv` carries this into the pod, where the personal primary is written
in only when the rendered config allows it. `KeysStayWhole` follows from one action,
`SyncCredentials`, and from every other one leaving keys.json alone outside the boot.
`KeysDelivered` needs `Remembered`: what the supervisor remembers to have written, if
anything, is what the file has, so a sync that compares with its memory and writes
nothing leaves the right file.

### The argument for ExecPolicy

`DialInv`: what is connected is the pool's entry, and a turn that dials holds the lock
and has the client that the entry is, while nothing is connected; so the dial that
succeeds connects the one client. `StoreInv` has the list within the cap and a snapshot
of every request that is about to write: it is the list still, or its resource version
is behind; and a rule that is to be removed is in it. `GrantsKept` and the refinement of
`GrantList` both follow: a write that passes the version check is applied to the list as
it is, and the lemmas on `Evicted` say that what an eviction leaves is the list without
one of the oldest. `AppliedInv` says that a turn past the set has its policy among those
written, and so has the memory.

### The argument for WsCalls

`Channel` says of every id whose it is: it is in the table under a caller that has it
and is on its way; or something is in its channel, and that is its own reply or the
reason of the failure. `Waits` says it of every caller; its last part is the one that
matters at the end of a connection: who waits after the pump has failed everybody is
not in the table, because it wrote its frame while the socket was open. `Pump` ties
the reply in the pump's hands to an entry that is gone from the table.

### The argument for ToolProjector

`Shown` ties the cards to the folding state of the call, `Folded` ties the folding
state to the frames that were heard until the result is out, `AllOut` says that
nothing is open after the terminal frame, and `BlockInv` that a block number that
narration has used stands for one set of started calls.

### The argument for skills and instances

`SkillInv`: from the staging on, what is staged has the digest that the sync wants,
and the sync does not change its mind; nothing is assumed of the repository, so a
tar that was replaced makes a sync fail and no more. `RepoInv`, for `Fetchable`: a
publish that goes on to its Skill resource has a version that the repository holds, and
the repository only grows (`RepoGrows`). The version that a publish resolves is the
smallest with its content, or the next; that a set of versions has a smallest one is
`MinIsIn`, from the well-foundedness of the naturals.

`InstanceInv`: a pass on its way to the pod has the current kubeconfig, or one that
was replaced since, and then no pod has the current one (`Outdated`); hence the pod
that a pass is about to replace is its own and not current, unless it is gone or
another one has its name (`ToReplace`), and the one it is about to heal had failed
(`ToHeal`). Both rest on uids and resource versions being new when they are given
out: `NewPodUidIsNew` and `NewRevIsNew` prove it of `Fresh`, by counting. `DataInv`, for
`OwnData`: the instance that a pass provisions is still the one it read, because its
finalizer holds it until the pass that ends it (`Tended`); a pass that is at the pod has
found or made the volume of that instance (`Backed`); and a volume with an owner whose
finalizer holds it is not collected, so it stays under the pod.

### What is only model-checked

Every safety invariant and every action property of the passing runs is a theorem, and
so are the three refinements. Liveness is out of the prover's reach (it needs fairness,
and with it ENABLED) and is model-checked only: `TurnEnds`, `StopIsAnswered`,
`ReservationEnds`, `RequestIsActedOn`, `PodRunFollows`, `SkillsRunFollow`,
`InstancesRunSettle`, `TurnDecided`, `CallsEnd`.

## Findings

1. **A settle can cancel the question of a live run** (`settle.go:104`).
   `abort.go:89` states "Invariant: never settle a session whose run is still in
   flight." The Stop proves that its run is gone and only afterwards lists the
   session's pending questions; a run that was promoted in between and parks has
   its question cancelled. The approvals half of the settle does not have this,
   because approvals are captured before the abort.
2. **An attach can wait for a frame that is gone** (`attach.go:95`). The
   revalidation discards the run id and passes on any parked run.
3. **A turn is registered before it has its run id** (`live.go:190`). Until
   `setRunID` it accepts every run, against `live.go:195`. It takes a lost
   unsubscribe of the previous turn.
4. **A decision whose reply is lost never reaches the ledger**
   (`approvals.go:234`); the retry is answered 404.
5. **A manual run can fire twice** (`scheduler.go:62`): the annotation's value is
   documented as an idempotency key and is never compared.
6. **A revoked rule can stay at the gateway** (`approvals.go:575`). Two turns that
   resolved the policy before and after a revocation can write it in one order and
   remember it in the other; the gateway then keeps the older list and no later
   turn writes the newer one, which counts as applied. `approvals.go:630` has it
   that "a removed entry really disappears".

## Not modelled

Of the modelled parts: heartbeats, SSE framing and every non-terminal event of a
turn; audit and metrics output; wording of errors; template rendering, revisions and
the cron parser of a Task, whose occurrences are the multiples of `Period`; several
Tasks on one worker; the WebSocket handshake and its heartbeat; the assistant's text
of a live turn; builtin, template and hand-written rules of the allow list; AGENTS.md
and the instructions of the supervisor; the token bootstrap; the bytes of a skill and
their validation; the waiting of the instance manager, which only reads.

Where a model departs from the code on purpose:

* The Service of an instance is treated like its volume, and the template is taken
  to be there and supported; an unsupported one ends the pass without effect.
* A list of instances, of a kind or of the Secrets of one sync is read in one step.
* A status update of an instance is refused when the instance is another one by then
  (`Phase`); that it is also refused when only its version is another one makes a
  pass end and be called again, which `PassFails` has.
* The cached read of a credential Secret fails only when the Secret is missing, or
  by one of the faults.
* The empty resolved config, of a user without an instance, is left out: the pod
  belongs to an instance.
* The supervisor's poll is in two models: what it keeps of the credentials in
  `Supervisor`, the sync of the skills in `SkillDelivery`.
* `WriteSecret` deletes the Secret of a deleted provider. `removeProviderCredential`
  leaves one that is not named after the provider, which is that of the bundled
  installation; nothing that is modelled reads it then.
* A turn keeps the run id that it generated. The code takes the one in the reply to
  `sessions.send` when it is another (`live.go:208`); the gateway answers with the
  idempotency key it was given, which is the turn's own.
* keys.json has no writer but the supervisor.

Questions' routes and endpoints and the delete of a session are left for later:
their races with a Stop and with a stream are those that `SessionTurns` has. Pure
I/O (the audit file, tars, object builders), API types, metrics, logging and wiring
have no behaviour of their own to check.

## Plan

1. Abstract specifications, with their refinements, of the other parts that make a
   promise to somebody: a call of `WsCalls` (one answer, its own, or an error), the
   reports of a Task, the workspace as a function of what is published and enabled.
2. `Questions` (routes, answer, cancel) and session delete as processes of
   `SessionTurns`.
3. `Scheduler`: start time and revisions of a TaskRun, several Tasks on one worker.
4. The handshake and heartbeat of the WebSocket client, composed with the pool.
