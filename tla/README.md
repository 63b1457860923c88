# A verification project for ShareMTC

ShareMTC rents out compute: users create VMs and pods that live at DigitalOcean and RunPod for a
short lease, providers share the capacity of their own hosts through an agent, a handful of Go
services keep the books, and a React client shows it all. This directory holds TLA+ models of the parts where the services' steps
interleave, fail and race, the TLC configurations that check them on small instances, and proofs
that TLAPS checks for every value of the constants.

Paths below are relative to the repository; `RS` is
`services/resourceservice/internal/service/resource_service.go`, `RP` is
`services/resourceservice/internal/adapter/storage/postgres.go`, `PS` and `PP` are the files of the
same roles in `services/provisioningservice`; files of the client are named from
`services/frontend/src`.

## Inventory

| component | state it keeps | operations | talks to |
|---|---|---|---|
| compute lifecycle (resourceservice) | tables `vms`, `pod_instances` | CreateVM, CreatePod, StartVM, StopVM, RebootVM, TerminateVM, TerminatePod, ExpireResources (ticker, every 15 s, on each replica) | the bridge over HTTP, with a timeout |
| provisioning bridge (provisioningservice) | tables `provisioning_jobs`, `external_resources` | CreateVM, CreatePod, DeleteResource, RunTTLPass (ticker) | DigitalOcean (REST), RunPod (GraphQL) |
| create rate limit (resourceservice) | table `create_rate_limit_events` | ConsumeCreateRateLimit | called first by CreateVM and CreatePod |
| agent commands and terminals (resourceservice) | `agent_commands`, `terminal_sessions`, `terminal_chunks`, audit events | queue, claim, complete; create, write, resize, close, expire a session | polled by hostagent; ExpireTerminalSessions runs at the end of the expiry pass |
| host agent (hostagent) | the terminal processes it runs | polling loop: heartbeat, claim, execute, complete | resourceservice over HTTP |
| allocations (resourceservice) | `host_resources`, `allocations`, cgroup directories | UpdateHeartbeat, Allocate, Release | fed by the agent's heartbeats |
| shared offers (resourceservice) | `shared_inventory_offers`, shares of VMs and pods | upsert, reserve, share | users |
| Kubernetes clusters (resourceservice) | `kubernetes_clusters` | create, refresh, delete | the orchestrator adapter |
| telemetry ingest (resourceservice, vmdaemon) | health checks, metrics, logs | Kafka consumers with a reconnect loop | vmdaemon and agents produce |
| billing (billingservice) | plans, usage, accruals, rental orders | ProcessUsage, orders | users, providers |
| accounts, providers (authservice, adminservice) | users, providers | register, log in; catalog | users |
| web terminal (client: `features/rental/ServerRentalPanel.tsx`) | session on the screen, output, sequence number, input line | open, type, send, close; an effect polls for output every second | terminal sessions of resourceservice |
| web session and routing (client: `lib/auth.ts`, `lib/http.ts`, `app/`) | token and user in localStorage, which all tabs share; each tab's copy of what follows from them; section and URL | sign in by three forms or Google, sign out, navigate, every API call | authservice; storage events between tabs |
| web list panels (client: `features/`, `ui/`) | the lists shown, busy flags, open dialogs, selected provider | buttons, dialogs, effects on mount, timers of 15 s | all services |
| sdk, deployment, rest of the client | none of their own | | |

The creation of a VM crosses three components: the rate limit is consumed, a row is inserted in
`provisioning`, the bridge is called (it inserts a job, calls the provider, writes the job's result
and records the resource with its `expires_at`), `external_id` is stored, and the row becomes
`running`. **No step shares a transaction or a row lock with the next.** Two clean-up loops then
watch the same lease from both sides: `ExpireResources` in resourceservice, and `RunTTLPass` in the
bridge, each working from a snapshot of its own table.

What makes each component correct:

- **compute lifecycle**: a lease is honoured; an acknowledged creation is tracked, so that it can be
  deleted; an acknowledged termination really released the resource; a dead VM is not started
  again; what was put to use is released when its lease ends; the row follows the resource. Hard because
  handlers, expiry passes and the bridge's worker act on stale reads, calls can be lost, and
  replicas restart.
- **provisioning bridge**: a request creates one resource however often it is sent; what is
  recorded is what was created; nothing is deleted early; what is retired is gone; what is due is
  deleted in the end. Hard because jobs, resources and provider calls are separate steps, any of
  which fails.
- **rate limit**: in no minute does a user get more than the limit.
- **agent commands and terminals**: a command is handed to one poller and completed once; a closed
  session stays closed; a renter has a bounded number of sessions; input reaches the agent in the
  order of the transcript.
- **web terminal**: output is shown in order, without gaps or repetition, under the session it came
  from; a line goes to the session it was typed for. Hard because one screen serves sessions that
  change hands while polls, sends and closings are under way, and React renders what a handler set
  only after the handler's task.
- **web session**: every tab shows who is signed in; a session that ended does not come back; a
  valid one is not ended by accident; an expired one is noticed. Hard because tabs hear of each
  other late, and answers arrive for sessions that are no longer there.
- **web list panels**: a button that is disabled comes back; a form is not submitted twice; a list
  does not go back and comes up to date. Hard because click handlers, timers and effects share one
  `loading` flag and one list, and every handler waits for two or three calls.
- **allocations**: what is given away is at most what the host has; limits follow allocations.
- **shared offers**: reservations never exceed the offered quantity.
- **clusters**: a deleted cluster does not come back; a running one has a backend.
- **telemetry**: at-least-once delivery does not lose or double what is stored.
- **billing**: a usage has one accrual and the amounts add up.

`PROJECT.json` lists the hazards of this code line by line, each with the properties that would
catch it, or the module planned for it.

## The modules

| module | models | how |
|---|---|---|
| `Lease` | what renting promises about a cloud resource | abstract: up once, down once, only after the lease or on request |
| `ComputeLifecycle` | the handlers of RS 370-620, `ExpireResources`, the rows they touch, the cloud behind the bridge | one action per statement or call of a handler |
| `Provisioning` | the bridge: jobs, resources, provider calls, `RunTTLPass` | one action per statement or call |
| `CreateRateLimit` | `ConsumeCreateRateLimit` | clock, count and insertion as three steps |
| `AgentRelay` | terminal sessions and agent commands of RS 735-1049, the command loop of `services/hostagent/cmd/main.go` with `TerminalManager` | one action per statement, HTTP call or execution |
| `TerminalScreen` | what a terminal in the browser promises | abstract: cleared, or grown at its end by consecutive output of one session |
| `RentalTerminal` | the terminal of `ServerRentalPanel.tsx` 52-342, 472-503 | one action per handler part between two awaits, per timer, answer and render |
| `WebSession` | `lib/auth.ts`, `lib/http.ts`, `useSessionState`, `oauthCallback`, `useSectionRouting`, the sign-in forms | one action per event of a tab, answer, storage event |
| `ListPanel` | a panel with a list, for any table of buttons, flags, dialogs and handlers | one action per click, tick, answer of a handler |
| `PanelTable` | the sixteen panels of the client as such a table | one definition per handler and panel |
| `ClientPanels` | `ListPanel` for that table, and what only some panels promise | |
| `MC...` | symmetry of the interchangeable workers and passes, for TLC | |
| `..._proofs` | theorems about `ComputeLifecycle`, `Provisioning`, `CreateRateLimit`, `AgentRelay`, `ListPanel`, `ClientPanels`, `RentalTerminal` and `WebSession` | |

### ComputeLifecycle

`status` and `ref` are the columns `status` and `external_id` (filled in or not). `cloud` is the
provider's side. `req[w]` says which statement worker `w` is about to execute, for which instance,
and whether the row it read had an `external_id`; `sweep[s]` is the expiry pass of replica `s`: the
page of rows it listed and still has to visit, and the row whose deletion succeeded and which is to
be marked. `elapsed` is the clock: leases all have the same length, so they end in the order in
which instances are numbered, and the number of leases that have ended is the only thing any guard
needs to know about time. `asked`, `acked`, `freed` and `inTime` are history variables that only
properties read; `inTime` has the instances whose creating handler wrote `running` (a pod: `active`)
while the lease ran and before anybody asked for the termination.

The bridge is seen from outside: a creation or deletion succeeds, fails without an effect
(`refuse`), or fails although it took effect (`lost`: a timeout, a dropped connection). A repeated
deletion of a droplet fails with 404; of a pod it succeeds, because the RunPod client does not look
into a GraphQL answer (`graphql` is a refusal inside a 200). `storage` covers failing statements,
cancelled request contexts and restarts: a handler or a pass may end after any step, and the
dropped errors of `MarkVMExpired` and of the final reads are choices inside their actions. An
effect that arrives after it was reported as failed is modelled as arriving with the report.

### Provisioning

`job` and `row` are the two tables, `cloud` and `origin` the providers' side, `ttl[s]` the pass of
a TTL worker. A request id stands for a request of the caller with all its retries; two workers may
serve two copies of it. `Repeat` is the early return of CreateVM, CreatePod and DeleteResource for
an id that already has a job, and `Misses` the fall-through when that lookup *fails*. The TTL
worker's `FOR UPDATE SKIP LOCKED` is outside of any transaction, so its locks end with the
statement and passes overlap. `UniqueIndex` says whether
`(external_id, provider, resource_type)` has a unique index. In the repository it has not (neither
`Migrate` nor the SQL migration creates one), so `ON CONFLICT` fails; `bridge_cleanup` shows what
becomes of it, and `provisioning_faults`, whose failing statements include that one, has its
properties hold with and without the index. `BridgeRecords` is the same switch seen from
`ComputeLifecycle`. **With the repository's tables the bridge answers every creation with an error
after it took effect**: the row in resourceservice becomes `terminated` or `failed`, the resource
stays, `inTime` stays empty, and neither clean-up ever touches the resource. The theorems hold for
both values of `BridgeRecords`; the runs set it to TRUE, because with FALSE what they ask about
never begins.

### CreateRateLimit

`created` is the table, its rows in the order of their insertion. A request fixes the end of its
window before it counts, as the service does, and its row gets the database's time of the
insertion; in between other requests run and time passes.

### AgentRelay

`sess` and `typed` are the columns `status` and `last_input_seq` of `terminal_sessions`, `cmds` is
`agent_commands` in the order of `created_at`, `idle` the sessions whose `last_active_at` is past
the timeout. `req[w]` is a handler between two statements, `sweep[x]` the sessions an expiry pass
has expired and not yet told the agent, `agent[a]` where the agent's loop stands, `shells[a]` its
`TerminalManager.sessions`. `ran` is a history. The model has one provider and one renter, who
share nothing with others but the expiry pass.

`ClaimNextAgentCommand` is two steps, as its subselect takes no lock; a completion is two, the
command and then the session. A call that breaks (`CallLost`) may or may not have had its effect;
an effect that arrives later still is modelled as arriving with the break. A session does not go
idle while a request for it is being served: the timeout is ten minutes. The expiry statement is
atomic, and its LIMIT, which only spreads the work over passes, is left out.

`NullScans` says whether a NULL `acknowledged_at` can be read into the `time.Time` it is scanned
into. With the driver of `go.mod` (pgx v5) it cannot, so `CreateAgentCommand` inserts the row *and*
returns an error, and `ListAgentCommands`, which a completion calls, fails while any listed command
is queued. `relay_orderly` asks what the design does once the column is read properly
(`NullScans = TRUE`); in `relay_faults` the failing statements and lost calls include every failure
the code has now.

### RentalTerminal

`active` is the state variable `activeTerminalSessionID` as last *set*, `shown` as last *rendered*:
the setters of a handler that goes on after an `await` run in one task and are rendered in a later
one, `Render`, which also cleans up the polling effect of the session before and starts the next.
Until then the buttons and the effect belong to the old session. `poll[s]` is the request the
effect of session `s` waits for; an effect that was cleaned up has none, as its `cancelled` makes
the answer a no-op. Output is a sequence of chunks, each with its session and number; the cut to
`MAX_TERMINAL_OUTPUT_CHARS` is in whole chunks. `draft` says under which session the input line was
typed. `Leave` is the change to another panel, which unmounts this one. `slipped` is a history
variable: an answer to a poll, or a keystroke, fell between the task that changed sessions and its
`Render`. React leaves a gap of at most a few milliseconds there; in it output of the old session
can be appended to the new screen and move its sequence number, so `NothingSkipped` and
`InputReachesItsSession` are for behaviours in which nothing slips, and `ScreenSpec` for all of them.

### WebSession

`stored` is what localStorage holds, `tab[t]` what each tab makes of it (`isAuthenticated`, `role`,
`section`), `inbox` the tabs with a storage event under way, `calls` every request that waits for an
answer with the token it was sent with, `hash` the token in the URL of a tab that came back from
Google. Sections and forms are cut down to those a session can tell apart: a public one, a polling
one (`myCompute`) and the administrators'. `pane` is the sub-tab of `MyComputePanel`, which is lost
when the section is left or the tab signed out; of its three panels only the list of instances has a
timer, and the timer rests while the tab is hidden (`visible`), so `Polls` is less than the section.
Each sign-in gets a token of its own, so "the same
session" means the same token. `past` is a history.

### ListPanel, PanelTable, ClientPanels

The panels of the client are written one like the other: handlers that set a flag, make one or two
calls, load the list and clear the flag in a `finally`; buttons disabled by flags; a `Modal` opened
for a row; `useAutoRefresh`. `ListPanel` models that once, for any table that says of each handler
which flags disable its button (`off`), which it sets (`sets`), its calls, whether it lists
afterwards, and when it closes its dialog; `PanelTable` has a row per handler of the sixteen panels.
A task is a handler that waits: `at` its calls or at the list, `step` which of them, `since` the
state of the service at the time it asked. The list at the service is a version number; a handler
that lists afterwards changes it, as do other users (`OthersChange`), and an answer holds some
version between asking and answering. A panel can show up to three parts that one refresh loads one
after the other; of the five waits of the provider's dashboard, the one for all VMs' health checks
and the one for the runtime inventory, which no handler changes, only delay the others and are not
told apart. What is left out: validation (an empty form is no step), toasts, details drawers,
filters, the clipboard. `SettingsPanel` patches its list itself instead of loading it; its handlers
are `Asks`. A flag that is set is drawn before the next click (React flushes clicks at once). The
double effects of StrictMode exist in development only.

## What the runs check

| run | question | result |
|---|---|---|
| `lifecycle_faults` | a VM and a pod, two handlers, an expiry pass and the bridge's worker under every fault: `LeaseHonoured`, `AcknowledgedCreateIsTracked`, `AcknowledgedTerminateReleased`, `UsedInTimeIsReclaimable`, and the refinement `LeaseSpec` | holds |
| `lifecycle_cleanup` | two VMs and a pod, one handler, listings of one row, the bridge's worker, under fairness and without faults: `UsedInTimeIsReleased`, `PodStatusFollowsDeletion` | holds |
| `restart_race` | is a terminated VM ever started? | violated |
| `provisioning_faults` | two requests, each sent and repeated by two handlers, a deletion and a TTL worker under every fault: `OneResourcePerRequest`, `RecordedIsAcknowledged`, `DeletedOnlyWhenDue`, `RetiredIsGone` | holds |
| `bridge_cleanup` | one creation with the repository's tables and no fault: `EphemeralReaped` | violated |
| `ratelimit_overshoot` | three concurrent requests: `OvershootBounded` | holds |
| `relay_faults` | a session, two handlers, an expiry pass and an agent under every fault: `ExecutedOnceInOrder`, `InputIsAudited` | holds |
| `relay_orderly` | one request at a time, no faults: `InputInOrder`, `NoOrphanShell`, `CloseTakesEffect` | holds |
| `terminal_screen` | two sessions on one screen, three chunks of output each, four clicks: the refinement `ScreenSpec`, `NothingSkipped`, `InputReachesItsSession`, `FollowsOutput` | holds |
| `session_tabs` | two tabs (one at /admin), a user's and an administrator's session: `TabsFollowStorage`, `EndedStaysEnded`, `ExpiredSignsOut`, `SignedOutEverywhere` | holds |
| `client_panels` | each of the sixteen panels, two clicks, two changes: `SingleFlight`, `SubmittedOnce`, `KeepsWhatItSaid`, `ListsInOrder` | holds |
| `panels_settle` | each of them with one click and one leaving, under fairness: `NeverLockedUp`, `ComesFresh` | holds |

What the two about clean-up say. `UsedInTimeIsReclaimable`: a resource in `inTime` that still exists
has, whatever failed and whoever raced, a row the listings return with its `external_id` (a pod whose
deletion RunPod refused inside a 200 answer is excepted: its row ends while it lives).
`UsedInTimeIsReleased`: once its lease has ended it is deleted, or `Crowded`: the page of the listing is full of earlier rows that no pass can finish, because they
have no `external_id` or their resource is gone. That exemption is what the code does, not what
anyone would want; TLC finds both kinds of such rows. Creations outside of `inTime` are excepted
because the code loses them: those that fail after their effect, those that end after a termination
was asked for, and those that a pass has marked before they end (StartVM writes `running` on a row
that is still in `provisioning`, and a pass then finds it due and without an `external_id`).

### The disagreements, and more of their kind

**A terminated VM can be started** (`restart_race`). StartVM reads the status, and writes `running`
later without a condition; in the trace a TerminateVM deletes the droplet and marks the row between
the two and is overwritten, against the service's own "terminated VM cannot be started".

**The bridge's TTL clean-up finds nothing** (`bridge_cleanup`). `UpsertExternalResource` names an
`ON CONFLICT` target that no unique index backs, so no resource is ever recorded, against "idempotent
jobs and TTL cleanup" (`README.md:27`): one creation without any fault leaves a resource for ever.

The quoted lines are with the findings in `PROJECT.json`.

The models contain more that no run is spent on:

- The row of a droplet the bridge deleted first is never marked, because the expiry pass skips on
  the 404; `reports/17` says local statuses always follow the deletion. `PodStatusFollowsDeletion`
  is what holds.
- A completion of `terminal_open` that was under way writes `open` over `closed` or `expired`.
  Without faults it does not last: the closing is still in the queue, and `CloseTakesEffect` shows
  that it wins.
- A terminal session is created and its creation refused (the NULL above, `NullScans = FALSE`). The
  renter gets an error and no id, so it can neither type nor close, and the session counts against
  its limit until it expires.
- TerminateVM that read the row before CreateVM stored `external_id` only writes `terminated`; if it
  writes last, a live droplet has a row the expiry listing never returns. A creation whose handler
  dies after the bridge's answer, or whose answer comes after the client's timeout, leaves one too.
- An explicit deletion leaves its row of `external_resources` due for ever (its deletion is answered
  404 in each pass), and enough of them block the TTL batch. The expiry listing of resourceservice
  is exposed to the same, and to rows without an `external_id`; that is `Crowded`.
- A repeated request is answered 2xx from its job whatever became of the first attempt.
- The rate limit lets in a request too many when two handlers count before either inserts;
  `OvershootBounded` is the bound that does hold, and it is attained.
- Two inputs sent at the same time can reach the shell in the other order than the transcript shows;
  `InputInOrder` is for a renter that waits for its answers.
- With NULL `acknowledged_at` unreadable, a completion fails while any listed command is queued, and
  its command stays `running`; the same happens behind a queue longer than the listing.
- A lost answer of a claim leaves the command `running` for ever; a closing that cannot be queued
  leaves the shell on the host.
- In the client, `README.md:165` says "`401/403` responses clear local session state"; the code
  (`lib/http.ts:42`, and `lib/http.test.ts:45` with it) clears it on 401 only. `ClearsSession` has the
  code's rule. A user who has lost a role goes on being shown as signed in.
- A tab left on VM Fleet or Templates, or hidden, stays signed in with an expired token until
  something is clicked.
- A late 401 of an earlier session signs out the next one: `fetchJSON` does not compare the token it
  sent with the one stored.
- Opening a second terminal leaves the first session open at the service; Send can be pressed twice
  before the answer, and the answer then empties whatever has been typed since.
- The timer's refresh and the forms of shared pods and allocations share one `loading` flag, which
  the refresh clears: these forms can be submitted again while the first submission is under way.
  The forms without a flag (reserving an offer, deploying, publishing capacity, agent commands, the
  administrators' pods) can be anyway, and so can the dialog that deletes a cluster. The forms of
  `GuardedForms` cannot, which is `SubmittedOnce`.
- A share whose offer is refused is reported as a failure and stays; sending the form again shares
  twice.

## Bounds, and why they are enough

- Instances and request ids (`Last`) are two or three. A handler touches one row; rows interact
  only through the pages of the two listings, for which two rows (one in front, one behind) are
  enough, and through the order of leases. The fault runs have one VM and one pod, the two kinds
  of deletion.
- `Workers`: two handlers give every pairwise race on a row; a third gives no new kind of stale
  read, as a handler keeps only one thing it read. The rate limit, where the overshoot grows with
  the number of handlers, has three.
- `Sweepers`: one pass; that two overlap is left to the proofs, which have any number.
- `lifecycle_cleanup` has three rows of two kinds and pages of one, so that the page of the VMs
  overflows. A handler alone already leaves rows that crowd; the same question with two handlers on
  two VMs (2.3 million states, too many for the runs that are kept) has the same answer.
- `AgentRelay`: one session, because the statements on a session touch no other one; the order of
  commands, which sessions do share, is a property of the queue alone. `MaxRequests` is three with
  two handlers (an opening and two concurrent requests on the session) and four with one (opening,
  two inputs or resizes, closing). When they are used up the system may stop, so these runs do not
  check for deadlock. `Recent`, the 200 of a completion's listing, is larger than the queue in
  `relay_orderly` and 1 in `relay_faults`, where the listing really loses commands.
- `PassLimit` and `BatchLimit` scale the code's 100 down: 2 is "not full", and 1, where there is
  more than one row, is "full".
- `MaxResources` bounds what the providers create in all. By `OneResourcePerRequest` one resource
  per creating request is the most there is; a second for the same request would show as a
  violation of it while another creation still has none (the mutant of `CreateJob` does).
- In `CreateRateLimit`, `Horizon` is more than two windows. `MaxRows`, the rows ever inserted, is 9, and
  the states are the same with 12: the limit itself stops the handlers before. The limit is 2
  instead of 5, the window 2 instants instead of a minute.
- `RentalTerminal`: two sessions are enough for one to take the screen from the other, and a third
  would only do the same again. `Cap` and `PageLimit` are 2 with three chunks a session, so that the
  screen is cut and an answer can be incomplete; four clicks open two sessions, send and close.
- `WebSession`: two tabs, of which one writes and the other hears of it; the sub-tabs without a timer
  are one; a tab is hidden in the polling section only, elsewhere it makes no difference; two tokens, because a late
  answer needs an earlier session and a later one; one API call per tab under way beside its forms.
- `ListPanel`: panels do not interact, so a behaviour has one. Two clicks overlap two handlers with
  the timer's and the mount's; three versions let two answers come back in either order.
  `client_panels` has no leaving, which only ends handlers, and treats the two providers as
  interchangeable; `panels_settle`, where liveness is checked, has one click, and one leaving that
  leaves handlers behind.
- The proofs have none of these bounds but those the actions' guards name (`Last`, `MaxResources`,
  `MaxChunks`, `MaxClicks`, `MaxCalls`, ...), which may be any number.

## Fairness

`FairSpec` assumes weak fairness of three things. *Serve(w)*: a handler that was started executes
its next statement (goroutines are scheduled and every call has a timeout). *Sweep(s)* and
*RunTTLPass(s)*: the tickers of the two services' main functions fire again after each pass, and a
pass runs to its end. *LeaseEnds*: time passes. In `AgentRelay` the same is assumed of *Serve* and
*Expire*, and of *Turns(a)*: the agent's ticker (5 s) fires, and every call it makes ends. (Its HTTP
client has no timeout; a call that never returns is outside of the model.) In the client, `Spec` has
the fairness: timers fire and what was set is rendered (weak), every call is answered or fails
(weak), and a request that is made again and again is sometimes answered (strong), which is what a
network that loses some answers gives. `fetch` has no timeout of its own; the browser ends a call
whose connection breaks. The timer's fairness in `ListPanel` assumes a visible tab and a panel that
is not rendered anew without pause for 15 s, since `useAutoRefresh` restarts its interval when the
callback it is given changes. No user's action is fair. No arrival of a request,
no fault, no output of a shell and no action of the bridge's worker in `ComputeLifecycle` is fair:
nothing has to help. The liveness runs of the services exclude faults, because with a provider
that refuses every deletion, or an agent that loses every answer, nothing can be finished; what
becomes of a lease when refusals pass is therefore not checked. `lifecycle_cleanup` and
`relay_orderly` have one handler, so requests do not overlap in them. In `WebSession` only `Polls`
makes a timer fire: a visible tab on the list of instances.

## What is proved

`tlapm` checks every step, for any number of instances, handlers, replicas, sessions and any set of
faults, and any table of panels, unless a hypothesis is named.

- `ComputeLifecycle_proofs`: `LifecycleInvariant`, and from it `LifecycleTypeCorrect`,
  `LeaseIsHonoured`, `CreateIsTracked` and `TerminateReleases`. None of the three properties is
  inductive by itself. `LeaseHonoured` needs `ListingsConsistent`, that a stale page still lists only
  ended leases (time does not go back), and that a handler at `delete` was asked for it.
  `AcknowledgedCreateIsTracked` needs `HandlersConsistent`: at `activate` the reference has been
  stored, and no one ever clears it. `AcknowledgedTerminateReleased` needs that a handler that saw a
  reference arrives at `retire` only with the droplet gone, and that nobody brings a droplet up
  again, which is `OneCreator` with `status = "absent" => cloud = "none"`. The proof has one step
  per action.
- `InUseStaysReclaimable` (`UsedInTimeIsReclaimable`), without a hypothesis. Its invariant
  `ReclaimInv` adds to `LifecycleInv` what each actor knows: the creator of an instance in `inTime`
  is done with it (`CreatorsDone`), a pass that lists it has read its `external_id`, as it was in use before it was
  due (`PassesKnow`), and who is about to end its row has released it (`RetirersKnow`).
- `LifecycleImplementsLease`: `Spec => LeaseSpec`. The initial states map to initial states;
  every action is a step of `Lease` (a creation is `BringUp`, the four ways of deleting are
  `TakeDown`, `BeginTerminate` is `AskEnd`) or leaves its variables alone.
- `Provisioning_proofs`: `ProvisioningInvariant`, `ProvisioningTypeCorrect`, `CreationIsIdempotent`,
  `RecordsAreAcknowledged`, and from `DueInvariant` also `DeletionsAreDue` and `RetiredAfterDeletion`. The argument for idempotence: a job leaves status `none` once, by the
  one handler that inserts it (`OneOwner`), that handler calls the provider once
  (`OwnersConsistent`: at `call` no resource has this origin), and nobody else gets to `call` for
  the same id. It does not use the lookup before the insertion, only the UNIQUE column. The two about
  deletions are not inductive for two reasons. The TTL worker deletes from a batch it read earlier:
  `BatchesDue` says that what was due then is due now, since time does not run back and a resource
  keeps its origin. A handler deletes the resource it was asked for: `DeletersNamed` says that its
  job names that resource from the insertion on, and `DeletionsStay` that the job goes on naming it
  whoever answers. `MarkedIsGone` covers the gap between deleting a droplet and retiring its row.

- `CreateRateLimit_proofs`: `RateTypeCorrect` and `OvershootIsBounded`, for any limit, window, number
  of users and of handlers. `RateInv` says of every window what it may still become: while a window
  lasts and has reached the limit, its rows *and the handlers that are `Loose`* (about to insert, or
  about to count too few) are together at most `Limit + Cardinality(Workers) - 1`. A handler that
  takes its time now counts every row of such a window (`CountsAll`; this needs `Dated`, that no row
  is later than now), so it is not loose; an insertion takes its handler off the loose ones
  (`InsertBounds`); and the handler whose row reaches the limit is not loose any more, which is the
  `- 1`.
- `AgentRelay_proofs`: `TypeCorrect`; `InputAudited`, for any number of agents and every fault;
  `ExecutedInOrder` and `InputReachesShellInOrder`, for one agent and every fault, the second for one
  request at a time; `NoShellIsForgotten`, for one agent whose shells may fail and which may restart,
  if no statement and no call fails. `InTurn` is what makes the order inductive: the command an agent
  works on precedes those that are queued, and what it has executed precedes both; the claim takes
  the oldest, and nothing puts a command back. `AuditInv` adds to the audit that each command was
  preceded by its entry and that no two handlers or commands have the same one. `NoOrphanShell` needs
  two more: `Births` (nobody but its creator knows a session before its opening is queued, so the
  opening is the first command for it) and `ShellInv` (a session that is over has its closing on the
  way, or has no shell and none will be opened; a closing is reported after the shell has gone). The
  hypotheses are those under which the code does it. `OneAgent`: the claim locks nothing, so two
  agents with one provider id can be given the same command. `OneHandler`: the transcript and the
  queue are written in two transactions. `NothingLost`: an order to close that cannot be queued is
  queued by nobody else. The runs have one agent as well, and `relay_orderly` has one handler and no
  faults for all its properties: `InputInOrder` is proved under every fault, and `NoOrphanShell` for
  requests that overlap.

- `ListPanel_proofs`: `TypeCorrect`, `ButtonsComeBack` and `LocksExclude`, for *any* table that
  satisfies `PanelAssumption`. `SingleFlight` is not inductive: that a lock is held by one handler
  only keeps a second from starting if the flag is really set the whole time (`LocksHold`: no other
  handler's `finally` clears it, and no dialog whose opening it disables is open meanwhile); the
  type invariant needs `TasksOK` (a handler that waits for the list is one that lists, and none
  has stored more than the service holds). A flag is a lock (`Locks`) by the shape of the table
  alone: whatever sets it holds it from start to end, no timer sets it, and its own button or the
  dialog the button is in is disabled by it.
- `ListPanel_proofs`, second part: `OneListKeeps` and `OneListMovesOn`, for the panels of any table
  that satisfy `LoadsOneList` (one part, no blank on failure, and a lock or the guard of the refresh).
  `ListInv` says that at most one list is under way there, by `SingleFlight` or by the guard, and
  that it was asked for after the list on the screen was made and after the change that will be
  reported with it was stored (`AsksLater`); so its answer can only be newer.
- `ClientPanels_proofs`: `WhatWasSaidStays` and `ListsMoveOn` follow because each panel of
  `OneListPanels` satisfies `LoadsOneList` (`OneListPanelsDo`, a case per panel). `GuardedFormsHold`:
  each guarded form of the client has a flag that is a lock by the criterion above (a case per form,
  from the definitions of `PanelTable`), so `LocksExclude` gives that it is submitted once at a time.
- `RentalTerminal_proofs`: `TypeCorrect`, `NoOutputIsSkipped`, `InputIsNotMisdirected`,
  `TerminalImplementsScreen` (`Spec => ScreenSpec`) and `OutputInOrder`. What makes late answers
  harmless is `OnlyShownAsks` with `AsksForLater`: only the effect of the rendered session waits for
  an answer, and it asks for what comes after every chunk of that session on the screen, also when
  something slipped in before a render. The two that exclude slips need `StartsBlank` (between a
  change of sessions and its render nothing of the old one is left), `AsksForNext` and
  `LinesKeepTheirSession`. `AppendNext` says that cutting at the limit commutes with appending the
  next page, whatever the limit and the page size; the theorem on order rests on `AppendShifts`.
- `WebSession_proofs`: `TypeCorrect`, `EveryTabFollows` and `NoSessionReturns`.
  `EndedStaysEnded` is not inductive: `HashIsFresh` adds that the sign-in a URL still carries was
  never stored and is in no other URL, so that consuming it cannot bring an ended session back.

The assumptions are those of `LifecycleAssumption`, `ProvisioningAssumption`,
`RateLimitAssumption`, `RelayAssumption`, `PanelAssumption`, `ClientAssumption`,
`TerminalAssumption` and `SessionAssumption`, which TLC evaluates in every run of their modules, and
the hypotheses named above. Every invariant and action property that a passing run checks is the
subject of a theorem.

Only model-checked: liveness, because what holds under fairness is beyond this prover
(`UsedInTimeIsReleased`, `PodStatusFollowsDeletion`, `CloseTakesEffect`, `FollowsOutput`, `ExpiredSignsOut`, `SignedOutEverywhere`, `ComesFresh`).

## Not modelled, and why

- Inside the modelled components: validation of requests, VM size and image mapping, cloud-init,
  names and metadata (they decide nothing a property tells apart); `GetJob`, the lists and the
  catalog (reads). `ExpireTerminalSessions`, which the expiry pass calls at its end, touches only
  terminal sessions and is in `AgentRelay`. There, audit events and the reads of lists, and what the
  control commands switch on and off in the collector, are left out.
- The components of the plan below, until their modules are written.
- In the client: types, texts, layout, the design primitives, and the panels no section shows
  (`features/catalog`, `features/dashboard/core`, `features/agent/onboarding`, `ui/AdminPanel.tsx`).
- Charts, installer and the shared library: no protocol of their own.

## Plan

Order of work, most important first; the first four, and the client (11), are done.

1. `ComputeLifecycle` with `Lease`; 2. `Provisioning`; 3. `CreateRateLimit`.
4. `AgentRelay`. Left: an abstract specification of the queue (a command is executed at most once,
   in order) that it implements.
5. `Allocations`: heartbeats, Allocate, Release, cgroup directories (RS 139-201).
   Property: given away <= free; limits follow allocations.
6. `SharedOffers`: upsert against reserve (RP 1034-1107). Property: reserved + available = offered.
7. `Clusters`: create, refresh, delete against the orchestrator (RS 1174-1256).
8. `TelemetryIngest`: consumer, marks, rebalances, duplicates, the backoff of the reconnect loop.
9. `Billing`: usage and accrual in separate statements, repeated reports.
10. `ProvisionedCompute`: `ComputeLifecycle` composed with `Provisioning`, the bridge's outside
    replaced by its inside, shown to implement what `ComputeLifecycle` assumes of it.
11. The web client: `RentalTerminal` with `TerminalScreen`, `WebSession`, `ListPanel` with the
    client's table. Left: `RentalTerminal` composed with `AgentRelay`, from a keystroke to the shell
    and back.

Runs: two to three actors each and every fault, one run per question, as above; the runs of one
module are merged where they ask on the same instance, and the violations that later modules show
to be special cases give way to them. Theorems: the type invariant and the main safety invariant of
each module; those of the modules that exist are proved. Left: the refinement of an abstract queue by
`AgentRelay`, and conservation in `SharedOffers`.
