# A TLA+ model of the z4j control plane

z4j_brain (`src/backend/src/z4j_brain`) is the control plane of z4j: it accepts
commands for task queues from users, automation rules and schedulers, delivers
them to agents that run next to the workers, ingests the events the agents
report, and keeps an audit chain of it all. Several replicas run the same code
over one database; agents hold a websocket to one of them or poll any of them.
Nothing but database transactions orders what the replicas do, so most of what
is hard in this code is a guarded UPDATE racing another one.

## Inventory

| Component | State | Operations | Talks to | What makes it correct |
|---|---|---|---|---|
| Command store (`persistence/repositories/commands.py`) | one row per (project, idempotency key): status, owner, `dispatched_at` (the generation of the claim), `timeout_at`, `completed_at` | insert, mark_dispatched, revert_dispatch, reassign_pending_owner, claim_redispatch, mark_completed/failed, sweep_timeouts | everything below, through one UPDATE at a time | a claim has one winner; the row follows the life cycle PENDING, DISPATCHED, verdict or TIMEOUT; closed exactly when over |
| Command dispatcher (`domain/command_dispatcher.py`) | none of its own between awaits but what a call has read | issue and idempotent re-issue, handle_ack, handle_result | store, registry, audit | a destructive command runs at most once; a re-issue never duplicates it |
| Live delivery (`main.py` deliver_local) | the row, agent and generation it has read | read, claim, push, revert a failed push | store, gateway socket | what is pushed was claimed; a failed push is reverted only if a second run is harmless |
| Long-poll delivery (`api/agent_longpoll.py`) | poll sessions; rows selected for a response | select, claim, redispatch lease, respond | store | two pollers never hold the same claim |
| Command timeout worker (`domain/workers/command_timeout.py`) | none | cadence, external and generic sweeps in sequence | store | every command ends |
| Bulk retry (`repositories/bulk_retry_requests.py`, `domain/bulk_retry.py`, `workers/bulk_retry.py`) | parent (control state, deadline), children (delivery, outcome, claim deadline) | seal, pause, resume, claim one child, deliver it, project results, expire claims, block | store, registry, polls | never more than `max_in_flight` children out unobserved; a child leaves once; what it shows is what its command came to; every request is decided |
| Agent registry (`websocket/registry/*`) | sockets per (agent, worker), replica membership | register, replace, deliver, NOTIFY, reconcile | gateway, store | commands go to the exact current session; a lost NOTIFY is made up for |
| Gateway and frame router (`websocket/gateway.py`, `frame_router.py`) | session, sequence numbers, heartbeats | handshake, frame loop, persist acks/results/events | dispatcher, ingestor | frames of a revoked or replaced session change nothing |
| Cadence schedule control (`repositories/schedule_control.py`, `schedule_fires.py`, `scheduler_grpc/handlers.py`) | the schedule's row (control token, revision, cursor, last acceptance), fire history, terminal holds, change log | fire, skip, quarantine, pause, edit, resolve, delete; result and timeout of an occurrence | scheduler processes, command store, timeout worker | one acceptance per occurrence, the cursor goes forward, a failure stops the schedule until an operator decides |
| Pending fires (`repositories/pending_fires.py`, worker) | buffered fires | buffer, replay, drop as stale, expire | schedule control, command store | a buffered fire becomes one command under the token it was accepted under, or is dropped |
| External schedule streams (`repositories/schedule_external.py`) | stream (phase, epoch, accepted sequence), mirror of the schedules, activations, control operations | allocate, activate, project, plan, claim, apply, expire, hold, reactivate | gateway, agents, timeout worker | the mirror is what was observed last; a control counts as applied only when it was done; doubt closes the stream |
| Automation (`domain/automation/*`, outbox worker) | rules, cooldowns, outbox | evaluate, stage, execute | ingestor, dispatcher | a staged firing runs; cooldown and caps hold |
| Event ingestion (`domain/event_ingestor.py`, `repositories/tasks.py`) | event log, task rows | dedupe, guarded projection, insert with a race, retransmission | frame router, automation | an event counts once as long as its reports agree on the second; final states stand; no outcome is lost |
| Reconciliation worker (`workers/reconciliation.py`) | probes that are out | list stuck tasks, probe, correct the row | dispatcher, tasks, automation | a correction never overrules a later event; `task.orphaned` fires once |
| Audit chain (`domain/audit_*.py`, `repositories/audit_log.py`) | chain head, rows, retention, forwarder cursor | append, verify, prune, forward | all | one chain, no fork, nothing forwarded is skipped |
| Leader lock, supervisor (`workers/_leader_lock.py`) | an advisory lock | acquire, run, lose | workers | one leader at a time |
| Agent health, exports, auth, limits, notifications, dashboard hub, REST, operator tooling | see PROJECT.json | | | |

How they interact: `issue` commits a row and then tells the registry; the
registry calls `deliver_local` on whichever replica has the socket (directly, by
NOTIFY, on reconnect, or from its reconcile loop), or the agent polls. Acks and
results come back through the frame router to the dispatcher. The sweep expires
what stays silent. Schedulers fire over gRPC from snapshots of a schedule; what
they fire becomes a command or waits in the buffer. External schedulers (celery
beat and the like) keep their schedules themselves: an agent mirrors them into
the brain as a numbered stream, and the brain changes one by a command. None of
these holds a lock across an await except the agent row's, which a push holds so
that a revocation cannot fall inside it.

Hard behaviour: claims by several replicas at once; ownership that moves while a
delivery is under way; pushes that fail after their bytes left; a process dying
between claim and push; HTTP responses lost after the claim; late and repeated
results; sweeps racing all of these; requests from stale snapshots; events out of
order, from several agents, sent again; sessions that end while the next one is
already registered. PROJECT.json lists each at its line.

## Modules

| Module | Models |
|---|---|
| `CommandRow` | the command row and each UPDATE of CommandRepository, as a guard `Can...` (the WHERE clause) and a new row (the VALUES) |
| `CommandContract` | the abstract promise: a command is accepted, transmitted, answered, abandoned, expired, re-armed |
| `CommandDelivery` | the interleaving of the steps of issue, deliver_local, polls, acks, results, sweep, revocation and crashes |
| `BulkRetry` | one bulk-retry request: its children, their irreversible commands, the coordinator's ticks and the polls that claim and answer them |
| `BulkContract` | the abstract promise of a bulk-retry request: children claimed one at a time while it runs, a bound on those out, each leaves at most once, outcomes refined only |
| `CadenceControl` | one schedule the brain fires: its row, the schedulers' snapshots, the command or buffered fire of every accepted occurrence, holds, operators |
| `ScheduleContract` | the abstract promise of a schedule's occurrences: accepted once and in order, sent once, one outcome, stopped by a failure |
| `CadenceSweep` | composes `CadenceControl` with the tick of the timeout worker and an ordinary command behind it |
| `TaskProjection` | one task row under events of several agents and the probes of the reconciliation worker |
| `TaskContract` | the abstract promise of a task's row: the events of one kind and second are dealt with once and in one step, an outcome stays with its details, a correction is of an open task |
| `ExternalStream` | one stream of an external scheduler: sessions, epochs, observations, controls |
| `MirrorContract` | the abstract promise of a mirror: states the scheduler really had, in the order they were seen; a control made, shown, or in doubt |
| `MC...` | the instances TLC checks |
| `CommandRowProofs` | lemmas about the row, shared by the two command proofs |
| `CommandDeliveryProofs`, `BulkRetryProofs`, `CadenceControlProofs`, `CadenceContractProofs`, `CadenceSweepProofs`, `TaskProjectionProofs`, `ExternalStreamProofs` | the theorems |

Each component with a protocol of its own has a contract, a specification of
what its callers may rely on that knows no statement, replica, lock, clock or
retry; `ImplementsContract` of the component's module gives the refinement
mapping, TLC checks it as a property and TLAPS proves it.

### Correspondence

A *worker* of `CommandDelivery` is one delivery coroutine: a `deliver_local` call
or one row of a long-poll response, on any replica. `job[w]` is its local
variables: what it has read (`cmd`, `agent`) and the generation it claimed. An
*issuer* is an `issue` call that has read a row and is about to UPDATE it. Each
action is one statement or one send, and two actions are separated exactly where
the code awaits. Wake-ups carry no authority, so `WsRead` and `PollRead` may start
whenever the row allows it: this covers every NOTIFY, drain and reconcile, lost
or repeated. `AbortJob` and `AbortCall` are a crash, a cancellation or a lost
response, possible after every await.

Time is abstracted to distances (`ttl` to `timeout_at`, `age` since
`dispatched_at`); a generation, in the code the `dispatched_at` timestamp the
database clock stamps, is the number of the claim. That two claims of one row
never carry the same timestamp is assumed: the code forces it in
`claim_redispatch` by adding a microsecond, and relies on the clock in
`mark_dispatched`.

`sends` counts copies that may have left, `reached` the agents that may hold one,
`verdicts` the audit rows of results; none of them is a variable of the code, and
no guard but the agents' own (an agent answers only what it may hold) reads them.

`BulkRetry` reuses the rows. A *worker* is one `_send_one` or one child of a
poll; its claim is one transaction in the code, and two steps here, because
between them others run: `LockClaim` (locks the agent's and the parent's row,
and reads the control state, the deadline and the number in flight) and
`CommitClaim` (the guarded UPDATE of the child, the INSERT of its command, the
commit). `lock` is the parent's row lock; a statement that writes the parent
(pause, resume, a projection, a block) is enabled only while it is free. A
*coordinator* is the first transaction of a tick: `ScanRead` is the SELECT of
`reconcile_command_outcomes` and `ScanWrite` its UPDATEs with `expire_claims` and
`block_expired_parents`. The UPDATEs of a tick take effect together, at its
commit; each of them evaluates its guard against the row it finds, which is what
`Projected` does with a status read earlier. `PollRespond` and `PollSignFails` are
the signing loop of a poll with the projection the same transaction makes.

Left out of `BulkRetry`: which engine a child needs and which agents support it
(any agent may take any child, so more claims are possible than in the code),
the order of requests among each other (one request; requests share no guard),
`touch_scan_position`, and how children are planned. The deadline of a claim is
computed when it is committed, in the code a moment earlier.

**Cadence.** Every action of `CadenceControl` is one transaction under the row
lock of the schedule: `Accept` is `accept_fire` with the insert of the command or
of the buffered fire, `Skip` `advance_cursor`, `Update`, `SetPaused`, `Delete` and
`Resolve` the operator's requests, `ReportFailure` and `Expire` the terminal
transaction of an occurrence with its hold. What is between transactions is
explicit: `view[s]` is the snapshot a scheduler plans from, refreshed by an
answer, or not when the answer is lost. A *key* is a slot and the control token
it was accepted under, from which the code derives fire and idempotency key.
Time is counted in slots; a cadence is the set of slots it fires at, so
`canonical_next_run_at` is the least member beyond a slot. A refused request
changes nothing and has no action. Left out: schedules under a legacy grant and
the cutover of ownership, edits that touch no control field, retries with the
very same request id (answered from the receipt), redelivery recovery.

`CadenceSweep` adds the listing of candidates, which no lock covers, to the
expiries of `CadenceControl`. `Raise` is the exception a divergent hold makes.

**Tasks.** `call[a]` is the transaction in which an event of agent `a` is ingested,
at the statement it has reached: the insert into the event log, the guarded
UPDATE of the task, the look whether the row exists, the INSERT under its
savepoint and the UPDATE again. Its event row commits with it or not at all
(`Abort`). An event carries the stamps its reports may bear; `Occurred` is
`_parse_datetime` with `_clamp_occurred_at`, which gives a report without a usable
stamp, or with one too far ahead, the time of its delivery. The log knows an event
by its kind and the second of that time (`Id`), as `_ingest_one` derives the id: a
report whose id is in the log is a duplicate, one whose id another transaction has
inserted waits for its end (`Awaited`), and reports of one event may have different
ids. `guard` is the clock reading the event is judged by, taken when its row is
in; what the projection stores is not beyond it (`ProjectedAt`). A probe carries
the times at which it was issued, answered and read, on which `Fresh` and the WHERE
clause of the correction depend. Whatever the engine says, its answer may bring a
finish and an exception text; the correction fills what the row lacks and clears
nothing. The events a task may go through (`Histories`) are chosen; what the
engine answers follows from them. Left out: a stamp that turns more than 400 days
old between two deliveries, the other events of a batch (they lengthen the waits),
the deletion of tasks.

**External streams.** Each transaction of `schedule_external.py` is an action; the
agent and the external scheduler (`Edit`, `Observe`, `Notice`, `Obey`) are external
and taken from what the brain requires of them. Sessions are numbered as they
connect; `greeting` and `cleaning` hold the registrations and the disconnect
cleanups that still have to run, in any order, as `gateway.py` leaves them.
Messages are never removed from `sent`, so each may arrive late, twice or never;
the brain takes the one it expects. An action that looks at the registry and then
claims or fences in the database does both at once; in the code the session may be
lost in between, which has the effect of losing it just before or just after,
or of a crash. Left out: drain, seal, retirement, several
frames of a snapshot, the mutate commands, several owners.

## Runs

| Run | Instance | Shows |
|---|---|---|
| `delivery` | 3 kinds of command (a fire, a probe, a destructive one), one issued per behaviour; 2 agents, 2 workers, 1 issuer, 3 claims, windows 2/2/1 | rows are well formed (the stamp of an open one tells its claim), the four safety invariants, and the refinement of `CommandContract` |
| `settles` | the same with 1 worker and 2 claims, without symmetry | liveness: no accepted command stays open |
| `redrive_race` | 2 issuers | violation: see findings |
| `claimant` | as `delivery` | violation: see findings |
| `bulk_retry` | 2 children, 2 deliveries, 1 coordinator, 1 agent, 1 in flight, windows 1 (claim) and 2 (parent), 2 pauses or resumes | children are well formed (a command exactly from the claim on, with its deadline), the in-flight bound, truthful outcomes, no claim while stopped, final verdicts, and the refinement of `BulkContract` (which has that a child leaves once) |
| `bulk_settles` | the same with 1 delivery and 1 pause or resume, without symmetry | liveness: no request stays in progress |
| `cadence` | 2 schedulers, 2 cadences that share their first slot, 3 slots, 3 tokens, 5 revisions, symmetry in the schedulers | type invariant, one acceptance per slot, one oracle per occurrence, failures stop, one open hold, no work under a hold, and the refinement of `ScheduleContract` (which has that the cursor only moves on) |
| `cadence_sweep` | 1 scheduler, 1 cadence of 2 slots, 2 tokens, 5 revisions, one ordinary command | the worker's own type invariant; a tick is bound to raise only over a hold an operator went on past (`WedgedByOperator`); liveness: overdue cadence and ordinary commands end, unless a tick is bound to raise |
| `cadence_wedged` | the same | violation: see findings |
| `tasks` | 2 agents, 2 probes, 7 histories of two or three events, 3 clock ticks, 2 to a second, clocks at most 1 ahead | type invariant, no result beside an exception, no outcome lost, outcomes go forward, events of one second projected once, orphaned once, later events kept, and the refinement of `TaskContract` (which has that an outcome stays); liveness: a stuck task is ended |
| `insert_race` | the same with 1 probe | violation: see findings |
| `external` | 1 schedule, 3 sessions, 3 observations an epoch, 1 change at the source | type invariant, controls, doubt, and the refinement of `MirrorContract` (which has that the mirror shows what was observed); liveness: a claimed control ends, a live session brings the mirror up to date |

**Bounds.** The rows of different commands share no guard, so one issued command
per behaviour (`MaxIssued = 1`) loses no interleaving of any one row; which of
the three classes it is, is chosen. Two workers and one issuer give every pair
of racing claims; three claims (`MaxGeneration`) allow a claim, its reversal or
redispatch, and a third that finds the first one's leftovers. Windows of 2 and 1
ticks make every row pass through fresh, leasable, stale and expired. The
theorems remove all of these bounds but the liveness one.

`bulk_retry` has one place in flight and two deliveries, so every claim is a race
for the last place; two children let a claim of one meet the projection of the
other, a parent window longer than the claim window lets a claim lapse before
the parent does and a late claim be cut short by it, and two control requests
pause and resume in any order, a resume reopening a blocked request. A second
coordinator is left out: it writes what the first one may write a step later.

`cadence` gives an operator two definitions, so an edit may take an occurrence
away from under a snapshot or leave it; three slots let the cursor be at, behind
and beyond a slot that is resolved; three tokens let a hold outlive the token of
its occurrence and the next one; five revisions are the moves of one behaviour
(an acceptance, a failure, a resolution or edit, a second acceptance, and what
goes wrong with it). `cadence_sweep` needs the last two of each: a hold under the
first token and an overdue occurrence under the second. In `tasks` two agents are
a race, two probes let one be answered before and one after an event, and two
ticks to a second let two times share one or not. The histories are those whose
events contradict each other, or whose reports do: a retry before a success; a
retry by an early clock before a second start; a failure whose reports jitter over
a second, and then a success; two outcomes, one stamped twice within a second and
one not at all; a failure by a clock that the clamp corrects at first and lets pass
later, after a start and before a revocation; two failures within a second.
In `external` three sessions are one that is lost, one that displaces it and one
that comes after; three observations an epoch are the snapshot, a control and
what follows it. One schedule is enough for the sequence numbers, which do not
look at it; that a change names the one key that moved is proved for any number
of them (`SentInv`).

**Deadlock** is checked in the runs of `BulkRetry`, whose coordinator never ends.
It is not checked in the others: when the one command is answered, the slots are
past, the task is finished or the sessions are spent, the instance has nothing
left to do.

**Fairness.** `FairSpec` assumes only that time passes (`WF Tick`) and that the
sweep runs when a row has expired (`WF Sweep`): the timeout worker is a periodic
task restarted by its supervisor. No fairness is assumed of deliveries, agents,
re-issues or acknowledgements, which may all stop. The sweep is the last stage
of the worker's tick, behind the recovery of deliveries, the schedules and the
external streams, and nothing isolates the stages. That the earlier ones do not
raise for ever is assumed wherever a stage is taken to run: by
`EventuallySettled` of this sweep, by `ClaimEnds` of the external stage.
`CadenceSweep` looks into the assumption: the wedge it finds (`cadence_wedged`)
blocks both.

`FairSpec` of `BulkRetry` assumes that time passes, that the coordinator ticks
(`WF ScanRead`: a periodic worker under a supervisor), that a tick that can
write does not die every time (`SF ScanWrite`: strong, because a claim may hold
the parent's lock again and again, and because a process may die in a tick; the
database queues the waiting statement, so a free lock reaches it), and that a
transaction holding the lock commits (`WF CommitClaim`). Deliveries, agents,
results and the command sweep may all stop.

`CadenceSweep` assumes that the worker starts ticks (`WF ListOverdue`: periodic,
under a supervisor) and that it does not die in every tick (`SF SweepOrdinary`, and
`SF` of the work on a candidate: a crash may interrupt a tick again and again, and
a stage that is reached infinitely often is not interrupted each time). Agents,
schedulers, operators, results and the clock may all stop.

`TaskProjection` assumes of one probe slot that it is used when a task is stuck
and that not every probe is lost (`SF` of its four steps). Nothing is assumed of
agents and their events.

`ExternalStream` assumes what a registered session gets without anyone asking: it
is greeted, its activation is delivered, the agent looks at the source and sends
until it is acknowledged, as long as it is connected (`WF`); and that the deadline
worker's external stage is reached (`WF Expire`), which a cadence wedge before it
would prevent. Cleanups, controls and new connections may never come.

### Findings

Each run shows one way a promise is broken; the theorem named with it proves, for
every number of actors, that there is no other.

- `redrive_race`: the re-drive of a TIMEOUT row that was never dispatched passes
  `expected_dispatched_at = None`, and `revert_dispatch` then omits the
  compare-and-swap the dispatcher's comment relies on. A re-drive that did observe
  a generation never takes a fresh claim (`FreshClaimsFallOnlyToBlindRedrives`).
- `claimant`: `deliver_local` checks the owner when it reads and claims without
  naming it; after a transfer the old owner's delivery can hold the new owner's
  row. Only a `schedule.fire` can change hands this way (`OnlyFiresChangeHands`).
- `cadence_wedged`: an operator may enable a schedule over an open hold of an older
  token; when its next occurrence times out, `_lock_exact_terminal_hold` raises in
  every tick of the timeout worker, before the ordinary sweep, and no command of
  any project times out until the hold is resolved. Without that operator no tick
  is bound to raise (`OnlyOperatorWedges`).
- `insert_race`: an outcome that finds no row to update and then a row another
  transaction has just committed is turned down without its guard ever having
  been evaluated on that row; its event is logged, so a retransmission is a
  duplicate. The look is the only statement that does so
  (`OutcomesLoseOnlyOnLook`).

What the models show of the code beyond these, where no text of the repository
promises otherwise:

- A resolution of an older receipt that enables the schedule keeps the `next` it
  finds, which an edit that left the schedule disabled may have left from the
  old cadence; `accept_fire` takes the stored `next` as reachable
  (`schedule_control.py:2788`), so a slot of the old cadence may be fired once.
  Nothing is accepted twice.
- A task in state `received` is never probed (`StuckEnds` exempts it).
- An event whose stamps jitter across a second, or which the clamp gives the time
  of each delivery, has several ids: it is projected, and fires automation, once
  for each; and two events of one kind and second count as one. A comment
  (`event_ingestor.py:1048-1057`) accepts both; `ProjectedOnce` speaks of events
  whose reports agree (`Steady`), and the histories of the run hold the others too.
- A correction writes the exception text of any answer and clears none
  (`tasks.py:433`), so a success may be shown beside an exception: that of a
  retry, say. `DetailsAgree` therefore speaks of results, which only an event
  writes, and of revocations.
- An external stream whose activation was never claimed, and which already owns
  schedules, is passed over by the hold and refused by the abandonment: it waits
  for the next session. A control that was never claimed has no deadline. A
  greeting of a session that was displaced meanwhile takes the stream from the
  live one. `Left` names these cases, which `CatchesUp` exempts.
- The idempotency key of a control has no epoch (`schedule_external.py:2830`), so
  the same wish at the same sequence number of a later epoch is refused.

## Proofs

`CommandDeliveryProofs` proves, for any sets of agents, commands, workers and
issuers, any windows and any number of claims:

| Theorem | States |
|---|---|
| `AlwaysWellFormed` | `Spec => []WellFormed` |
| `ClaimHasOneHolder` | `Spec => []SingleCurrentClaim` |
| `DestructiveAtMostOnce` | `Spec => []NoSecondCopy` |
| `VerdictsStand` | `Spec => []VerdictFromOwner` |
| `ClosedWhenOver` | `Spec => []ClosedIffOver` |
| `FreshClaimsFallOnlyToBlindRedrives` | `Spec => OnlyBlindClobbers` |
| `OnlyFiresChangeHands` | `Spec => []PinnedToOwner` |
| `DeliveryImplementsContract` | `Spec => ImplementsContract` |

Assumptions: `AgentAssumption` and `CommandAssumption` (the null elements are not
members; only redeliverable actions are fires), `WindowAssumption` (the relations
between the windows that `settings.py` enforces) and `BoundAssumption` (the two
bounds are naturals). TLC evaluates them in every run.

The argument. None of the invariants is inductive by itself.

- `WellTyped` adds to `TypeOK` what the program counters say of the other fields:
  a coroutine that is not idle works on a command of an agent.
- `LifeCycle` is the relation between a row and its successor that every UPDATE
  but a result keeps (`RowsFollowLifeCycle`); what depends only on the row, such as
  `closed`, follows from it for all actions at once.
- `Claims`: generations are stamped once and never exceed the clock, so a
  coroutine's claim is either the row's or an older one, and two coroutines'
  are different. This gives `SingleCurrentClaim`.
- `Safe`: what a guard decided before an await and a later step relies on still
  holds (a redeliverable command stays one).
- `Once`: of a command that is not redeliverable, at most one coroutine has ever
  held a claim: as long as the row is PENDING nothing was sent and nobody holds a
  claim; once it is not, it never becomes PENDING again. This gives `NoSecondCopy`.
- `Verdicts`: a verdict implies a terminal row whose owner was reached, and
  neither terminal status nor owner changes afterwards.
- `Observed`: a re-drive that observed a claim observed a stale one, which stays
  stale: `ClaimStep` says that a row keeps its claim and grows older, loses it, or
  gets the one stamped in this step. With `Claims`, a revert of another coroutine
  does not match a fresh claim either, so only a re-drive that compares nothing
  is left (`OnlyBlindClobbers`).
- `Stamped`: a row that is out carries a stamp; with `Safe`, which has that a
  row that waits carries none, and `Observed`, which has that no stamp is beyond
  the clock, this gives `WellFormed`.
- `Pinned`: whoever works on a command that is not a fire works for its owner, so
  no UPDATE gives it another one and no copy leaves for anybody else.

`Sound == WellTyped /\ Safe /\ AllOnce /\ Verdicts` is inductive. The refinement maps the row's
status to the contract's phase; `StepImplements` shows step by step that each
action is a step of the contract or stutters, using `Sound` for the guards of
`Transmit` and `Answer`.

`BulkRetryProofs` proves, for any finite selection of children, any agents,
replicas and polls, any windows and any `max_in_flight`:

| Theorem | States |
|---|---|
| `AlwaysWellFormed` | `Spec => []WellFormed` |
| `InFlight` | `Spec => []InFlightBounded` |
| `PauseHolds` | `Spec => NoClaimWhileStopped` |
| `VerdictForEver` | `Spec => VerdictStands` |
| `OneCopy` | `Spec => []ChildSentOnce` |
| `OutcomesTruthful` | `Spec => []OutcomeTruthful` |
| `BulkImplementsContract` | `Spec => ImplementsContract` |

Its assumptions are those of the row and `BulkAssumption` (children are finitely
many, the bounds are naturals). `ChildMoves` is the lemma the rest leans on: a
step leaves a child's delivery alone and refines its outcome, or seals the
request, or is the claim of that very child. `Locking` adds that the lock's
holder is the one attempt between its check and its commit, and that what it
checked (running, a place free) is still so: nobody else may move the parent or
claim a child meanwhile. The bound in flight follows by counting, a pause by the
lock, a verdict because no child is left to claim. `Once` says that the attempt
that claimed a child is alone with it and has not sent it; `Truthful` that a
child has a command exactly from its claim on, runs out together with it and
shows what became of it, which needs that a result and its projection are one
transaction. The refinement maps a
claim to its commit: what `LockClaim` read still holds there by `Locking`, so the
contract may decide and act in one step, and a child's fate and its copies follow
from the invariants above. A single child does not implement `CommandContract`:
the result of one that timed out is still accepted, on purpose.

`CadenceControlProofs` proves, for any set of schedulers, any cadences and any
bounds on slots, tokens and revisions:

| Theorem | States |
|---|---|
| `TypeCorrect` | `Spec => []TypeOK` |
| `NeverAcceptedTwice` | `Spec => []AcceptedOnce` |
| `OracleIsUnique` | `Spec => []OneOracle` |
| `FailureAlwaysStops` | `Spec => []FailureStops` |
| `HoldIsUnique` | `Spec => []OneOpenHold` |
| `CursorNeverMovesBack` | `Spec => CursorForward` |
| `WorkOnlyWhenEnabled` | `Spec => NoWorkUnderHold` |

It assumes `CadenceAssumption` (a cadence is a set of slots) and `BoundAssumption`.
One acceptance per slot does not follow from the tokens, which rotate, but from
the cursor: `CursorInv` says that the next slot lies behind the last one, whatever
edits and resolutions did to it, and `HistoryInv` that everything accepted lies at
or before the last slot, so a slot that is accepted is fresh under every token
(`Fresh`). That an occurrence beyond a slot exists is the least element of a set
of numbers (`LeastExists`, by well-founded induction of the library). `FailureStops`
needs that the token of the last acceptance is not one still to come: a rotation
then makes the last occurrence history.

`CadenceContractProofs` proves `ScheduleImplementsContract`: `Spec =>
ImplementsContract`. The mapping hides tokens and revisions, so three more facts
are needed (`Mapped`): a slot is accepted under one key (`OneKey`), the acceptance
the row carries is that of an accepted key (`AcceptanceKnown`), only accepted keys
are held. `NotStopped` is the point where the two specifications meet: the contract
forbids an acceptance after a failure, the code checks only that the schedule is
enabled, and `FailureStops` makes the one imply the other.

`CadenceSweepProofs` proves of the composition with the timeout worker:

| Theorem | States |
|---|---|
| `SweepIsControl` | `SweepSpec => Spec` |
| `SweepKeepsContract` | `SweepSpec => ImplementsContract` |
| `SweepTypeCorrect` | `SweepSpec => []SweepTypeOK` |
| `OnlyOperatorWedges` | `SweepSpec => []WedgedByOperator` |

The worker's steps are steps of a schedule or leave it alone, so everything proved
of `CadenceControl` holds under it. `HoldInv` carries the last theorem: an open hold
is of a failed occurrence, which is the latest as long as the receipt it was opened
under is in force; an acceptance under that receipt would need an enabled schedule,
which the failure stopped, so a second overdue occurrence exists only under a later
receipt, and only an operator issues one over an open hold.

`TaskProjectionProofs` proves, for any agents, probes, histories and clocks, that
`TypeOK`, `DetailsAgree` and `OutcomeKept` always hold, that every step keeps
`TerminalStays`, `OutcomeForward`, `ProjectedOnce`, `OrphanedOnce`, `LaterEventKept` and
`OutcomeLosesOnlyOnLook`, and `Spec => ImplementsContract` (theorems `TypeCorrect`,
`DetailsAlwaysAgree`, `NoOutcomeLost`, `TerminalNeverReopens`, `OutcomesGoForward`,
`EventsProjectedOnce`, `OrphanedAtMostOnce`, `LaterEventsKept`, `OutcomesLoseOnlyOnLook`,
`TaskImplementsContract`). The invariant adds to them what a transaction has read: the id of an event being
ingested is not in the log and no other agent's, and the event had happened when
its clock was read (`CallInv`); a probe's clock readings are in order (`ProbeInv`); an open task was
written no earlier than every event in it happened (`RowInv`), which is why an
answer asked for before the row was written is refused and a later event kept.
`SteadyInv` has that a report of an event whose stamps agree is of their second,
wherever it is; so two reports of it have one id, and `CallInv` lets one through.
For the refinement `FoundInv` adds that a probe that read the row found one; the
statements of an ingestion before its commit stutter, and the commit is the one
step the contract sees.

`ExternalStreamProofs` proves, for any schedules and any numbers of sessions,
observations and changes:

| Theorem | States |
|---|---|
| `TypeCorrect` | `Spec => []TypeOK` |
| `MirrorAlwaysObserved` | `Spec => []MirrorIsObserved` |
| `AppliedAlwaysDone` | `Spec => []AppliedWasDone` |
| `DoubtAlwaysCloses` | `Spec => []DoubtCloses` |
| `StreamImplementsContract` | `Spec => ImplementsContract` |

`CountInv` counts the sessions that are still to be greeted, by cardinality, so
that an epoch is left for each. `SentInv` says that a change tells all that is new
since the observation before, so applying the one key gives the whole; `ControlInv`
that an observation of a control not yet accepted is of the control in flight, so
none is taken for another's; `OpInv` that an unresolved control keeps its epoch in
force, because nothing allocates a new one meanwhile. The contract orders what is
seen over all sessions, although greetings and cleanups of sessions run in any
order: `OrderInv` says that an epoch belongs to one session and that one allocated
later for an earlier session is never dispatched, so the agent that holds an epoch
is the last that observed anything (`LastObserver`), and the mirror goes through
the logs of the epochs in their order.

The theorems `OneCopy`, `CursorNeverMovesBack`, `TerminalNeverReopens` and
`MirrorAlwaysObserved` state properties that no run lists, because the contract the
run checks implies them.

**Only model-checked:** the liveness properties `EventuallySettled`,
`EventuallyDecided`, `CadenceEnds`, `OrdinaryEnds`, `StuckEnds`, `ClaimEnds` and
`CatchesUp` (liveness under fairness and ENABLED are out of the prover's reach) and the four
violations, which need an instance. Every other property of a run is a theorem.

## What is modelled, and what is not

Modelled, checked and proved, each with the contract it implements: the command row
and its delivery, bulk retry, cadence control with pending fires, the projection
and reconciliation of tasks, external streams. `CadenceSweep` composes the tick of
the timeout worker with the schedules it expires.

Not modelled, and why (PROJECT.json says it for every component):

- The agent registry's NOTIFY and reconcile loop: `CommandDelivery` lets a delivery
  start at any time, so a lost or repeated wake-up is in it; that one comes at all
  is not assumed anywhere.
- Automation, the audit chain and the leader lock: each is a protocol of its own
  (outbox leases, a hash chain with retention, an advisory lock) and shares one
  fact only with what is modelled, that a verdict and its audit row commit
  together.
- Schedule health, agent health, exports, notifications: they read what is
  modelled and keep counters, leases or marks of their own.
- Authentication, limits, policy, the REST api, the dashboard: checks inside one
  request.
- Migrations, configuration, operator tooling: offline programs; the relations
  between settings are assumptions of the models.
- Within the modelled components: encodings and signatures of frames, pre-completed
  results, legacy grants and cutover of schedules, drain, seal and retirement of
  external streams, the planning of bulk retries, the choice of agents.
