------------------------------- MODULE BulkRetry -------------------------------
(***************************************************************************)
(* One durable bulk-retry request: a sealed parent whose children leave as *)
(* irreversible commands, at most MaxInFlight unobserved at a time.        *)
(*                                                                         *)
(* A worker is one delivery attempt, the coordinator's _send_one or one    *)
(* child of a poll; a coordinator is the first transaction of a tick, on   *)
(* any replica.  The claim is a transaction that locks the agent's row and *)
(* then the parent's, and holds both to its commit: the two steps that     *)
(* matter are the one that locks and reads and the one that writes.  Which *)
(* engines and agents a child may go to is left out: any agent is eligible.*)
(***************************************************************************)
EXTENDS CommandRow, FiniteSets

CONSTANTS
    Child,              \* tasks a request may select, one child each
    NoChild,
    Worker,             \* delivery attempts
    NoWorker,
    Coordinator,        \* coordinator ticks
    MaxInFlight,        \* settings.bulk_retry_max_in_flight
    ParentWindow,       \* settings.bulk_retry_parent_timeout_seconds
    MaxControls         \* bound: pause and resume requests in a behaviour

ASSUME BulkAssumption ==
    /\ IsFiniteSet(Child)       \* bulk requests select at most a configured maximum
    /\ NoChild \notin Child
    /\ NoWorker \notin Worker
    /\ MaxInFlight \in Nat \ {0}
    /\ ParentWindow \in Nat \ {0}
    /\ MaxControls \in Nat

VARIABLES
    control,    \* control_state of the parent, or "UNSEALED"
    left,       \* time until the parent's deadline_at
    lock,       \* the worker whose transaction holds the parent's row
    child,      \* [Child -> Children]
    row,        \* [Child -> Rows]: the child's command
    live,       \* [Agent -> BOOLEAN]: agents.revoked_at IS NULL
    job,        \* [Worker -> Jobs]
    scan,       \* [Coordinator -> Scans]: terminal commands a tick has read
    sends,      \* [Child -> Nat]: copies that may have left
    controls    \* Nat: pause and resume requests so far

vars == <<control, left, lock, child, row, live, job, scan, sends, controls>>
parentVars == <<control, left, controls>>

Outcomes == {"UNOBSERVED", "SUCCEEDED", "FAILED", "UNKNOWN"}
Delivery == {"ABSENT", "PENDING", "CLAIMED"}
Children == [delivery: Delivery, outcome: Outcomes, ttl: 0 .. ResponseWindow]
Observable == TerminalStatus \cup {"TIMEOUT"}
Scans == [busy: BOOLEAN, seen: [Child -> Observable \cup {"none"}]]
Jobs == [pc: {"idle", "picked", "locked", "claimed"}, via: {"none", "websocket", "longpoll"},
         child: Child \cup {NoChild}, agent: Agent \cup {NoAgent}]

IdleJob == [pc |-> "idle", via |-> "none", child |-> NoChild, agent |-> NoAgent]
IdleScan == [busy |-> FALSE, seen |-> [c \in Child |-> "none"]]
AbsentChild == [delivery |-> "ABSENT", outcome |-> "UNOBSERVED", ttl |-> 0]

TypeOK ==
    /\ control \in {"UNSEALED", "RUNNING", "PAUSED", "BLOCKED"}
    /\ left \in 0 .. ParentWindow
    /\ lock \in Worker \cup {NoWorker}
    /\ child \in [Child -> Children]
    /\ row \in [Child -> Rows]
    /\ live \in [Agent -> BOOLEAN]
    /\ job \in [Worker -> Jobs]
    /\ scan \in [Coordinator -> Scans]
    /\ sends \in [Child -> Nat]
    /\ controls \in 0 .. MaxControls

Init ==
    /\ control = "UNSEALED" /\ left = 0 /\ lock = NoWorker
    /\ child = [c \in Child |-> AbsentChild]
    /\ row = [c \in Child |-> AbsentRow]
    /\ live = [a \in Agent |-> TRUE]
    /\ job = [w \in Worker |-> IdleJob]
    /\ scan = [k \in Coordinator |-> IdleScan]
    /\ sends = [c \in Child |-> 0]
    /\ controls = 0

Pending == {c \in Child : child[c].delivery = "PENDING"}
Unobserved == {c \in Child : child[c].delivery = "CLAIMED" /\ child[c].outcome = "UNOBSERVED"}

-----------------------------------------------------------------------------
(* The request: sealed once, paused and resumed by its user *)

\* create_bulk_retry_request: the unique key lets one of several creators in;
\* the others, and every replay, return what it sealed.
Seal(plan) ==
    /\ control = "UNSEALED"
    /\ control' = "RUNNING"
    /\ left' = ParentWindow
    /\ child' = [c \in Child |-> IF c \in plan THEN [AbsentChild EXCEPT !.delivery = "PENDING"]
                                               ELSE AbsentChild]
    /\ UNCHANGED <<lock, row, live, job, scan, sends, controls>>

\* set_control_state locks the parent's row.
\* Mutant: it does not wait for the lock.
ParentFreeAlways == TRUE
ParentFree == lock = NoWorker

Pause ==
    /\ control # "UNSEALED" /\ controls < MaxControls /\ ParentFree
    /\ control' = "PAUSED"
    /\ controls' = controls + 1
    /\ UNCHANGED <<left, lock, child, row, live, job, scan, sends>>

Resume ==
    /\ control # "UNSEALED" /\ controls < MaxControls /\ ParentFree
    /\ control' = "RUNNING"
    /\ left' = ParentWindow
    /\ controls' = controls + 1
    /\ UNCHANGED <<lock, child, row, live, job, scan, sends>>

-----------------------------------------------------------------------------
(* Claim and delivery of one child *)

MayClaim ==
    /\ control = "RUNNING" /\ left > 0
    /\ Cardinality(Unobserved) < MaxInFlight

\* fair_parent_ids and pending_children, and a session that may take the child.
Pick(w, c, a) ==
    /\ job[w].pc = "idle"
    /\ MayClaim
    /\ c \in Pending
    /\ \E via \in {"websocket", "longpoll"} :
          job' = [job EXCEPT ![w] = [pc |-> "picked", via |-> via, child |-> c, agent |-> a]]
    /\ UNCHANGED <<parentVars, lock, child, row, live, scan, sends>>

\* claim_child, up to its UPDATE: lock the agent and the parent, and check again.
\* Mutant: what the scan found is not checked again under the lock.
LockClaimUnchecked(w) ==
    /\ job[w].pc = "picked" /\ lock = NoWorker
    /\ IF live[job[w].agent] /\ control = "RUNNING" /\ left > 0
       THEN job' = [job EXCEPT ![w].pc = "locked"] /\ lock' = w
       ELSE job' = [job EXCEPT ![w] = IdleJob] /\ lock' = lock
    /\ UNCHANGED <<parentVars, child, row, live, scan, sends>>
LockClaim(w) ==
    /\ job[w].pc = "picked" /\ lock = NoWorker
    /\ IF live[job[w].agent] /\ MayClaim
       THEN job' = [job EXCEPT ![w].pc = "locked"] /\ lock' = w
       ELSE job' = [job EXCEPT ![w] = IdleJob] /\ lock' = lock
    /\ UNCHANGED <<parentVars, child, row, live, scan, sends>>

\* A child may be answered until the earlier of the two deadlines.
ClaimWindow == IF left < ResponseWindow THEN left ELSE ResponseWindow

\* The child's command is born DISPATCHED and has no idempotency key: nothing
\* re-issues, reverts or redispatches it.
\* Mutant: the command may be answered for longer than the child.
ChildCommandUncut(a) ==
    [Inserted(a) EXCEPT !.status = "DISPATCHED", !.generation = 1]
ChildCommand(a) ==
    [Inserted(a) EXCEPT !.status = "DISPATCHED", !.generation = 1, !.ttl = ClaimWindow]

\* Mutant: the UPDATE does not ask whether the child is still pending.
StillPendingUnchecked(c) == TRUE
StillPending(c) == child[c].delivery = "PENDING"

CommitClaim(w) ==
    LET c == job[w].child IN
    /\ job[w].pc = "locked"
    /\ lock' = NoWorker
    /\ IF StillPending(c)
       THEN /\ child' = [child EXCEPT ![c] = [delivery |-> "CLAIMED", outcome |-> "UNOBSERVED",
                                              ttl |-> ClaimWindow]]
            /\ row' = [row EXCEPT ![c] = ChildCommand(job[w].agent)]
            /\ job' = [job EXCEPT ![w].pc = "claimed"]
       ELSE /\ job' = [job EXCEPT ![w] = IdleJob]
            /\ UNCHANGED <<child, row>>
    /\ UNCHANGED <<parentVars, live, scan, sends>>

\* The push, under the live agent's lock.  One that fails after its bytes left
\* is this action; one that fails before is Abort: neither gives the claim back.
WsSend(w) ==
    /\ job[w].pc = "claimed" /\ job[w].via = "websocket"
    /\ live[job[w].agent]
    /\ sends' = [sends EXCEPT ![job[w].child] = @ + 1]
    /\ job' = [job EXCEPT ![w] = IdleJob]
    /\ UNCHANGED <<parentVars, lock, child, row, live, scan>>

-----------------------------------------------------------------------------
(* What is known of a claimed child *)

\* reconcile_command_outcomes: the rows its SELECT returns.
Projectable(ch, r) ==
    /\ ch.delivery = "CLAIMED"
    /\ \/ ch.outcome = "UNOBSERVED" /\ r.status \in Observable
       \/ ch.outcome = "UNKNOWN" /\ r.status \in TerminalStatus

OutcomeOf(status) ==
    CASE status = "COMPLETED" -> "SUCCEEDED"
      [] status = "FAILED" -> "FAILED"
      [] OTHER -> "UNKNOWN"

\* ... and the UPDATE it makes of each: a result refines UNKNOWN, a timeout
\* only what nobody has observed, and neither if the command has moved on.
\* Mutant: a row read as timed out overwrites what was projected since.
ProjectedBlindly(ch, r, seen) == [ch EXCEPT !.outcome = OutcomeOf(seen)]
Projected(ch, r, seen) ==
    IF /\ r.status = seen
       /\ ch.outcome = "UNOBSERVED" \/ (ch.outcome = "UNKNOWN" /\ seen # "TIMEOUT")
    THEN [ch EXCEPT !.outcome = OutcomeOf(seen)]
    ELSE ch

\* handle_result: transition, audit and projection are one transaction, which
\* writes last_progress_at of the parent. Only an agent that was sent the child
\* can answer it.
HandleResult(c, a, outcome) ==
    /\ sends[c] > 0 /\ live[a] /\ row[c].owner = a
    /\ CanMarkTerminal(row[c], TRUE)
    /\ row' = [row EXCEPT ![c] = MarkTerminal(@, outcome)]
    /\ child' = [child EXCEPT ![c] = Projected(@, row'[c], outcome)]
    /\ child' # child => lock = NoWorker
    /\ UNCHANGED <<parentVars, lock, live, job, scan, sends>>

\* Every poll that claimed a child also projects as many terminal commands,
\* here one, the oldest whatever child it is of.
ProjectOldest ==
    LET found == {d \in Child : Projectable(child[d], row'[d])} IN
    IF found = {}
    THEN child' = child
    ELSE /\ lock = NoWorker
         /\ \E d \in found : child' = [child EXCEPT ![d] = Projected(@, row'[d], row'[d].status)]

\* The poll signs the frame of its child and returns it ...
PollRespond(w) ==
    /\ job[w].pc = "claimed" /\ job[w].via = "longpoll"
    /\ row' = row /\ ProjectOldest
    /\ sends' = [sends EXCEPT ![job[w].child] = @ + 1]
    /\ job' = [job EXCEPT ![w] = IdleJob]
    /\ UNCHANGED <<parentVars, lock, live, scan>>

\* ... or cannot sign it, and fails its command.
PollSignFails(w) ==
    LET c == job[w].child IN
    /\ job[w].pc = "claimed" /\ job[w].via = "longpoll"
    /\ row' = IF CanMarkTerminal(row[c], TRUE)
              THEN [row EXCEPT ![c] = MarkTerminal(@, "FAILED")]
              ELSE row
    /\ ProjectOldest
    /\ job' = [job EXCEPT ![w] = IdleJob]
    /\ UNCHANGED <<parentVars, lock, live, scan, sends>>

\* BulkRetryCoordinator.tick, first transaction: read the terminal commands ...
ScanRead(k) ==
    /\ ~scan[k].busy
    /\ scan' = [scan EXCEPT ![k] = [busy |-> TRUE, seen |->
                  [c \in Child |-> IF Projectable(child[c], row[c]) THEN row[c].status ELSE "none"]]]
    /\ UNCHANGED <<parentVars, lock, child, row, live, job, sends>>

\* expire_claims: the deadline of a claim has passed unobserved.
\* Mutant: observed or not.
LapsedAnyOutcome(ch) == ch.delivery = "CLAIMED" /\ ch.ttl = 0
Lapsed(ch) == ch.delivery = "CLAIMED" /\ ch.outcome = "UNOBSERVED" /\ ch.ttl = 0

Reconciled(ch, r, seen) ==
    LET projected == IF seen = "none" THEN ch ELSE Projected(ch, r, seen) IN
    IF Lapsed(projected) THEN [projected EXCEPT !.outcome = "UNKNOWN"] ELSE projected

\* block_expired_parents
\* Mutant: it waits until nothing is pending.
MustBlockLate == control = "RUNNING" /\ left = 0 /\ Pending = {}
MustBlock == control = "RUNNING" /\ left = 0 /\ Pending # {}

\* ... project them, expire claims, and block a parent out of time.  Its row is
\* written, under its lock, when something was projected or it is blocked.
ScanWrite(k) ==
    /\ scan[k].busy
    /\ child' = [c \in Child |-> Reconciled(child[c], row[c], scan[k].seen[c])]
    /\ control' = IF MustBlock THEN "BLOCKED" ELSE control
    /\ child' # child \/ MustBlock => lock = NoWorker
    /\ scan' = [scan EXCEPT ![k] = IdleScan]
    /\ UNCHANGED <<left, lock, row, live, job, sends, controls>>

-----------------------------------------------------------------------------
(* The rest of the control plane *)

\* CommandTimeoutWorker's sweep of the children's commands.
Sweep ==
    /\ \E c \in Child : CanExpire(row[c])
    /\ row' = [c \in Child |-> IF CanExpire(row[c]) THEN Expire(row[c]) ELSE row[c]]
    /\ UNCHANGED <<parentVars, lock, child, live, job, scan, sends>>

\* The revocation waits for a claim that holds the agent's row.
Revoke(a) ==
    /\ live[a]
    /\ \A w \in Worker : ~(job[w].pc = "locked" /\ job[w].agent = a)
    /\ live' = [live EXCEPT ![a] = FALSE]
    /\ UNCHANGED <<parentVars, lock, child, row, job, scan, sends>>

\* The process dies: its transaction rolls back and its locks are free.
AbortJob(w) ==
    /\ job[w].pc # "idle"
    /\ job' = [job EXCEPT ![w] = IdleJob]
    /\ lock' = IF lock = w THEN NoWorker ELSE lock
    /\ UNCHANGED <<parentVars, child, row, live, scan, sends>>

AbortScan(k) ==
    /\ scan[k].busy
    /\ scan' = [scan EXCEPT ![k] = IdleScan]
    /\ UNCHANGED <<parentVars, lock, child, row, live, job, sends>>

Sooner(t) == IF t > 0 THEN t - 1 ELSE 0
Tick ==
    /\ left' = Sooner(left)
    /\ child' = [c \in Child |-> [child[c] EXCEPT !.ttl = Sooner(@)]]
    /\ row' = [c \in Child |-> Aged(row[c])]
    /\ <<left', child', row'>> # <<left, child, row>>
    /\ UNCHANGED <<control, lock, live, job, scan, sends, controls>>

Next ==
    \/ \E plan \in SUBSET Child : Seal(plan)
    \/ Pause \/ Resume
    \/ \E w \in Worker :
          \/ \E c \in Child, a \in Agent : Pick(w, c, a)
          \/ LockClaim(w) \/ CommitClaim(w) \/ WsSend(w) \/ PollRespond(w)
          \/ PollSignFails(w) \/ AbortJob(w)
    \/ \E c \in Child, a \in Agent, outcome \in TerminalStatus : HandleResult(c, a, outcome)
    \/ \E k \in Coordinator : ScanRead(k) \/ ScanWrite(k) \/ AbortScan(k)
    \/ \E a \in Agent : Revoke(a)
    \/ Sweep
    \/ Tick

Spec == Init /\ [][Next]_vars

\* The clock goes on, the coordinator ticks and not every tick of it dies, and a
\* transaction that holds the parent's lock ends.  Nothing is promised of agents, deliveries or the sweep.
FairSpec ==
    /\ Spec
    /\ WF_vars(Tick)
    /\ \A k \in Coordinator : WF_vars(ScanRead(k)) /\ SF_vars(ScanWrite(k))
    /\ \A w \in Worker : WF_vars(CommitClaim(w))

-----------------------------------------------------------------------------
(* Properties *)

\* claim_child: a child has a command from its claim on, and as long as the command
\* is open the two run out together: the sweep of the commands and expire_claims,
\* which never meet, judge the child by one deadline.
CommandMatches ==
    \A c \in Child :
        /\ row[c].status # "ABSENT" <=> child[c].delivery = "CLAIMED"
        /\ IsOpen(row[c]) => row[c].ttl = child[c].ttl

WellFormed == TypeOK /\ CommandMatches

\* claim_child: however many replicas and polls claim at once, no more than
\* max_in_flight children of a parent are out without an observed outcome.
InFlightBounded == Cardinality(Unobserved) <= MaxInFlight

\* _send_one: a claim is irreversible.  A child leaves once at most, whatever
\* fails, dies, times out or is resumed.
ChildSentOnce == \A c \in Child : sends[c] <= 1

\* reconcile_command_outcomes: what a child shows is what its command came to.
\* A result the agent gave is shown at once, a result is never shown without
\* one, and no timeout hides it.
OutcomeTruthful ==
    \A c \in Child :
        /\ child[c].outcome = "SUCCEEDED" <=> row[c].status = "COMPLETED"
        /\ child[c].outcome = "FAILED" => row[c].status = "FAILED"
        /\ child[c].outcome # "UNOBSERVED" => child[c].delivery = "CLAIMED"

\* set_control_state and claim_child, which both lock the parent: once a pause
\* is committed no child is claimed, not even by a claim that was under way.
NoClaimWhileStopped ==
    [][control # "RUNNING" =>
          \A c \in Child : child'[c].delivery = "CLAIMED" => child[c].delivery = "CLAIMED"]_vars

\* derive_bulk_retry_status
With(outcome) == {c \in Child : child[c].delivery = "CLAIMED" /\ child[c].outcome = outcome}
Sealed == {c \in Child : child[c].delivery # "ABSENT"}
Unfinished == Pending # {} \/ Unobserved # {}
WaitingStatus ==
    CASE control = "PAUSED" -> "paused"
      [] control = "BLOCKED" -> "blocked"
      [] OTHER -> "in_progress"
FinalStatus ==
    CASE With("SUCCEEDED") = Sealed -> "succeeded"
      [] With("FAILED") = Sealed -> "failed"
      [] With("UNKNOWN") = Sealed -> "indeterminate"
      [] OTHER -> "partial"
ParentStatus ==
    IF Sealed = {} THEN "no_match" ELSE IF Unfinished THEN WaitingStatus ELSE FinalStatus

\* The public status of a request: once it is "succeeded" or "failed" no late
\* result, sweep, pause or resume changes it; "indeterminate" may still be
\* refined, but is never unfinished again.
VerdictStands ==
    [][/\ ParentStatus \in {"succeeded", "failed"} => ParentStatus' = ParentStatus
       /\ ParentStatus \in {"indeterminate", "partial"} =>
             ParentStatus' \in {"indeterminate", "partial", "succeeded", "failed"}]_vars

\* BulkRetryCoordinator: a request does not stay in progress for ever; it ends,
\* is paused, or runs out of its window (MaxControls bounds the new windows).
EventuallyDecided == ParentStatus = "in_progress" ~> ParentStatus # "in_progress"

-----------------------------------------------------------------------------
(* The contract: locks, attempts, scans and commands are hidden *)

FateOf(ch) == IF ch.delivery = "CLAIMED" THEN ch.outcome ELSE ch.delivery

Contract == INSTANCE BulkContract WITH
    fate <- [c \in Child |-> FateOf(child[c])],
    copies <- sends

\* Seen from its children, a request keeps the contract: the claim that is two
\* steps here, with other replicas, pauses and a block in between, takes effect
\* at its commit as if it were one.
ImplementsContract == Contract!Spec
===============================================================================
