------------------------------ MODULE CommandRow ------------------------------
(***************************************************************************)
(* The durable command row and the guarded UPDATEs of CommandRepository.   *)
(* Every transition of the repository is one SQL statement whose WHERE     *)
(* clause is the guard (Can...) and whose VALUES are the new row.          *)
(* CommandDelivery and BulkRetry interleave these statements.              *)
(*                                                                         *)
(* Time is kept as distances: ttl is what is left until timeout_at and age *)
(* is what has passed since dispatched_at, both in clock ticks.  A         *)
(* generation is the identity of a claim, the dispatched_at the database   *)
(* clock stamped; here it is the number of the claim.                      *)
(***************************************************************************)
EXTENDS Integers

CONSTANTS
    Agent,              \* rows of the agents table
    NoAgent,            \* the owner of a row that does not exist yet
    ResponseWindow,     \* settings.command_timeout_seconds
    RedispatchWindow,   \* settings.agent_longpoll_redispatch_seconds
    MinInterval         \* settings.agent_longpoll_redispatch_min_interval_seconds

ASSUME AgentAssumption == NoAgent \notin Agent

\* Settings refuses any other combination (settings.py, ConfigError).
ASSUME WindowAssumption ==
    /\ ResponseWindow \in Nat /\ RedispatchWindow \in Nat /\ MinInterval \in Nat
    /\ 1 <= MinInterval
    /\ MinInterval < RedispatchWindow
    /\ MinInterval <= ResponseWindow

NoGeneration == 0       \* dispatched_at IS NULL

OpenStatus == {"PENDING", "DISPATCHED"}
TerminalStatus == {"COMPLETED", "FAILED"}
Status == {"ABSENT", "TIMEOUT"} \cup OpenStatus \cup TerminalStatus

\* closed: completed_at IS NOT NULL
Rows == [status: Status, owner: Agent \cup {NoAgent}, generation: Nat,
         ttl: 0 .. ResponseWindow, age: 0 .. RedispatchWindow + 1, closed: BOOLEAN]

AbsentRow == [status |-> "ABSENT", owner |-> NoAgent, generation |-> NoGeneration,
              ttl |-> 0, age |-> 0, closed |-> FALSE]

\* insert: a new row waits for its first delivery until timeout_at.
Inserted(a) == [status |-> "PENDING", owner |-> a, generation |-> NoGeneration,
                ttl |-> ResponseWindow, age |-> 0, closed |-> FALSE]

IsOpen(r) == r.status \in OpenStatus

\* mark_dispatched: the response window restarts at every initial claim.
CanMarkDispatched(r) == r.status = "PENDING"
\* Mutant: the claim is not stamped.
MarkDispatchedUnstamped(r, g) ==
    [r EXCEPT !.status = "DISPATCHED", !.ttl = ResponseWindow, !.age = 0]
MarkDispatched(r, g) ==
    [r EXCEPT !.status = "DISPATCHED", !.generation = g,
              !.ttl = ResponseWindow, !.age = 0]

\* revert_dispatch: a compare-and-swap on the generation, unless the caller's
\* expected_dispatched_at is None, in which case the predicate is left out.
CanRevertDispatch(r, expected) ==
    /\ r.status \in {"DISPATCHED", "TIMEOUT"}
    /\ expected # NoGeneration => r.generation = expected
\* Mutant: the rearmed row keeps completed_at.
RevertDispatchKeepsClosed(r) ==
    [r EXCEPT !.status = "PENDING", !.generation = NoGeneration, !.age = 0]
RevertDispatch(r) ==
    [r EXCEPT !.status = "PENDING", !.generation = NoGeneration,
              !.age = 0, !.closed = FALSE]

\* ... with timeout_seconds and new_agent_id, as the dispatcher's re-drive calls it.
Redrive(r, a) == [RevertDispatch(r) EXCEPT !.ttl = ResponseWindow, !.owner = a]

\* reassign_pending_owner
CanReassign(r) == r.status = "PENDING"
Reassign(r, a) == [r EXCEPT !.owner = a]

\* claim_redispatch: timeout_at is left alone.
CanClaimRedispatch(r, seen) ==
    /\ r.status = "DISPATCHED"
    /\ r.generation = seen
    /\ r.age >= MinInterval
ClaimRedispatch(r, g) == [r EXCEPT !.generation = g, !.age = 0]

\* mark_completed, mark_failed: only a bulk-retry child may refine TIMEOUT.
\* Mutant: every late result refines TIMEOUT.
CanMarkTerminalLate(r, isBulkChild) == IsOpen(r) \/ r.status = "TIMEOUT"
CanMarkTerminal(r, isBulkChild) ==
    IsOpen(r) \/ (isBulkChild /\ r.status = "TIMEOUT")
MarkTerminal(r, outcome) == [r EXCEPT !.status = outcome, !.closed = TRUE]

\* sweep_timeouts: timeout_at < now.
\* Mutant: a command no agent ever claimed is not swept.
CanExpireDispatched(r) == r.status = "DISPATCHED" /\ r.ttl = 0
CanExpire(r) == IsOpen(r) /\ r.ttl = 0
Expire(r) == [r EXCEPT !.status = "TIMEOUT", !.closed = TRUE]

\* _dispatch_is_fresh
IsFresh(r) == r.generation # NoGeneration /\ r.age < RedispatchWindow

\* One tick of the clock, as the row sees it.
Aged(r) ==
    IF IsOpen(r)
    THEN [r EXCEPT !.ttl = IF r.ttl > 0 THEN r.ttl - 1 ELSE 0,
                   !.age = IF r.status = "DISPATCHED" /\ r.age <= RedispatchWindow
                           THEN r.age + 1 ELSE r.age]
    ELSE r
===============================================================================
