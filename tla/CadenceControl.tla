---------------------------- MODULE CadenceControl ----------------------------
(***************************************************************************)
(* One schedule that the brain fires itself: the row under its control     *)
(* token and revision, the schedulers that fire from snapshots of it, the  *)
(* command or the buffered fire of every accepted occurrence, and the      *)
(* terminal holds that stop the schedule when an occurrence fails.         *)
(*                                                                         *)
(* Every action is one transaction under the row lock of the schedule      *)
(* (ScheduleControlRepository, PendingFiresRepository, the claim of        *)
(* CommandRepository).  What is not atomic is between them: a scheduler    *)
(* fires from a snapshot that may be long stale, its response may be lost, *)
(* and results, timeouts, replays and operators come in any order.         *)
(*                                                                         *)
(* Time is counted in slots.  A refused request changes nothing, so it is  *)
(* a stuttering step or, when its answer arrives, a Refresh.               *)
(***************************************************************************)
EXTENDS Naturals, FiniteSets

CONSTANTS
    Scheduler,      \* replicas of the scheduler process (external)
    Cadence,        \* the definitions an operator may choose: sets of slots
    MaxSlot,        \* bound: the last slot a behaviour reaches
    MaxToken,       \* bound: control tokens minted
    MaxRevision     \* bound: schedule revisions allocated

Slots == 1 .. MaxSlot
Tokens == 1 .. MaxToken
None == 0           \* NULL: no slot, no token, no revision

ASSUME CadenceAssumption == Cadence \subseteq SUBSET Slots
ASSUME BoundAssumption == MaxSlot \in Nat /\ MaxToken \in Nat \ {0} /\ MaxRevision \in Nat

\* fire_id is derived from the slot; an accepted occurrence is a slot and the
\* token (receipt) it was accepted under.
Key == [slot : Slots, token : Tokens]

Acceptances == [slot : Slots \cup {None}, token : Tokens \cup {None}, revision : Nat]
NoAcceptance == [slot |-> None, token |-> None, revision |-> None]

Rows == [present : BOOLEAN, enabled : BOOLEAN, paused : BOOLEAN, quarantined : BOOLEAN,
         token : Nat, revision : Nat, cadence : Cadence,
         last : Nat, next : Nat, acceptance : Acceptances]
Views == [token : Nat, revision : Nat, last : Nat, next : Nat, cadence : Cadence]

Unclaimed == {"pending"}
Outstanding == {"pending", "dispatched"}
Unsuccessful == {"failed", "timeout"}
Terminal == Unsuccessful \cup {"completed"}
CommandStates == {"none"} \cup Outstanding \cup Terminal

VARIABLES
    row,        \* Rows: the schedules row (quarantined: under the current token)
    view,       \* [Scheduler -> Views]: the snapshot each scheduler fires from
    command,    \* [Key -> CommandStates]: the cadence commands
    pending,    \* SUBSET Key: pending_fires
    fire,       \* [Key -> [status, revision]]: schedule_fires, with the
                \*   acceptance revision the command and the buffer carry too
    hold,       \* [Key -> {"none", "open", "skipped", "deleted"}]
    envelopes,  \* SUBSET Acceptances: accept_fire rows of the change log
    due,        \* SUBSET Key: the deadline of the key's command or buffer is past
    now         \* the Brain's clock plus the tolerated skew, in slots

vars == <<row, view, command, pending, fire, hold, envelopes, due, now>>
workVars == <<command, pending, fire, hold, envelopes, due>>

FireStates == {"none", "accepted", "buffered", "terminal", "buffer_stale", "buffer_expired"}

TypeOK ==
    /\ row \in Rows
    /\ view \in [Scheduler -> Views]
    /\ command \in [Key -> CommandStates]
    /\ pending \subseteq Key
    /\ fire \in [Key -> [status : FireStates, revision : Nat]]
    /\ hold \in [Key -> {"none", "open", "skipped", "deleted"}]
    /\ envelopes \subseteq Acceptances
    /\ due \subseteq Key
    /\ now \in 0 .. MaxSlot

-----------------------------------------------------------------------------
(* canonical_next_run_at: the first occurrence after a slot, or None *)

Later(c, s) == {o \in c : o > s}
Successor(c, s) ==
    IF Later(c, s) = {} THEN None
    ELSE CHOOSE o \in Later(c, s) : \A p \in Later(c, s) : o <= p

\* The cursor of a definition that has run (after its last slot) or has not
\* (after the moment it is planned at).
Anchored(c, last) == Successor(c, IF last = None THEN now ELSE last)

\* The occurrences the acceptance loop walks to from the next cursor.
Reachable(c, next) == {next} \cup Later(c, next)

EffectivelyEnabled == row.present /\ row.enabled /\ ~row.paused /\ ~row.quarantined

Snapshot(r) == [token |-> r.token, revision |-> r.revision, last |-> r.last,
                next |-> r.next, cadence |-> r.cadence]

\* Every transition allocates a revision; a change of the definition or of
\* is_enabled, and a resolution, also rotates the control token.
Revised(r) == [r EXCEPT !.revision = @ + 1]
Rotated(r) == [Revised(r) EXCEPT !.token = @ + 1, !.quarantined = FALSE]
CanRevise == row.present /\ row.revision < MaxRevision
CanRotate == CanRevise /\ row.token < MaxToken

Init ==
    /\ \E c \in Cadence, en \in BOOLEAN :
          row = [present |-> TRUE, enabled |-> en, paused |-> FALSE, quarantined |-> FALSE,
                 token |-> 1, revision |-> 1, cadence |-> c, last |-> None,
                 next |-> IF en THEN Successor(c, 0) ELSE None, acceptance |-> NoAcceptance]
    /\ view = [s \in Scheduler |-> Snapshot(row)]
    /\ command = [k \in Key |-> "none"]
    /\ pending = {}
    /\ fire = [k \in Key |-> [status |-> "none", revision |-> None]]
    /\ hold = [k \in Key |-> "none"]
    /\ envelopes = {}
    /\ due = {}
    /\ now = 0

-----------------------------------------------------------------------------
(* Time *)

Tick ==
    /\ now < MaxSlot
    /\ now' = now + 1
    /\ UNCHANGED <<row, view, workVars>>

\* The initial claim deadline, the redelivery deadline or the buffer expiry.
Elapse(k) ==
    /\ command[k] \in Outstanding \/ k \in pending
    /\ k \notin due
    /\ due' = due \cup {k}
    /\ UNCHANGED <<row, view, command, pending, fire, hold, envelopes, now>>

-----------------------------------------------------------------------------
(* The schedulers: FireSchedule and the cursor skip *)

\* A list, a watch or the answer to any request brings the live row.
Refresh(s) ==
    /\ row.present
    /\ view[s] # Snapshot(row)
    /\ view' = [view EXCEPT ![s] = Snapshot(row)]
    /\ UNCHANGED <<row, workVars, now>>

CurrentTokenOnly(v) == row.present /\ v.token = row.token   \* mutant: no revision, no cursor

\* The compare-and-set both requests make.
Current(v) ==
    /\ row.present
    /\ v.token = row.token
    /\ v.revision = row.revision
    /\ v.last = row.last
    /\ v.next = row.next

Prepared(v, slot) == Successor(v.cadence, slot)

\* The answer to a request, or its loss.
Answered(s, r) == view' = [view EXCEPT ![s] = Snapshot(r)] \/ UNCHANGED view

\* FireSchedule: progress, change log, and the command (or, with no agent for
\* the engine online, the buffered fire) commit together.
Accept(s, slot) ==
    LET v == view[s]
        k == [slot |-> slot, token |-> v.token]
        a == [slot |-> slot, token |-> v.token, revision |-> row.revision + 1]
        r == [Revised(row) EXCEPT !.last = slot, !.next = Prepared(v, slot), !.acceptance = a]
    IN  /\ CanRevise
        /\ Current(v)
        /\ EffectivelyEnabled
        /\ v.next # None
        /\ slot <= now
        /\ slot \in Reachable(row.cadence, v.next)
        /\ Prepared(v, slot) = Successor(row.cadence, slot)
        /\ row' = r
        /\ envelopes' = envelopes \cup {a}
        /\ \/ /\ command' = [command EXCEPT ![k] = "pending"]
              /\ fire' = [fire EXCEPT ![k] = [status |-> "accepted", revision |-> a.revision]]
              /\ UNCHANGED pending
           \/ /\ pending' = pending \cup {k}
              /\ fire' = [fire EXCEPT ![k] = [status |-> "buffered", revision |-> a.revision]]
              /\ UNCHANGED command
        /\ Answered(s, r)
        /\ UNCHANGED <<hold, due, now>>

\* advance_cursor: skip every occurrence up to a slot without work.
Skip(s, slot) ==
    LET v == view[s]
        r == [Revised(row) EXCEPT !.last = slot, !.next = Prepared(v, slot)]
    IN  /\ CanRevise
        /\ Current(v)
        /\ EffectivelyEnabled
        /\ v.next # None
        /\ slot >= v.next
        /\ slot <= now
        /\ Prepared(v, slot) = Successor(row.cadence, slot)
        /\ row' = r
        /\ Answered(s, r)
        /\ UNCHANGED <<workVars, now>>

\* QuarantineSchedule: the scheduler could not plan the definition (for a
\* reason that has not been recorded yet).
Quarantine(s) ==
    /\ CanRevise
    /\ view[s].token = row.token
    /\ row' = [Revised(row) EXCEPT !.enabled = FALSE, !.quarantined = TRUE]
    /\ UNCHANGED <<view, workVars, now>>

-----------------------------------------------------------------------------
(* The delivery of a command and its outcome *)

\* The schedule of the command is not consulted: what was accepted is sent.
Claim(k) ==
    /\ command[k] = "pending"
    /\ k \notin due
    /\ command' = [command EXCEPT ![k] = "dispatched"]
    /\ UNCHANGED <<row, view, pending, fire, hold, envelopes, due, now>>

ReportSuccessLate(k) ==     \* mutant: a result overrules the timeout
    /\ command[k] \in {"dispatched", "timeout"}
    /\ command' = [command EXCEPT ![k] = "completed"]
    /\ fire' = [fire EXCEPT ![k].status = "terminal"]
    /\ due' = due \ {k}
    /\ UNCHANGED <<row, view, pending, hold, envelopes, now>>

ReportSuccess(k) ==
    /\ command[k] = "dispatched"
    /\ command' = [command EXCEPT ![k] = "completed"]
    /\ fire' = [fire EXCEPT ![k].status = "terminal"]
    /\ due' = due \ {k}
    /\ UNCHANGED <<row, view, pending, hold, envelopes, now>>

\* k is the last occurrence accepted under the token in force.
Latest(k) ==
    /\ row.present
    /\ row.token = k.token
    /\ row.acceptance = [slot |-> k.slot, token |-> k.token, revision |-> fire[k].revision]

OpenHolds == {k \in Key : hold[k] = "open"}

NeverBlocked(k) == FALSE    \* mutant: a divergent open hold is not looked for

\* _lock_exact_terminal_hold raises on an open hold of another occurrence,
\* and the transaction that would end k rolls back.
Blocked(k) == Latest(k) /\ OpenHolds # {}

StopEnabled(k) ==           \* mutant: the hold is written, the schedule goes on
    IF Latest(k)
    THEN /\ hold' = [hold EXCEPT ![k] = "open"]
         /\ row' = Revised(row)
    ELSE UNCHANGED <<hold, row>>

\* The failure of the latest occurrence stops the schedule until an operator
\* decides; the failure of an earlier one is history.
Stop(k) ==
    IF Latest(k)
    THEN /\ hold' = [hold EXCEPT ![k] = "open"]
         /\ row' = [Revised(row) EXCEPT !.enabled = FALSE]
    ELSE UNCHANGED <<hold, row>>

Fail(k, status) ==
    /\ ~Blocked(k)
    /\ command' = [command EXCEPT ![k] = status]
    /\ fire' = [fire EXCEPT ![k].status = "terminal"]
    /\ due' = due \ {k}
    /\ Stop(k)
    /\ UNCHANGED <<view, pending, envelopes, now>>

\* apply_current_agent_result: a result after the timeout changes nothing.
ReportFailure(k) ==
    /\ command[k] = "dispatched"
    /\ Fail(k, "failed")

\* expire_current_schedule_delivery
Overdue(k) == command[k] \in Outstanding /\ k \in due
Expire(k) ==
    /\ Overdue(k)
    /\ Fail(k, "timeout")

-----------------------------------------------------------------------------
(* The buffer *)

ReplayPaused(k) ==          \* mutant: the pause is not looked at again
    /\ k \in pending
    /\ k \notin due
    /\ row.token = k.token
    /\ row.enabled
    /\ pending' = pending \ {k}
    /\ command' = [command EXCEPT ![k] = "pending"]
    /\ fire' = [fire EXCEPT ![k].status = "accepted"]
    /\ UNCHANGED <<row, view, hold, envelopes, due, now>>

ReplayKeeps(k) ==           \* mutant: the buffer is not deleted
    /\ k \in pending
    /\ k \notin due
    /\ row.token = k.token
    /\ row.enabled
    /\ ~row.paused
    /\ command' = [command EXCEPT ![k] = "pending"]
    /\ fire' = [fire EXCEPT ![k].status = "accepted"]
    /\ UNCHANGED <<row, view, pending, hold, envelopes, due, now>>

\* A deadline starts anew with the command of a replayed buffer.
Replay(k) ==
    /\ k \in pending
    /\ k \notin due
    /\ row.token = k.token
    /\ row.enabled
    /\ ~row.paused
    /\ pending' = pending \ {k}
    /\ command' = [command EXCEPT ![k] = "pending"]
    /\ fire' = [fire EXCEPT ![k].status = "accepted"]
    /\ UNCHANGED <<row, view, hold, envelopes, due, now>>

DropStale(k) ==
    /\ k \in pending
    /\ k \notin due
    /\ row.token # k.token
    /\ pending' = pending \ {k}
    /\ fire' = [fire EXCEPT ![k].status = "buffer_stale"]
    /\ UNCHANGED <<row, view, command, hold, envelopes, due, now>>

DropExpiredKeepsDeadline(k) ==  \* mutant: a deadline no buffer and no command has
    /\ k \in pending
    /\ k \in due
    /\ pending' = pending \ {k}
    /\ fire' = [fire EXCEPT ![k].status = "expired"]
    /\ UNCHANGED <<row, view, command, hold, envelopes, due, now>>

DropExpired(k) ==
    /\ k \in pending
    /\ k \in due
    /\ pending' = pending \ {k}
    /\ fire' = [fire EXCEPT ![k].status = "buffer_expired"]
    /\ due' = due \ {k}
    /\ UNCHANGED <<row, view, command, hold, envelopes, now>>

-----------------------------------------------------------------------------
(* The operator *)

SetPaused(b) ==
    /\ CanRevise
    /\ row.paused # b
    /\ row' = [Revised(row) EXCEPT !.paused = b]
    /\ UNCHANGED <<view, workVars, now>>

\* update_current on control fields: is_enabled, the cadence, or (en and c as
\* they are) the task.  The cursor is planned anew when the cadence changes or
\* the schedule is enabled, and only for a schedule that ends up enabled.
Update(en, c) ==
    LET replanned == en /\ (c # row.cadence \/ ~row.enabled)
    IN  /\ CanRotate
        /\ row' = [Rotated(row) EXCEPT
                      !.enabled = en,
                      !.cadence = c,
                      !.next = IF replanned THEN Anchored(c, row.last) ELSE @]
        /\ UNCHANGED <<view, workVars, now>>

ResolvedLastBack(k) == k.slot   \* mutant: a cursor that was skipped on goes back

\* The slot a resolution moves the cursor to.
ResolvedLast(k) == IF row.last < k.slot THEN k.slot ELSE row.last

\* resolve_terminal_occurrence: skip the held occurrence, which an operator
\* confirms may have run, and rotate.  The cursor moves only if the token of
\* the occurrence is still in force.
Resolve(k, en) ==
    LET advances == row.token = k.token
        last == IF advances THEN ResolvedLast(k) ELSE row.last
    IN  /\ CanRotate
        /\ hold[k] = "open"
        /\ hold' = [hold EXCEPT ![k] = "skipped"]
        /\ row' = [Rotated(row) EXCEPT
                      !.enabled = en,
                      !.last = last,
                      !.next = IF advances THEN Successor(row.cadence, last) ELSE @]
        /\ UNCHANGED <<view, command, pending, fire, envelopes, due, now>>

\* delete_current: the buffer goes, open holds close, commands stay.
Delete ==
    /\ CanRevise
    /\ row' = [Revised(row) EXCEPT !.present = FALSE]
    /\ hold' = [k \in Key |-> IF hold[k] = "open" THEN "deleted" ELSE hold[k]]
    /\ pending' = {}
    /\ due' = due \ pending
    /\ UNCHANGED <<view, command, fire, envelopes, now>>

-----------------------------------------------------------------------------
SchedulerNext ==
    \E s \in Scheduler :
       \/ Refresh(s) \/ Quarantine(s)
       \/ \E slot \in Slots : Accept(s, slot) \/ Skip(s, slot)

DeliveryNext ==
    \E k \in Key : Claim(k) \/ ReportSuccess(k) \/ ReportFailure(k)

BufferNext ==
    \E k \in Key : Replay(k) \/ DropStale(k) \/ DropExpired(k)

OperatorNext ==
    \/ Delete
    \/ \E b \in BOOLEAN : SetPaused(b)
    \/ \E en \in BOOLEAN, c \in Cadence : Update(en, c)
    \/ \E k \in Key, en \in BOOLEAN : Resolve(k, en)

TimeNext == Tick \/ \E k \in Key : Elapse(k)

\* Everything but the timeout worker.
OthersNext == SchedulerNext \/ DeliveryNext \/ BufferNext \/ OperatorNext \/ TimeNext

Next == OthersNext \/ \E k \in Key : Expire(k)

Spec == Init /\ [][Next]_vars

-----------------------------------------------------------------------------
(* Correctness *)

\* No occurrence is accepted twice, whatever snapshots the schedulers fire
\* from and however often the token rotates: the change log holds one
\* acceptance per slot.
AcceptedOnce ==
    \A a, b \in envelopes : a.slot = b.slot => a = b

\* One durable oracle per accepted occurrence: a buffered fire or a command,
\* never both, and the fire history says which, until the schedule is deleted.
OneOracle ==
    \A k \in Key :
       /\ k \in pending => command[k] = "none" /\ fire[k].status = "buffered"
       /\ fire[k].status = "buffered" /\ row.present => k \in pending
       /\ fire[k].status = "accepted" <=> command[k] \in Outstanding
       /\ fire[k].status = "terminal" <=> command[k] \in Terminal

\* A failed occurrence never passes silently: while it is the latest under
\* the token in force, its hold is open and the schedule is disabled.
FailureStops ==
    \A k \in Key :
       Latest(k) /\ command[k] \in Unsuccessful => hold[k] = "open" /\ ~row.enabled

\* The unique index: one unresolved hold of a schedule.
OneOpenHold == \A k, l \in OpenHolds : k = l

\* A cursor never moves back, so no slot that ran or was skipped comes again.
CursorForward == [][row'.last >= row.last]_vars

\* Work comes into being, by acceptance or out of the buffer, only under the
\* token in force and while no pause, disable, quarantine or delete is.
NoWorkUnderHold ==
    [][\A k \in Key :
          /\ command[k] = "none" /\ command'[k] # "none" => EffectivelyEnabled /\ k.token = row.token
          /\ fire[k].status = "none" /\ fire'[k].status # "none"
                => EffectivelyEnabled /\ k.token = row.token]_vars

-----------------------------------------------------------------------------
(* The contract: tokens, revisions, commands and buffers are hidden *)

Accepted(k) == fire[k].status # "none"

FateOf(k) ==
    CASE command[k] = "pending" \/ k \in pending -> "held"
      [] command[k] = "dispatched" -> "sent"
      [] command[k] = "completed" -> "done"
      [] command[k] \in Unsuccessful -> "failed"
      [] OTHER -> "dropped"

KeysAt(s) == {k \in Key : k.slot = s /\ Accepted(k)}
Fate(s) == IF KeysAt(s) = {} THEN "none" ELSE FateOf(CHOOSE k \in KeysAt(s) : TRUE)

\* The latest acceptance, while its receipt is the token in force.
LatestSlot ==
    IF row.present /\ row.acceptance.token = row.token THEN row.acceptance.slot ELSE None

Contract == INSTANCE ScheduleContract WITH
    Slot <- Slots,
    cursor <- row.last,
    latest <- LatestSlot,
    fate <- [s \in Slots |-> Fate(s)],
    deleted <- ~row.present

\* Seen from its occurrences, the schedule keeps the contract: an occurrence is
\* accepted once and in order, leaves once, has one outcome whatever result or
\* deadline comes late, and none follows a failed one before an operator has
\* changed or resolved the schedule.
ImplementsContract == Contract!Spec
=============================================================================
