---------------------------- MODULE TaskProjection ----------------------------
(***************************************************************************)
(* One row of the tasks table.  It is the projection of the lifecycle      *)
(* events that agents report: several agents may see the same broker       *)
(* event, every batch may be sent again, and the batches of different      *)
(* agents are ingested at the same time.  A task that stays open although  *)
(* its engine is done with it is probed, and the answer corrects the row.  *)
(*                                                                         *)
(* An event is ingested in a transaction of its own: its row in the event  *)
(* log, the clock reading it is judged by (guard), and up to four          *)
(* statements on the task row, between which others commit (READ           *)
(* COMMITTED).  The log knows an event by its kind and the second it is    *)
(* stamped with: reports of one event whose stamps are seconds apart are   *)
(* two events to it, and two events of one kind and second are one.        *)
(* The other events of a batch only lengthen the waits.  Deletion of tasks *)
(* by an administrator is left out.                                        *)
(***************************************************************************)
EXTENDS Naturals

CONSTANTS
    Agent,      \* agents that report the task, one batch in flight each
    Probe,      \* reconcile_task commands that can be out at a time
    Histories,  \* the histories the engine may give the task: sets of events
    Ahead,      \* _OCCURRED_AT_FUTURE_LIMIT
    SecondTicks,    \* clock ticks in a second
    MaxTime     \* the clock stops here

TerminalStates == {"success", "failure", "revoked"}

StateFor == [received |-> "received", started |-> "started", retried |-> "retry",
             succeeded |-> "success", failed |-> "failure", revoked |-> "revoked"]

Kind == DOMAIN StateFor
States == {StateFor[k] : k \in Kind} \cup {"pending"}

Time == 1 .. MaxTime

Stamps == 0 .. MaxTime + 1

\* What happened to the task and when, and the stamps its reports may carry:
\* several agents see one event, and the clock of a source may run ahead.  0 is
\* a stamp that is missing, unreadable or more than 400 days old.
Event == [kind : Kind, at : Time, stamps : SUBSET Stamps]

IsTerminal(e) == StateFor[e.kind] \in TerminalStates

ASSUME TaskAssumption ==
    /\ MaxTime \in Nat \ {0}
    /\ SecondTicks \in Nat \ {0}
    /\ Ahead \in Nat
    /\ Histories \subseteq SUBSET Event

VARIABLES
    history,    \* the events of this task
    now,
    row,        \* its projection
    log,        \* the events table: what has been ingested
    refused,    \* the rows of it that were not projected
    call,       \* call[a]: the event agent a is being served, if any
    probe,      \* probe[p]: the probe, if it is out
    orphaned    \* how often task.orphaned fired

vars == <<history, now, row, log, refused, call, probe, orphaned>>

Absent == [state |-> "absent", received |-> 0, started |-> 0, finished |-> 0,
           result |-> FALSE, error |-> FALSE, updated |-> 0]

Row == [state : States \cup {"absent"},
        received : 0 .. MaxTime, started : 0 .. MaxTime, finished : Stamps,
        result : BOOLEAN, error : BOOLEAN, updated : 0 .. MaxTime]

Idle == [at |-> "idle"]
Calls == [at : {"wait", "update", "exists", "insert"}, event : Event,
          occurred : 1 .. MaxTime + 1, guard : 0 .. MaxTime]

Home == [at |-> "home"]
Answers == {"pending", "started", "success", "failure", "unknown"}
Probes ==
    [at : {"issued"}, issued : Time]
        \cup [at : {"answered"}, issued : Time, asked : Time, answer : Answers]
        \cup [at : {"read"}, issued : Time, asked : Time, answer : Answers,
              seen : States, begun : Time]

\* The second of a time, and a row of the event log: which event, and of which
\* second.  Its id is derived from the kind and the second (task, project and
\* engine are the same here).
Second(t) == t \div SecondTicks
Seconds == {Second(t) : t \in 1 .. MaxTime + 1}
Entries == [event : Event, second : Seconds]
Id(x) == [kind |-> x.event.kind, second |-> x.second]

TypeOK ==
    /\ history \in Histories
    /\ now \in Time
    /\ row \in Row
    /\ log \subseteq Entries
    /\ refused \subseteq log
    /\ call \in [Agent -> Calls \cup {Idle}]
    /\ probe \in [Probe -> Probes \cup {Home}]
    /\ orphaned \in Nat

Init ==
    /\ history \in Histories
    /\ now = 1
    /\ row = Absent
    /\ log = {}
    /\ refused = {}
    /\ call = [a \in Agent |-> Idle]
    /\ probe = [p \in Probe |-> Home]
    /\ orphaned = 0

Tick ==
    /\ now < MaxTime
    /\ now' = now + 1
    /\ UNCHANGED <<history, row, log, refused, call, probe, orphaned>>

-----------------------------------------------------------------------------
(* The projection of an event *)

\* A source clock never becomes a watermark of the task: times end at guard.
ProjectedAt(a) ==
    IF call[a].occurred < call[a].guard THEN call[a].occurred ELSE call[a].guard

\* lifecycle_not_newer: a stored time beyond guard is folded to the event's.
NotNewer(t, guard) ==
    \A stored \in {row.received, row.started, row.finished} : stored > guard \/ stored <= t

EligibleUnfenced(e, t, guard) ==    \* mutant: no processing-order fence
    IF IsTerminal(e)
      THEN row.state \in TerminalStates => NotNewer(t, guard)
      ELSE row.state \notin TerminalStates /\ NotNewer(t, guard)

\* The fence keeps a call that waited behind a newer one from taking what that
\* one wrote for the clock skew of a source.
Eligible(e, t, guard) ==
    /\ row.updated <= guard
    /\ IF IsTerminal(e)
         THEN row.state \in TerminalStates => NotNewer(t, guard)
         ELSE row.state \notin TerminalStates /\ NotNewer(t, guard)

\* The fields an event of each kind writes.
WrittenKeepsError(r, e, t, guard) ==     \* mutant: a success keeps a stored exception
    [r EXCEPT !.state = StateFor[e.kind],
              !.updated = guard,
              !.received = IF e.kind = "received" THEN t ELSE @,
              !.started = IF e.kind = "started" THEN t ELSE @,
              !.finished = IF IsTerminal(e) THEN t ELSE @,
              !.result = e.kind = "succeeded" \/ (@ /\ ~IsTerminal(e)),
              !.error = e.kind = "failed" \/ (@ /\ e.kind # "revoked")]

Written(r, e, t, guard) ==
    [r EXCEPT !.state = StateFor[e.kind],
              !.updated = guard,
              !.received = IF e.kind = "received" THEN t ELSE @,
              !.started = IF e.kind = "started" THEN t ELSE @,
              !.finished = IF IsTerminal(e) THEN t ELSE @,
              !.result = e.kind = "succeeded" \/ (@ /\ ~IsTerminal(e)),
              !.error = e.kind = "failed" \/ (@ /\ ~IsTerminal(e))]

\* The row of the log that the event is.
Entry(a) == [event |-> call[a].event, second |-> Second(call[a].occurred)]

\* Its transaction has inserted it.
Holds(a) == call[a].at \in {"update", "exists", "insert"}

\* The event row and the projection commit together.
Apply(a) ==
    /\ row' = Written(row, call[a].event, ProjectedAt(a), call[a].guard)
    /\ log' = log \cup {Entry(a)}
    /\ call' = [call EXCEPT ![a] = Idle]
    /\ UNCHANGED <<history, now, refused, probe, orphaned>>

RefuseUnlogged(a) ==     \* mutant: the event row is not committed
    /\ refused' = refused \cup {Entry(a)}
    /\ call' = [call EXCEPT ![a] = Idle]
    /\ UNCHANGED <<history, now, row, log, probe, orphaned>>

Refuse(a) ==
    /\ log' = log \cup {Entry(a)}
    /\ refused' = refused \cup {Entry(a)}
    /\ call' = [call EXCEPT ![a] = Idle]
    /\ UNCHANGED <<history, now, row, probe, orphaned>>

Proceed(a, at) ==
    /\ call' = [call EXCEPT ![a].at = at]
    /\ UNCHANGED <<history, now, row, log, refused, probe, orphaned>>

\* _parse_datetime and _clamp_occurred_at: a report that carries no usable stamp,
\* or one too far ahead, is given the time of its delivery.
Occurred(s) == IF s = 0 \/ s > now + Ahead THEN now ELSE s

FreeAlways(id) == TRUE   \* mutant: what another agent is reporting is not waited for

\* No other agent's transaction has inserted the event.
Free(id) == \A b \in Agent : Holds(b) => Id(Entry(b)) # id

\* An agent reports an event, for the first time or again, and its row is inserted
\* into the log.  One with the same id in flight is waited for; a duplicate is not
\* projected, and changes nothing.  The clock is read when the row is in.
Ingest(a, e, s) ==
    LET t == Occurred(s)
        id == [kind |-> e.kind, second |-> Second(t)] IN
    /\ call[a] = Idle
    /\ e.at <= now
    /\ id \notin {Id(x) : x \in log}
    /\ call' = [call EXCEPT ![a] =
           IF Free(id) THEN [at |-> "update", event |-> e, occurred |-> t, guard |-> now]
                       ELSE [at |-> "wait", event |-> e, occurred |-> t, guard |-> 0]]
    /\ UNCHANGED <<history, now, row, log, refused, probe, orphaned>>

\* The other one has committed, or has been given up.
Awaited(a) ==
    /\ call[a].at = "wait"
    /\ Free(Id(Entry(a)))
    /\ call' = IF Id(Entry(a)) \in {Id(x) : x \in log}
                 THEN [call EXCEPT ![a] = Idle]
                 ELSE [call EXCEPT ![a].at = "update", ![a].guard = now]
    /\ UNCHANGED <<history, now, row, log, refused, probe, orphaned>>

\* The guarded UPDATE, and the look at the row when it changed none.
Update(a) ==
    /\ call[a].at = "update"
    /\ IF row.state = "absent" THEN Proceed(a, "exists")
       ELSE IF Eligible(call[a].event, ProjectedAt(a), call[a].guard) THEN Apply(a)
       ELSE Refuse(a)

\* The look comes later than the UPDATE that found no row.
Look(a) ==
    /\ call[a].at = "exists"
    /\ IF row.state = "absent" THEN Proceed(a, "insert") ELSE Refuse(a)

InsertBlindly(a) ==      \* mutant: the insert overwrites the row of the winner
    /\ call[a].at = "insert"
    /\ Apply(a)

\* An insert that loses its race is judged again by the winner's row.
Insert(a) ==
    /\ call[a].at = "insert"
    /\ IF row.state = "absent" \/ Eligible(call[a].event, ProjectedAt(a), call[a].guard)
         THEN Apply(a)
         ELSE Refuse(a)

AbortKeepsEvent(a) ==    \* mutant: the event row was committed on its own
    /\ Holds(a)
    /\ log' = log \cup {Entry(a)}
    /\ call' = [call EXCEPT ![a] = Idle]
    /\ UNCHANGED <<history, now, row, refused, probe, orphaned>>

\* The replica dies, or the database gives up: nothing is acknowledged, and the
\* agent sends the event again.
Abort(a) ==
    /\ call[a] # Idle
    /\ call' = [call EXCEPT ![a] = Idle]
    /\ UNCHANGED <<history, now, row, log, refused, probe, orphaned>>

-----------------------------------------------------------------------------
(* Reconciliation *)

\* What the engine says of the task at a time: it goes by the last thing that
\* happened.
Happened(t) == {e \in history : e.kind # "received" /\ e.at <= t}

Last(t) == CHOOSE e \in Happened(t) : \A f \in Happened(t) : f.at <= e.at

EngineState(t) ==
    IF Happened(t) = {} \/ Last(t).kind = "retried" THEN "pending"
    ELSE IF Last(t).kind = "revoked" THEN "unknown"
    ELSE StateFor[Last(t).kind]

\* When the task finished, if it says so.
Finishes(t) == {0} \cup (IF Happened(t) = {} THEN {} ELSE Last(t).stamps)

\* list_stuck_for_reconciliation: the age limit is left out, any listed task may
\* be old.
Stuck == row.state \in {"started", "pending", "retry"}

UnchangedEvents == UNCHANGED <<history, now, log, refused, call>>

IssueStarted(p) ==       \* mutant: a task that waits for its retry is not probed
    /\ row.state = "started"
    /\ probe[p] = Home
    /\ probe' = [probe EXCEPT ![p] = [at |-> "issued", issued |-> now]]
    /\ UNCHANGED <<row, orphaned>>
    /\ UnchangedEvents

\* One probe per task and sweep window; a probe of an earlier window may be out.
Issue(p) ==
    /\ Stuck
    /\ probe[p] = Home
    /\ probe' = [probe EXCEPT ![p] = [at |-> "issued", issued |-> now]]
    /\ UNCHANGED <<row, orphaned>>
    /\ UnchangedEvents

\* The agent asks the engine; its answer is on the way from here on.
Answer(p) ==
    /\ probe[p].at = "issued"
    /\ probe' = [probe EXCEPT ![p] =
           [at |-> "answered", issued |-> probe[p].issued, asked |-> now,
            answer |-> EngineState(now)]]
    /\ UNCHANGED <<row, orphaned>>
    /\ UnchangedEvents

AnyReading(p) == TRUE     \* mutant: the age of the answer is not looked at

\* A non-terminal answer is only good for a row written before the probe.
Fresh(p) == probe[p].answer \in TerminalStates \/ row.updated <= probe[p].issued

Drop(p) ==
    /\ probe' = [probe EXCEPT ![p] = Home]
    /\ UNCHANGED <<row, orphaned>>
    /\ UnchangedEvents

\* The row is read first, and an answer that changes nothing is dropped.
ReadRow(p) ==
    /\ probe[p].at = "answered"
    /\ IF /\ probe[p].answer # "unknown"
          /\ row.state \notin TerminalStates \cup {"absent", probe[p].answer}
          /\ Fresh(p)
         THEN /\ probe' = [probe EXCEPT ![p] =
                     [at |-> "read", issued |-> probe[p].issued, asked |-> probe[p].asked,
                      answer |-> probe[p].answer, seen |-> row.state, begun |-> now]]
              /\ UNCHANGED <<row, orphaned>>
              /\ UnchangedEvents
         ELSE Drop(p)

CorrectableAsRead(p) == TRUE    \* mutant: the UPDATE relies on the row as read

\* The WHERE clause of the UPDATE says it all again, and a non-terminal answer
\* also wants the state that was read.
Correctable(p) ==
    /\ row.state \notin TerminalStates \cup {probe[p].answer}
    /\ Fresh(p)
    /\ probe[p].answer \in TerminalStates \/ row.state = probe[p].seen

\* The columns it writes.  Any answer may come with a finish and an exception text,
\* that of a retry say: they fill what the row lacks and, whatever the answer, take
\* nothing away.  updated_at becomes the time at which this transaction began.
Corrected(p, finish, text) ==
    [row EXCEPT !.state = probe[p].answer,
                !.finished = IF @ = 0 THEN finish ELSE @,
                !.error = @ \/ text,
                !.updated = probe[p].begun]

Correct(p) ==
    /\ probe[p].at = "read"
    /\ IF Correctable(p)
         THEN /\ \E finish \in Finishes(probe[p].asked), text \in BOOLEAN :
                    row' = Corrected(p, finish, text)
              /\ orphaned' = IF probe[p].answer \in TerminalStates THEN orphaned + 1 ELSE orphaned
              /\ probe' = [probe EXCEPT ![p] = Home]
              /\ UnchangedEvents
         ELSE Drop(p)

\* The agent is away, the command times out, or the brain dies with the answer.
Lose(p) ==
    /\ probe[p] # Home
    /\ Drop(p)

-----------------------------------------------------------------------------
EventNext ==
    \E a \in Agent :
        \/ \E e \in history : \E s \in e.stamps : Ingest(a, e, s)
        \/ Awaited(a)
        \/ Update(a)
        \/ Look(a)
        \/ Insert(a)
        \/ Abort(a)

ProbeNext ==
    \E p \in Probe : Issue(p) \/ Answer(p) \/ ReadRow(p) \/ Correct(p) \/ Lose(p)

Next == Tick \/ EventNext \/ ProbeNext

\* The sweep goes on, and not every probe is lost.
Fairness ==
    \E p \in Probe :
        /\ SF_vars(Issue(p))
        /\ SF_vars(Answer(p))
        /\ SF_vars(ReadRow(p))
        /\ SF_vars(Correct(p))

Spec == Init /\ [][Next]_vars
FairSpec == Spec /\ Fairness

-----------------------------------------------------------------------------
(* Correctness *)

Ended == row.state \in TerminalStates

\* Whatever events, retransmissions and probes come in whatever order, a task
\* that is shown finished is never shown open again.
TerminalStays == [][Ended => row'.state \in TerminalStates]_vars

\* A newer outcome is not overwritten by an older one, although replicas judge
\* by clock readings they took earlier; unless the stored finish lay ahead of
\* the clock of whoever wrote it, as a probe's may.
OutcomeForward ==
    [][Ended /\ row.finished <= row.updated => row'.finished >= row.finished]_vars

\* A result is only shown beside a success, and never together with an exception;
\* a revoked task shows neither.  An exception may stand alone beside anything
\* else: an answer brings it with whatever state the engine tells.
DetailsAgree ==
    /\ row.result => row.state = "success" /\ ~row.error
    /\ row.state = "revoked" => ~row.error

\* Its reports are all stamped in one second, and never ahead of what the clamp
\* lets pass: what the second in the id is chosen for.
Steady(e) ==
    \A s, t \in e.stamps : s # 0 /\ s <= e.at + Ahead /\ Second(s) = Second(t)

\* A steady event is projected once at most, however many agents report it, at
\* once or again: automation fires on its projection.
ProjectedOnce ==
    [][\A a \in Agent :
          Holds(a) /\ call'[a] = Idle /\ row' # row /\ Steady(call[a].event)
          => \A x \in log : x.event # call[a].event]_vars

\* An outcome in the event log, which no retransmission brings back, is shown or
\* was turned down in the light of a row.
OutcomeKept ==
    \A x \in log : IsTerminal(x.event) => Ended \/ x \in refused

\* A correction is of a task that is not shown finished, and there is one: the
\* rules on task.orphaned run once.
OrphanedOnce == [][orphaned' # orphaned => ~Ended /\ orphaned = 0]_vars

\* The answer that a task is still pending or running does not overrule an event
\* that happened after the engine was asked.
LaterEventKept ==
    [][\A p \in Probe :
          /\ probe[p].at = "read"
          /\ probe[p].answer \notin TerminalStates
          /\ row' # row /\ probe'[p] = Home
          => \A x \in log \ refused : x.event.at <= probe[p].asked]_vars

\* A task that the worker lists and the engine has finished is shown finished in
\* the end, although every event that said so may be lost; unless the engine no
\* longer tells, or a late event puts the task back to received, a state the
\* worker does not list.
StuckEnds ==
    Stuck /\ EngineState(now) \in TerminalStates
        ~> Ended \/ EngineState(now) = "unknown" \/ row.state = "received"

\* "an insert race retries the same conditional update against the winner's row"
\* and "terminal always wins over a currently non-terminal row" (tasks.py): an
\* outcome is turned down by a finished row or by a write that was judged by a
\* later clock reading.
TerminalWins ==
    [][\A a \in Agent :
          Holds(a) /\ Entry(a) \in refused' \ refused /\ IsTerminal(call[a].event)
          => Ended \/ row.updated > call[a].guard]_vars

-----------------------------------------------------------------------------
(* The contract: statements, clock readings, times and probes are hidden *)

Detail ==
    CASE row.result /\ row.error -> "both"
      [] row.result /\ ~row.error -> "result"
      [] ~row.result /\ row.error -> "error"
      [] ~row.result /\ ~row.error -> "none"

Contract == INSTANCE TaskContract WITH
    log <- {Id(x) : x \in log},
    refused <- {Id(x) : x \in refused},
    shown <- row.state,
    detail <- Detail

\* An event whose statements other transactions come between has the effect of
\* one step at its commit, and so has an answer that was read before.
ImplementsContract == Contract!Spec
=============================================================================
