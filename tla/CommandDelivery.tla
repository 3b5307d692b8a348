---------------------------- MODULE CommandDelivery ----------------------------
(***************************************************************************)
(* Generic commands from issue to verdict: CommandDispatcher.issue and its *)
(* idempotent re-issues, deliver_local on any replica, the long-poll       *)
(* endpoint, acks and results, revocation, crashes, and the timeout sweep. *)
(*                                                                         *)
(* A worker is one delivery coroutine (a deliver_local call or one row of  *)
(* a long-poll response) on any replica; an issuer is one dispatcher.issue *)
(* call.  Each step is one database statement or one physical send: what   *)
(* lies between two steps is an await.  The wake-ups that start deliver_   *)
(* local (issue itself, NOTIFY, reconnect drain, registry reconcile) carry *)
(* no authority of their own, so a delivery may start at any time.         *)
(***************************************************************************)
EXTENDS CommandRow, FiniteSets

CONSTANTS
    Command,            \* one element per (project, idempotency key)
    NoCommand,          \* the command of an idle coroutine
    Fire,               \* schedule.fire: a re-issue may pick another agent
    Redeliverable,      \* _REDELIVERABLE_ACTIONS
    Worker,             \* delivery coroutines
    Issuer,             \* issue() calls
    MaxGeneration,      \* bound: claims in a behaviour
    MaxIssued           \* bound: commands issued in a behaviour

ASSUME CommandAssumption ==
    /\ NoCommand \notin Command
    /\ Fire \subseteq Redeliverable
    /\ Redeliverable \subseteq Command

ASSUME BoundAssumption == MaxGeneration \in Nat /\ MaxIssued \in Nat

VARIABLES
    row,        \* [Command -> Rows]: the commands table
    live,       \* [Agent -> BOOLEAN]: agents.revoked_at IS NULL
    clock,      \* Nat: generations stamped so far
    job,        \* [Worker -> Jobs]
    call,       \* [Issuer -> Calls]
    sends,      \* [Command -> Nat]: copies that may have left for an agent
    reached,    \* [Command -> SUBSET Agent]: agents that may hold a copy
    verdicts    \* [Command -> Nat]: command.completed / command.failed audit rows

vars == <<row, live, clock, job, call, sends, reached, verdicts>>
wireVars == <<sends, reached, verdicts>>

Jobs == [pc: {"idle", "read", "claimed", "failed"}, via: {"none", "websocket", "longpoll"},
         cmd: Command \cup {NoCommand}, agent: Agent \cup {NoAgent}, gen: Nat]
Calls == [pc: {"idle", "redrive", "reassign"},
          cmd: Command \cup {NoCommand}, agent: Agent \cup {NoAgent}, gen: Nat]

IdleJob == [pc |-> "idle", via |-> "none", cmd |-> NoCommand, agent |-> NoAgent,
            gen |-> NoGeneration]
IdleCall == [pc |-> "idle", cmd |-> NoCommand, agent |-> NoAgent, gen |-> NoGeneration]

TypeOK ==
    /\ row \in [Command -> Rows]
    /\ live \in [Agent -> BOOLEAN]
    /\ clock \in Nat
    /\ job \in [Worker -> Jobs]
    /\ call \in [Issuer -> Calls]
    /\ sends \in [Command -> Nat]
    /\ reached \in [Command -> SUBSET Agent]
    /\ verdicts \in [Command -> Nat]

Init ==
    /\ row = [c \in Command |-> AbsentRow]
    /\ live = [a \in Agent |-> TRUE]
    /\ clock = 0
    /\ job = [w \in Worker |-> IdleJob]
    /\ call = [i \in Issuer |-> IdleCall]
    /\ sends = [c \in Command |-> 0]
    /\ reached = [c \in Command |-> {}]
    /\ verdicts = [c \in Command |-> 0]

-----------------------------------------------------------------------------
(* CommandDispatcher.issue *)

Issued == {c \in Command : row[c].status # "ABSENT"}

\* The first issue under this key inserts the row and commits. (A synthetic
\* pre_completed_result record is never delivered and is left out.)
IssueNew(c, a) ==
    /\ live[a]
    /\ row[c].status = "ABSENT"
    /\ Cardinality(Issued) < MaxIssued
    /\ row' = [row EXCEPT ![c] = Inserted(a)]
    /\ UNCHANGED <<live, clock, job, call, wireVars>>

\* insert returns the existing row; only a fire may name another agent.
SameCommand(c, a) == row[c].status # "ABSENT" /\ (c \in Fire \/ row[c].owner = a)

\* A stale DISPATCHED or a TIMEOUT row is re-driven only when running the
\* action twice is safe.
Orphaned(c) ==
    \/ row[c].status = "DISPATCHED" /\ ~IsFresh(row[c])
    \/ row[c].status = "TIMEOUT"

\* A re-issue under the same key that has more to do than return the row.
Reissue(i, c, a) ==
    /\ call[i].pc = "idle"
    /\ live[a]
    /\ SameCommand(c, a)
    /\ \/ /\ Orphaned(c) /\ c \in Redeliverable
          /\ call' = [call EXCEPT ![i] = [pc |-> "redrive", cmd |-> c, agent |-> a,
                                          gen |-> row[c].generation]]
       \/ /\ row[c].status = "PENDING" /\ row[c].owner # a
          /\ call' = [call EXCEPT ![i] = [pc |-> "reassign", cmd |-> c, agent |-> a,
                                          gen |-> NoGeneration]]
    /\ UNCHANGED <<row, live, clock, job, wireVars>>

\* revert_dispatch on the generation the call observed.
RedriveStep(i) ==
    /\ call[i].pc = "redrive"
    /\ LET c == call[i].cmd IN
       row' = IF CanRevertDispatch(row[c], call[i].gen)
              THEN [row EXCEPT ![c] = Redrive(@, call[i].agent)]
              ELSE row
    /\ call' = [call EXCEPT ![i] = IdleCall]
    /\ UNCHANGED <<live, clock, job, wireVars>>

ReassignStep(i) ==
    /\ call[i].pc = "reassign"
    /\ LET c == call[i].cmd IN
       row' = IF CanReassign(row[c])
              THEN [row EXCEPT ![c] = Reassign(@, call[i].agent)]
              ELSE row
    /\ call' = [call EXCEPT ![i] = IdleCall]
    /\ UNCHANGED <<live, clock, job, wireVars>>

-----------------------------------------------------------------------------
(* deliver_local: read the row, claim it, push it, revert a failed push *)

WsRead(w, c, a) ==
    /\ job[w].pc = "idle"
    /\ row[c].status # "ABSENT" /\ row[c].owner = a
    /\ live[a]
    /\ job' = [job EXCEPT ![w] = [pc |-> "read", via |-> "websocket", cmd |-> c,
                                  agent |-> a, gen |-> NoGeneration]]
    /\ UNCHANGED <<row, live, clock, call, wireVars>>

\* The claim is guarded by the status alone: its UPDATE does not name the agent.
Claimed(w, g) == [job EXCEPT ![w].pc = "claimed", ![w].gen = g]

\* Mutant: a delivery that lost the claim goes on with the winner's generation.
WsClaimUnchecked(w) ==
    LET c == job[w].cmd IN
    /\ job[w].pc = "read" /\ job[w].via = "websocket"
    /\ IF CanMarkDispatched(row[c])
       THEN /\ clock < MaxGeneration
            /\ clock' = clock + 1
            /\ row' = [row EXCEPT ![c] = MarkDispatched(@, clock + 1)]
            /\ job' = Claimed(w, clock + 1)
       ELSE /\ job' = Claimed(w, row[c].generation)
            /\ UNCHANGED <<row, clock>>
    /\ UNCHANGED <<live, call, wireVars>>

WsClaim(w) ==
    LET c == job[w].cmd IN
    /\ job[w].pc = "read" /\ job[w].via = "websocket"
    /\ IF CanMarkDispatched(row[c])
       THEN /\ clock < MaxGeneration
            /\ clock' = clock + 1
            /\ row' = [row EXCEPT ![c] = MarkDispatched(@, clock + 1)]
            /\ job' = Claimed(w, clock + 1)
       ELSE /\ job' = [job EXCEPT ![w] = IdleJob]
            /\ UNCHANGED <<row, clock>>
    /\ UNCHANGED <<live, call, wireVars>>

\* One more copy of c may be on its way to a.
Transmitted(c, a) ==
    /\ sends' = [sends EXCEPT ![c] = @ + 1]
    /\ reached' = [reached EXCEPT ![c] = @ \cup {a}]

\* The send holds the live agent's row lock, so no revocation falls inside it.
WsSend(w) ==
    /\ job[w].pc = "claimed" /\ job[w].via = "websocket"
    /\ live[job[w].agent]
    /\ Transmitted(job[w].cmd, job[w].agent)
    /\ job' = [job EXCEPT ![w] = IdleJob]
    /\ UNCHANGED <<row, live, clock, call, verdicts>>

\* Mutant: every failed push reverts, whatever the action.
AfterFailedSendAlways(w) == [job EXCEPT ![w].pc = "failed"]

\* After a failed push: only a redeliverable action goes on to revert its claim.
AfterFailedSend(w) ==
    IF job[w].cmd \in Redeliverable
    THEN [job EXCEPT ![w].pc = "failed"]
    ELSE [job EXCEPT ![w] = IdleJob]

\* The agent was revoked, the session was replaced, or the socket failed; in
\* the last case the bytes may have left all the same.
WsSendFails(w) ==
    /\ job[w].pc = "claimed" /\ job[w].via = "websocket"
    /\ \/ UNCHANGED <<sends, reached>>
       \/ live[job[w].agent] /\ Transmitted(job[w].cmd, job[w].agent)
    /\ job' = AfterFailedSend(w)
    /\ UNCHANGED <<row, live, clock, call, verdicts>>

WsRevert(w) ==
    LET c == job[w].cmd IN
    /\ job[w].pc = "failed"
    /\ row' = IF CanRevertDispatch(row[c], job[w].gen)
              THEN [row EXCEPT ![c] = RevertDispatch(@)]
              ELSE row
    /\ job' = [job EXCEPT ![w] = IdleJob]
    /\ UNCHANGED <<live, clock, call, wireVars>>

-----------------------------------------------------------------------------
(* The long-poll endpoint: select, claim each row, answer *)

\* _pull_pending: what one poll of agent a selects.
PollEligible(c, a) ==
    /\ row[c].owner = a
    /\ \/ row[c].status = "PENDING"
       \/ /\ row[c].status = "DISPATCHED" /\ c \in Redeliverable
          /\ MinInterval <= row[c].age /\ row[c].age <= RedispatchWindow

\* The selected row is kept as it was read: its generation says which status.
PollRead(w, c, a) ==
    /\ job[w].pc = "idle"
    /\ live[a]
    /\ PollEligible(c, a)
    /\ job' = [job EXCEPT ![w] = [pc |-> "read", via |-> "longpoll", cmd |-> c,
                                  agent |-> a, gen |-> row[c].generation]]
    /\ UNCHANGED <<row, live, clock, call, wireVars>>

PollWins(w) ==
    /\ live[job[w].agent]
    /\ IF job[w].gen = NoGeneration
       THEN CanMarkDispatched(row[job[w].cmd])
       ELSE CanClaimRedispatch(row[job[w].cmd], job[w].gen)

PollClaimed(w, g) ==
    IF job[w].gen = NoGeneration
    THEN MarkDispatched(row[job[w].cmd], g)
    ELSE ClaimRedispatch(row[job[w].cmd], g)

PollClaim(w) ==
    /\ job[w].pc = "read" /\ job[w].via = "longpoll"
    /\ PollWins(w)
    /\ clock < MaxGeneration
    /\ clock' = clock + 1
    /\ row' = [row EXCEPT ![job[w].cmd] = PollClaimed(w, clock + 1)]
    /\ job' = Claimed(w, clock + 1)
    /\ UNCHANGED <<live, call, wireVars>>

\* The frame cannot be signed: the claim's transaction fails the command.
PollSignFails(w) ==
    /\ job[w].pc = "read" /\ job[w].via = "longpoll"
    /\ PollWins(w)
    /\ clock < MaxGeneration
    /\ clock' = clock + 1
    /\ row' = [row EXCEPT ![job[w].cmd] = MarkTerminal(PollClaimed(w, clock + 1), "FAILED")]
    /\ job' = [job EXCEPT ![w] = IdleJob]
    /\ UNCHANGED <<live, call, wireVars>>

PollLoses(w) ==
    /\ job[w].pc = "read" /\ job[w].via = "longpoll"
    /\ ~PollWins(w)
    /\ job' = [job EXCEPT ![w] = IdleJob]
    /\ UNCHANGED <<row, live, clock, call, wireVars>>

\* The HTTP response reaches the agent, or is lost on the way (Abort).
PollRespond(w) ==
    /\ job[w].pc = "claimed" /\ job[w].via = "longpoll"
    /\ Transmitted(job[w].cmd, job[w].agent)
    /\ job' = [job EXCEPT ![w] = IdleJob]
    /\ UNCHANGED <<row, live, clock, call, verdicts>>

-----------------------------------------------------------------------------
(* What agents send back, and what the control plane does on its own *)

\* handle_ack, scoped to the agent: the command may still be PENDING here
\* because a failed push was reverted although its bytes had left.
HandleAck(c, a) ==
    /\ a \in reached[c] /\ live[a]
    /\ row[c].owner = a
    /\ CanMarkDispatched(row[c])
    /\ clock < MaxGeneration
    /\ clock' = clock + 1
    /\ row' = [row EXCEPT ![c] = MarkDispatched(@, clock + 1)]
    /\ UNCHANGED <<live, job, call, wireVars>>

\* Mutant: the result of any agent that was sent a copy is accepted.
HandleResultUnscoped(c, a, outcome) ==
    /\ a \in reached[c] /\ live[a]
    /\ CanMarkTerminal(row[c], FALSE)
    /\ row' = [row EXCEPT ![c] = MarkTerminal(@, outcome)]
    /\ verdicts' = [verdicts EXCEPT ![c] = @ + 1]
    /\ UNCHANGED <<live, clock, job, call, sends, reached>>

\* handle_result: an agent that may hold a copy reports once, again, or late.
\* The transition and its audit row are one transaction.
HandleResult(c, a, outcome) ==
    /\ a \in reached[c] /\ live[a]
    /\ row[c].owner = a
    /\ CanMarkTerminal(row[c], FALSE)
    /\ row' = [row EXCEPT ![c] = MarkTerminal(@, outcome)]
    /\ verdicts' = [verdicts EXCEPT ![c] = @ + 1]
    /\ UNCHANGED <<live, clock, job, call, sends, reached>>

\* CommandTimeoutWorker: one UPDATE over every expired row.
Sweep ==
    /\ \E c \in Command : CanExpire(row[c])
    /\ row' = [c \in Command |-> IF CanExpire(row[c]) THEN Expire(row[c]) ELSE row[c]]
    /\ UNCHANGED <<live, clock, job, call, wireVars>>

Revoke(a) ==
    /\ live[a]
    /\ live' = [live EXCEPT ![a] = FALSE]
    /\ UNCHANGED <<row, clock, job, call, wireVars>>

\* The process dies, the coroutine is cancelled, or its response is lost.
AbortJob(w) ==
    /\ job[w].pc # "idle"
    /\ job' = [job EXCEPT ![w] = IdleJob]
    /\ UNCHANGED <<row, live, clock, call, wireVars>>

AbortCall(i) ==
    /\ call[i].pc # "idle"
    /\ call' = [call EXCEPT ![i] = IdleCall]
    /\ UNCHANGED <<row, live, clock, job, wireVars>>

\* Time passes for every row.
Tick ==
    /\ \E c \in Command : Aged(row[c]) # row[c]
    /\ row' = [c \in Command |-> Aged(row[c])]
    /\ UNCHANGED <<live, clock, job, call, wireVars>>

Next ==
    \/ \E c \in Command, a \in Agent :
          \/ IssueNew(c, a)
          \/ \E i \in Issuer : Reissue(i, c, a)
          \/ \E w \in Worker : WsRead(w, c, a) \/ PollRead(w, c, a)
          \/ HandleAck(c, a)
          \/ \E outcome \in TerminalStatus : HandleResult(c, a, outcome)
    \/ \E i \in Issuer : RedriveStep(i) \/ ReassignStep(i) \/ AbortCall(i)
    \/ \E w \in Worker :
          \/ WsClaim(w) \/ WsSend(w) \/ WsSendFails(w) \/ WsRevert(w)
          \/ PollClaim(w) \/ PollSignFails(w) \/ PollLoses(w) \/ PollRespond(w)
          \/ AbortJob(w)
    \/ \E a \in Agent : Revoke(a)
    \/ Sweep
    \/ Tick

Spec == Init /\ [][Next]_vars

\* The clock and the periodic sweep go on; nothing else is promised: agents may
\* stay silent and coroutines may die.
FairSpec == Spec /\ WF_vars(Tick) /\ WF_vars(Sweep)

-----------------------------------------------------------------------------
(* Properties *)

\* dispatched_at tells an open row's claim, through every revert, re-drive and
\* redispatch: one that waits carries none, one that is out carries the stamp of a
\* claim that was made.  A poll passes over a dispatched row without a stamp for
\* ever, and the revert of a failed push, a compare-and-swap on the stamp, misses it.
StampTells ==
    \A c \in Command :
        /\ row[c].status = "PENDING" => row[c].generation = NoGeneration
        /\ row[c].status = "DISPATCHED" => row[c].generation \in 1 .. clock

WellFormed == TypeOK /\ StampTells

\* The worker's claim is the one the row carries now.
HoldsCurrentClaim(w) ==
    /\ job[w].pc \in {"claimed", "failed"}
    /\ row[job[w].cmd].generation = job[w].gen

\* commands.py, mark_dispatched and claim_redispatch: a claim has one winner.
\* Two coroutines never both hold the generation a row carries, however many
\* replicas, polls, re-drives and reverts interleave; the compare-and-swap of a
\* failed push's revert rests on it.
SingleCurrentClaim ==
    \A v, w \in Worker :
        HoldsCurrentClaim(v) /\ HoldsCurrentClaim(w) /\ job[v].cmd = job[w].cmd => v = w

\* command_dispatcher.py, issue (at-most-once for destructive): an action that
\* is not redeliverable leaves for an agent at most once, whatever is re-issued,
\* reverted, redispatched, acknowledged or swept around it.
NoSecondCopy == \A c \in Command \ Redeliverable : sends[c] <= 1

\* handle_result: a verdict is audited at most once, it is the row's final
\* status, and it came from the row's owner, who had been sent a copy.
VerdictFromOwner ==
    \A c \in Command :
        /\ verdicts[c] <= 1
        /\ verdicts[c] = 1 =>
              row[c].status \in TerminalStatus /\ row[c].owner \in reached[c]
        /\ row[c].status = "COMPLETED" => verdicts[c] = 1

\* revert_dispatch (rearming a TIMEOUT row): no row is at once awaiting delivery
\* and marked completed, and none is over without being marked so.
ClosedIffOver ==
    \A c \in Command :
        row[c].closed <=> row[c].status \in TerminalStatus \cup {"TIMEOUT"}

\* The delivery machinery implements the contract of a command.
Phase(r) ==
    CASE r.status = "ABSENT" -> "none"
      [] r.status \in OpenStatus -> "open"
      [] r.status = "TIMEOUT" -> "expired"
      [] OTHER -> "answered"
Contract == INSTANCE CommandContract WITH phase <- [c \in Command |-> Phase(row[c])]
ImplementsContract == Contract!Spec

\* CommandTimeoutWorker: while claims end (MaxGeneration bounds them here), an
\* accepted command does not stay open forever, agents silent or not.
EventuallySettled ==
    \A c \in Command : IsOpen(row[c]) ~> ~IsOpen(row[c])

(* The next two state what a comment of the code says; the code does not      *)
(* keep them, and the runs that check them end with the behaviour that shows it. *)

\* command_dispatcher.py, issue: "the revert is a compare-and-swap on the
\* OBSERVED dispatched_at so a concurrent rearm+redispatch is not clobbered".
\* A push in progress on a fresh claim is not made PENDING by anyone else.
Pushing(w) ==
    LET r == row[job[w].cmd] IN
    /\ job[w].pc = "claimed"
    /\ r.status = "DISPATCHED" /\ r.generation = job[w].gen /\ IsFresh(r)
NoClaimClobber ==
    [][\A w \in Worker :
          Pushing(w) /\ job'[w] = job[w] => row'[job[w].cmd].status # "PENDING"]_vars

\* commands.py, revert_dispatch and reassign_pending_owner: ownership moves with
\* the delivery, so that the agent that gets the command is the one whose
\* agent-scoped ack and result are accepted.
ClaimantIsOwner ==
    \A w \in Worker : Pushing(w) => row[job[w].cmd].owner = job[w].agent
===============================================================================
