----------------------------- MODULE CadenceSweep -----------------------------
(***************************************************************************)
(* The tick of CommandTimeoutWorker over one schedule and one ordinary     *)
(* command.  A tick lists the overdue cadence commands, expires them one   *)
(* transaction each, and then expires the ordinary commands in one UPDATE. *)
(* The listing is not locked: between it and an expiry everything else in  *)
(* CadenceControl happens.  An expiry that raises ends the tick, and the   *)
(* next one starts over.                                                   *)
(*                                                                         *)
(* The stages for websocket recovery and external controls, which expire   *)
(* nothing here, are left out.                                             *)
(***************************************************************************)
EXTENDS CadenceControl

VARIABLES
    stage,      \* {"idle", "cadence"}: where the tick is
    todo,       \* SUBSET Key: the candidates it has listed and not yet done
    ordinary    \* {"open", "overdue", "over"}: any command but a cadence one

sweepVars == <<vars, stage, todo, ordinary>>

SweepTypeOK ==
    /\ stage \in {"idle", "cadence"}
    /\ todo \subseteq Key
    /\ todo # {} => stage = "cadence"
    /\ ordinary \in {"open", "overdue", "over"}

SweepInit ==
    /\ Init
    /\ stage = "idle"
    /\ todo = {}
    /\ ordinary = "open"

-----------------------------------------------------------------------------
ListClaimed ==           \* mutant: what no agent ever claimed is not listed
    /\ stage = "idle"
    /\ stage' = "cadence"
    /\ todo' = {k \in Key : Overdue(k) /\ command[k] = "dispatched"}
    /\ UNCHANGED <<vars, ordinary>>

ListOrReturn ==          \* mutant: no overdue cadence command, no sweep
    /\ stage = "idle"
    /\ \E k \in Key : Overdue(k)
    /\ stage' = "cadence"
    /\ todo' = {k \in Key : Overdue(k)}
    /\ UNCHANGED <<vars, ordinary>>

\* list_expired_current_schedule_deliveries
ListOverdue ==
    /\ stage = "idle"
    /\ stage' = "cadence"
    /\ todo' = {k \in Key : Overdue(k)}
    /\ UNCHANGED <<vars, ordinary>>

\* Another worker, or a result, was first.
PassOver(k) ==
    /\ k \in todo
    /\ ~Overdue(k)
    /\ todo' = todo \ {k}
    /\ UNCHANGED <<vars, stage, ordinary>>

ExpireListed(k) ==
    /\ k \in todo
    /\ Expire(k)
    /\ todo' = todo \ {k}
    /\ UNCHANGED <<stage, ordinary>>

RaiseInTick(k) ==       \* mutant: the tick starts over with the candidates it had
    /\ k \in todo
    /\ Overdue(k)
    /\ Blocked(k)
    /\ stage' = "idle"
    /\ UNCHANGED <<vars, todo, ordinary>>

\* The expiry raises on a divergent hold, and nothing catches it in the tick.
Raise(k) ==
    /\ k \in todo
    /\ Overdue(k)
    /\ Blocked(k)
    /\ stage' = "idle"
    /\ todo' = {}
    /\ UNCHANGED <<vars, ordinary>>

\* sweep_timeouts
SweepOrdinary ==
    /\ stage = "cadence"
    /\ todo = {}
    /\ stage' = "idle"
    /\ ordinary' = IF ordinary = "overdue" THEN "over" ELSE ordinary
    /\ UNCHANGED <<vars, todo>>

\* The process dies in the tick, and its supervisor starts the worker again.
Crash ==
    /\ stage = "cadence"
    /\ stage' = "idle"
    /\ todo' = {}
    /\ UNCHANGED <<vars, ordinary>>

\* The ordinary command: its deadline passes, or it is answered.
OrdinaryNext ==
    /\ \/ ordinary = "open" /\ ordinary' \in {"overdue", "over"}
       \/ ordinary = "overdue" /\ ordinary' = "over"
    /\ UNCHANGED <<vars, stage, todo>>

WorkerNext ==
    \/ ListOverdue
    \/ SweepOrdinary
    \/ Crash
    \/ \E k \in Key : PassOver(k) \/ ExpireListed(k) \/ Raise(k)

SweepNext ==
    \/ WorkerNext
    \/ OrdinaryNext
    \/ OthersNext /\ UNCHANGED <<stage, todo, ordinary>>

\* The worker ticks for ever, and does not die in every tick it could finish.
Fairness ==
    /\ WF_sweepVars(ListOverdue)
    /\ SF_sweepVars(SweepOrdinary)
    /\ SF_sweepVars(\E k \in Key : PassOver(k) \/ ExpireListed(k) \/ Raise(k))

SweepSpec == SweepInit /\ [][SweepNext]_sweepVars /\ Fairness

-----------------------------------------------------------------------------
(* Correctness *)

\* A tick that is bound to raise: the schedule was enabled again over an open
\* hold, and its next occurrence is overdue in turn.
Wedged == \E k \in Key : Overdue(k) /\ Blocked(k)

\* _lock_exact_terminal_hold: a tick can be bound to raise only over a hold that
\* an operator went on past.  Under the receipt in force a failure stops the
\* schedule, so no second occurrence comes to contend with its hold.
WedgedByOperator ==
    \A k \in Key : Overdue(k) /\ Blocked(k) =>
        \A h \in OpenHolds : h # k /\ h.token < row.token

\* An overdue cadence command ends, whatever results, operators and replays do
\* between the listing and the expiry, unless a tick is bound to raise.
CadenceEnds == \A k \in Key : Overdue(k) ~> (~Overdue(k) \/ Wedged)

\* So does an ordinary one, behind the cadence commands of the same tick.
OrdinaryEnds == ordinary = "overdue" ~> (ordinary = "over" \/ Wedged)

\* "Every command_timeout_sweep_seconds (default 5s) flips every ordinary
\* command whose timeout_at has elapsed to timeout" (command_timeout.py).
OrdinaryAlwaysEnds == ordinary = "overdue" ~> ordinary = "over"
=============================================================================
