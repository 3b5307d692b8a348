----------------------------- MODULE TaskContract -----------------------------
(***************************************************************************)
(* What the brain promises of one row of the tasks table, whatever agents, *)
(* batches, transactions and probes write it: events of one kind and       *)
(* second are dealt with once and in one step; an outcome stays, until     *)
(* another outcome replaces it together with its details; and a correction *)
(* is of a task that is open.                                              *)
(***************************************************************************)
EXTENDS Naturals

CONSTANTS
    Histories,          \* the histories the engine may give the task
    Seconds,            \* the seconds an event may be stamped with
    StateFor,           \* the state that an event of each kind leads to
    TerminalStates

VARIABLES
    history,    \* the events of the task
    log,        \* the kinds and seconds that have been dealt with
    refused,    \* those of them that changed nothing
    shown,      \* the state the row shows, or "absent"
    detail,     \* {"none", "result", "error"}: what it shows beside an outcome
    orphaned    \* how often the rules on task.orphaned ran

contractVars == <<history, log, refused, shown, detail, orphaned>>

Ended == shown \in TerminalStates

Init ==
    /\ history \in Histories
    /\ log = {}
    /\ refused = {}
    /\ shown = "absent"
    /\ detail = "none"
    /\ orphaned = 0

\* An event is projected.  One that is not an outcome leaves an outcome alone,
\* and the details; an outcome brings its own and takes away the others.
Project(id) ==
    /\ id \notin log
    /\ Ended => StateFor[id.kind] \in TerminalStates
    /\ log' = log \cup {id}
    /\ shown' = StateFor[id.kind]
    /\ detail' = CASE id.kind = "succeeded" -> "result"
                   [] id.kind = "failed" -> "error"
                   [] id.kind = "revoked" -> "none"
                   [] OTHER -> detail
    /\ UNCHANGED <<history, refused, orphaned>>

\* An event is turned down, in the light of a row.
Refuse(id) ==
    /\ id \notin log
    /\ shown # "absent"
    /\ log' = log \cup {id}
    /\ refused' = refused \cup {id}
    /\ UNCHANGED <<history, shown, detail, orphaned>>

\* What the engine said of a task that is shown open, with or without an
\* exception.
Correct(answer) ==
    /\ shown \notin TerminalStates \cup {"absent", answer}
    /\ shown' = answer
    /\ detail' \in {detail, "error"}
    /\ orphaned' = IF answer \in TerminalStates THEN orphaned + 1 ELSE orphaned
    /\ UNCHANGED <<history, log, refused>>

Next ==
    \/ \E e \in history, s \in Seconds :
          LET id == [kind |-> e.kind, second |-> s] IN Project(id) \/ Refuse(id)
    \/ \E answer \in {"pending", "started", "success", "failure"} : Correct(answer)

Spec == Init /\ [][Next]_contractVars
===============================================================================
