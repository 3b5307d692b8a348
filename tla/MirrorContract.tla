---------------------------- MODULE MirrorContract ----------------------------
(***************************************************************************)
(* What the brain promises of the schedules of an external scheduler: it   *)
(* shows states that the scheduler really had, one after the other in the  *)
(* order they were seen, and never goes back.  A change it asks for counts *)
(* as made only when it was made and is shown; while one is out, the       *)
(* observer stays the same; if nobody knows what came of it, the brain     *)
(* shows nothing new.                                                      *)
(***************************************************************************)
EXTENDS Naturals, Sequences

CONSTANTS
    Key,            \* the schedules the scheduler may have
    Epoch           \* {1, ..., n}: the observers there may be, in their order

VARIABLES
    source,     \* the schedules as the scheduler has them
    log,        \* log[e]: the states that observer e has seen
    at,         \* the observer that is heard, and how much of its log
    mirror,     \* the schedules as the brain shows them
    control     \* the change that is asked for, and whether it was made

contractVars == <<source, log, at, mirror, control>>

Content == [Key -> {"on", "off", "gone"}]

Init ==
    /\ source \in Content
    /\ log = [e \in Epoch |-> <<>>]
    /\ at = [epoch |-> 0, number |-> 0]
    /\ mirror = [k \in Key |-> "gone"]
    /\ control = [is |-> "none"]

\* The scheduler is its own master.
Change ==
    /\ source' \in Content
    /\ UNCHANGED <<log, at, mirror, control>>

\* Once an observer has seen something, the ones before it see no more.
Record(e) ==
    /\ e <= at.epoch
    /\ \A d \in Epoch : d > e => log[d] = <<>>
    /\ log' = [log EXCEPT ![e] = Append(@, source')]
    /\ UNCHANGED <<at, mirror>>

Look(e) == Record(e) /\ UNCHANGED <<source, control>>

\* The change is made, once, and seen by the one who makes it.
Carry(e) ==
    /\ control.is \in {"asked", "doubt"}
    /\ ~control.made
    /\ control' = [control EXCEPT !.made = TRUE]
    /\ source' = [source EXCEPT ![control.key] = control.desired]
    /\ Record(e)

Settled == control.is \in {"none", "confirmed"}

\* The next observer is heard, from its first observation.
Begin ==
    /\ Settled
    /\ at.epoch + 1 \in Epoch
    /\ at' = [epoch |-> at.epoch + 1, number |-> 0]
    /\ UNCHANGED <<source, log, mirror, control>>

\* The next state in the log is shown; perhaps it confirms the change.
Show ==
    /\ control.is # "doubt"
    /\ at.epoch \in Epoch
    /\ at.number + 1 \in DOMAIN log[at.epoch]
    /\ at' = [at EXCEPT !.number = @ + 1]
    /\ mirror' = log[at.epoch][at.number + 1]
    /\ \/ UNCHANGED control
       \/ /\ control.is = "asked" /\ control.made
          /\ mirror'[control.key] = control.desired
          /\ control' = [control EXCEPT !.is = "confirmed"]
    /\ UNCHANGED <<source, log>>

\* A change is asked for on the strength of what is shown, one at a time.
Ask ==
    /\ Settled
    /\ at.number > 0
    /\ \E k \in Key, d \in {"on", "off"} :
          /\ mirror[k] \notin {"gone", d}
          /\ control' = [is |-> "asked", key |-> k, desired |-> d, made |-> FALSE]
    /\ UNCHANGED <<source, log, at, mirror>>

\* Nobody knows whether it was, or will be, made.
Doubt ==
    /\ control.is = "asked"
    /\ control' = [control EXCEPT !.is = "doubt"]
    /\ UNCHANGED <<source, log, at, mirror>>

Next ==
    \/ Change \/ Begin \/ Show \/ Ask \/ Doubt
    \/ \E e \in Epoch : Look(e) \/ Carry(e)

Spec == Init /\ [][Next]_contractVars
===============================================================================
