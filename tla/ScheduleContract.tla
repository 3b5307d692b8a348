--------------------------- MODULE ScheduleContract ---------------------------
(***************************************************************************)
(* What the control plane promises about the occurrences of one schedule,  *)
(* whatever schedulers, replicas, buffers, receipts and retries carry them:*)
(* each is accepted at most once and in order, leaves at most once, has    *)
(* one outcome, and none is accepted past a failure before an operator has *)
(* decided.                                                                *)
(***************************************************************************)
EXTENDS Naturals

CONSTANT Slot       \* the moments an occurrence may be due at, from 1 on

VARIABLES
    cursor,         \* the last slot that was accepted or passed over, or 0
    latest,         \* the slot whose failure concerns the schedule, or 0
    fate,           \* [Slot -> Fates]: what became of each occurrence
    deleted         \* the schedule is gone

contractVars == <<cursor, latest, fate, deleted>>

Fates == {"none", "held", "sent", "done", "failed", "dropped"}

Init ==
    /\ cursor = 0
    /\ latest = 0
    /\ fate = [s \in Slot |-> "none"]
    /\ deleted = FALSE

Stopped == latest \in Slot /\ fate[latest] = "failed"

Accept(s) ==
    /\ ~deleted /\ ~Stopped
    /\ s > cursor
    /\ cursor' = s /\ latest' = s
    /\ fate' = [fate EXCEPT ![s] = "held"]
    /\ UNCHANGED deleted

\* The occurrences up to s are given up, s included.
PassOver(s) ==
    /\ ~deleted /\ ~Stopped
    /\ s > cursor
    /\ cursor' = s
    /\ UNCHANGED <<latest, fate, deleted>>

\* Work that was accepted leaves even if the schedule is gone by then.
Send(s) ==
    /\ fate[s] = "held"
    /\ fate' = [fate EXCEPT ![s] = "sent"]
    /\ UNCHANGED <<cursor, latest, deleted>>

Drop(s) ==
    /\ fate[s] = "held"
    /\ fate' = [fate EXCEPT ![s] = "dropped"]
    /\ UNCHANGED <<cursor, latest, deleted>>

Succeed(s) ==
    /\ fate[s] = "sent"
    /\ fate' = [fate EXCEPT ![s] = "done"]
    /\ UNCHANGED <<cursor, latest, deleted>>

\* The agent's failure, or the deadline of what was held or sent.
Fail(s) ==
    /\ fate[s] \in {"held", "sent"}
    /\ fate' = [fate EXCEPT ![s] = "failed"]
    /\ UNCHANGED <<cursor, latest, deleted>>

\* An operator changes or resolves the schedule: it may go on.
Decide ==
    /\ ~deleted
    /\ latest' = 0
    /\ UNCHANGED <<cursor, fate, deleted>>

Delete ==
    /\ ~deleted
    /\ deleted' = TRUE
    /\ latest' = 0
    /\ \E D \in SUBSET {s \in Slot : fate[s] = "held"} :
          fate' = [s \in Slot |-> IF s \in D THEN "dropped" ELSE fate[s]]
    /\ UNCHANGED cursor

Next ==
    \/ Decide \/ Delete
    \/ \E s \in Slot :
          Accept(s) \/ PassOver(s) \/ Send(s) \/ Drop(s) \/ Succeed(s) \/ Fail(s)

Spec == Init /\ [][Next]_contractVars
===============================================================================
