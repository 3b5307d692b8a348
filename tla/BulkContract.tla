----------------------------- MODULE BulkContract -----------------------------
(***************************************************************************)
(* What the control plane promises about one bulk-retry request, whatever  *)
(* replicas, polls, locks and coordinators carry it: its children are      *)
(* claimed one at a time and only while it runs, with no more than         *)
(* MaxInFlight of them unobserved; each leaves at most once; and what is   *)
(* known of a child is only ever refined.                                  *)
(***************************************************************************)
EXTENDS Naturals, FiniteSets

CONSTANTS
    Child,          \* the children a request may have
    MaxInFlight     \* children that may be out unobserved

VARIABLES
    control,        \* {"UNSEALED", "RUNNING", "PAUSED", "BLOCKED"}
    fate,           \* [Child -> Fates]: where a child is, or what became of it
    copies          \* [Child -> Nat]: copies that may have left

contractVars == <<control, fate, copies>>

Ends == {"SUCCEEDED", "FAILED"}
Fates == {"ABSENT", "PENDING", "UNOBSERVED", "UNKNOWN"} \cup Ends

Init ==
    /\ control = "UNSEALED"
    /\ fate = [c \in Child |-> "ABSENT"]
    /\ copies = [c \in Child |-> 0]

\* The plan is sealed once; no child is added to it or taken from it.
Seal(plan) ==
    /\ control = "UNSEALED"
    /\ control' = "RUNNING"
    /\ fate' = [c \in Child |-> IF c \in plan THEN "PENDING" ELSE "ABSENT"]
    /\ UNCHANGED copies

\* The user pauses or resumes it, out of whatever state.
Steer ==
    /\ control # "UNSEALED"
    /\ control' \in {"RUNNING", "PAUSED"}
    /\ UNCHANGED <<fate, copies>>

\* A claim is one atomic step: it finds the request running, a place free and
\* the child pending, and no other claim or pause comes between.
Claim(c) ==
    /\ control = "RUNNING"
    /\ fate[c] = "PENDING"
    /\ Cardinality({d \in Child : fate[d] = "UNOBSERVED"}) < MaxInFlight
    /\ fate' = [fate EXCEPT ![c] = "UNOBSERVED"]
    /\ UNCHANGED <<control, copies>>

\* What is learned of some children: a claimed one ends or is given up, one that
\* was given up may still turn out to have ended.  Only one that left succeeds.
Learned ==
    /\ fate' \in [Child -> Fates]
    /\ \A c \in Child :
          fate'[c] # fate[c] =>
             /\ \/ fate[c] = "UNOBSERVED" /\ fate'[c] \in Ends \cup {"UNKNOWN"}
                \/ fate[c] = "UNKNOWN" /\ fate'[c] \in Ends
             /\ fate'[c] = "SUCCEEDED" => copies[c] > 0

\* A result, a deadline, a reconciliation; or the request runs out of time with
\* children that were never claimed.
Observe ==
    /\ Learned
    /\ \/ control' = control
       \/ control = "RUNNING" /\ control' = "BLOCKED" /\ \E c \in Child : fate[c] = "PENDING"
    /\ UNCHANGED copies

\* A claimed child leaves, once, and be it after it was given up; a poll learns
\* of others at the same time.
Leave(c) ==
    /\ fate[c] \notin {"ABSENT", "PENDING"}
    /\ copies[c] = 0
    /\ copies' = [copies EXCEPT ![c] = 1]
    /\ Learned
    /\ UNCHANGED control

Next ==
    \/ \E plan \in SUBSET Child : Seal(plan)
    \/ Steer
    \/ Observe
    \/ \E c \in Child : Claim(c) \/ Leave(c)

Spec == Init /\ [][Next]_contractVars
===============================================================================
