--------------------------- MODULE CommandContract ----------------------------
(***************************************************************************)
(* What the control plane promises about a command, whatever workers,      *)
(* replicas, transports and retries carry it: it is transmitted only after *)
(* it was accepted, more than once only when its action tolerates it, and  *)
(* its agent's verdict is recorded once and for all.                       *)
(***************************************************************************)
EXTENDS Naturals

CONSTANTS
    Command,
    Redeliverable       \* actions the docs call safe to execute twice

VARIABLES
    phase,              \* [Command -> {"none", "open", "expired", "answered"}]
    sends,              \* [Command -> Nat]: copies that may reach an agent
    verdicts            \* [Command -> Nat]: results written to the audit chain

contractVars == <<phase, sends, verdicts>>

Init ==
    /\ phase = [c \in Command |-> "none"]
    /\ sends = [c \in Command |-> 0]
    /\ verdicts = [c \in Command |-> 0]

Accept(c) ==
    /\ phase[c] = "none"
    /\ phase' = [phase EXCEPT ![c] = "open"]
    /\ UNCHANGED <<sends, verdicts>>

\* A copy may leave after the command expired or was answered: the claim that
\* authorised it is older than the verdict.
Transmit(c) ==
    /\ phase[c] # "none"
    /\ c \in Redeliverable \/ sends[c] = 0
    /\ sends' = [sends EXCEPT ![c] = @ + 1]
    /\ UNCHANGED <<phase, verdicts>>

\* The agent's result: the command must have been transmitted to it.
Answer(c) ==
    /\ phase[c] = "open" /\ sends[c] > 0
    /\ phase' = [phase EXCEPT ![c] = "answered"]
    /\ verdicts' = [verdicts EXCEPT ![c] = @ + 1]
    /\ UNCHANGED sends

\* The control plane itself gives up: no agent was heard.
Abandon(c) ==
    /\ phase[c] = "open"
    /\ phase' = [phase EXCEPT ![c] = "answered"]
    /\ UNCHANGED <<sends, verdicts>>

Expire ==
    \E C \in SUBSET Command :
        /\ C # {} /\ \A c \in C : phase[c] = "open"
        /\ phase' = [c \in Command |-> IF c \in C THEN "expired" ELSE phase[c]]
        /\ UNCHANGED <<sends, verdicts>>

Rearm(c) ==
    /\ c \in Redeliverable
    /\ phase[c] = "expired"
    /\ phase' = [phase EXCEPT ![c] = "open"]
    /\ UNCHANGED <<sends, verdicts>>

Next ==
    \/ \E c \in Command : Accept(c) \/ Transmit(c) \/ Answer(c) \/ Abandon(c) \/ Rearm(c)
    \/ Expire

Spec == Init /\ [][Next]_contractVars
===============================================================================
