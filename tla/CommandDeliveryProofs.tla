------------------------- MODULE CommandDeliveryProofs -------------------------
(***************************************************************************)
(* Proofs about CommandDelivery, for every set of agents, commands,        *)
(* workers and issuers, every window and every bound: the type invariant,  *)
(* the safety invariants its runs check, and that it implements            *)
(* CommandContract.                                                        *)
(***************************************************************************)
EXTENDS CommandDelivery, CommandRowProofs

-----------------------------------------------------------------------------
(* Type correctness *)

Claiming(w) == job[w].pc \in {"claimed", "failed"}

\* A busy coroutine works on an issued command for a real agent.
Busy ==
    /\ \A w \in Worker : job[w].pc # "idle" =>
          job[w].cmd \in Command /\ job[w].agent \in Agent /\ row[job[w].cmd].status # "ABSENT"
    /\ \A i \in Issuer : call[i].pc # "idle" =>
          call[i].cmd \in Command /\ call[i].agent \in Agent /\ row[call[i].cmd].status # "ABSENT"

LEMMA InitTypes == Init => TypeOK /\ Busy
<1> SUFFICES ASSUME Init PROVE TypeOK /\ Busy
  OBVIOUS
<1>1. AbsentRow \in Rows
  BY Statuses, RowBounds DEF AbsentRow, Rows
<1>2. IdleJob \in Jobs /\ IdleCall \in Calls
  BY RowBounds DEF IdleJob, Jobs, IdleCall, Calls
<1>3. TypeOK
  BY <1>1, <1>2 DEF Init, TypeOK
<1>4. Busy
  BY DEF Init, Busy, IdleJob, IdleCall
<1> QED
  BY <1>3, <1>4

\* The jobs and calls a step writes are jobs and calls.
LEMMA IdleTypes ==
    ASSUME TypeOK
    PROVE  /\ \A w \in Worker : [job EXCEPT ![w] = IdleJob] \in [Worker -> Jobs]
           /\ \A i \in Issuer : [call EXCEPT ![i] = IdleCall] \in [Issuer -> Calls]
<1>1. IdleJob \in Jobs /\ IdleCall \in Calls
  BY RowBounds DEF IdleJob, Jobs, IdleCall, Calls
<1> QED
  BY <1>1 DEF TypeOK

LEMMA JobTypes ==
    ASSUME TypeOK, NEW w \in Worker
    PROVE  /\ \A g \in Nat : Claimed(w, g) \in [Worker -> Jobs]
           /\ AfterFailedSend(w) \in [Worker -> Jobs]
<1>1. job[w] \in Jobs /\ job \in [Worker -> Jobs]
  BY DEF TypeOK
<1>2. ASSUME NEW g \in Nat PROVE Claimed(w, g) \in [Worker -> Jobs]
  <2>1. [[job[w] EXCEPT !.pc = "claimed"] EXCEPT !.gen = g] \in Jobs
    BY <1>1 DEF Jobs
  <2> QED
    BY <1>1, <2>1 DEF Claimed
<1>3. [job[w] EXCEPT !.pc = "failed"] \in Jobs
  BY <1>1 DEF Jobs
<1>4. AfterFailedSend(w) \in [Worker -> Jobs]
  BY <1>1, <1>3, IdleTypes DEF AfterFailedSend
<1> QED
  BY <1>2, <1>4

\* Replacing a row of the table by another row keeps the table.
LEMMA RowUpdate ==
    ASSUME TypeOK, NEW c \in Command, NEW r \in Rows
    PROVE  [row EXCEPT ![c] = r] \in [Command -> Rows]
  BY DEF TypeOK

LEMMA WireUpdate ==
    ASSUME TypeOK, NEW c \in Command, NEW a \in Agent, Transmitted(c, a)
    PROVE  sends' \in [Command -> Nat] /\ reached' \in [Command -> SUBSET Agent]
  BY DEF TypeOK, Transmitted

LEMMA TypeStep == TypeOK /\ Busy /\ [Next]_vars => TypeOK'
<1> SUFFICES ASSUME TypeOK, Busy, [Next]_vars PROVE TypeOK'
  OBVIOUS
<1> USE DEF wireVars
<1>0. CASE UNCHANGED vars
  BY <1>0 DEF vars, TypeOK
<1>1. ASSUME NEW c \in Command, NEW a \in Agent, IssueNew(c, a) PROVE TypeOK'
  BY <1>1, InsertedType, RowUpdate DEF IssueNew, TypeOK
<1>2. ASSUME NEW c \in Command, NEW a \in Agent, NEW i \in Issuer, Reissue(i, c, a)
      PROVE TypeOK'
  <2>1. row[c].generation \in Nat /\ NoGeneration \in Nat
    BY RowBounds DEF TypeOK, Rows
  <2>2. call' \in [Issuer -> Calls]
    BY <1>2, <2>1 DEF Reissue, TypeOK, Calls
  <2> QED
    BY <1>2, <2>2 DEF Reissue, TypeOK
<1>3. ASSUME NEW i \in Issuer, RedriveStep(i) PROVE TypeOK'
  <2> DEFINE c == call[i].cmd
  <2>1. c \in Command /\ call[i].agent \in Agent /\ row[c] \in Rows
    BY <1>3 DEF RedriveStep, Busy, TypeOK
  <2>2. row' \in [Command -> Rows]
    BY <1>3, <2>1, RowTypes, RowUpdate DEF RedriveStep, TypeOK
  <2> QED
    BY <1>3, <2>2, IdleTypes DEF RedriveStep, TypeOK
<1>4. ASSUME NEW i \in Issuer, ReassignStep(i) PROVE TypeOK'
  <2> DEFINE c == call[i].cmd
  <2>1. c \in Command /\ call[i].agent \in Agent /\ row[c] \in Rows
    BY <1>4 DEF ReassignStep, Busy, TypeOK
  <2>2. row' \in [Command -> Rows]
    BY <1>4, <2>1, RowTypes, RowUpdate DEF ReassignStep, TypeOK
  <2> QED
    BY <1>4, <2>2, IdleTypes DEF ReassignStep, TypeOK
<1>5. ASSUME NEW c \in Command, NEW a \in Agent, NEW w \in Worker,
             WsRead(w, c, a) \/ PollRead(w, c, a)
      PROVE TypeOK'
  <2>1. row[c].generation \in Nat /\ NoGeneration \in Nat
    BY RowBounds DEF TypeOK, Rows
  <2>2. job' \in [Worker -> Jobs]
    BY <1>5, <2>1 DEF WsRead, PollRead, TypeOK, Jobs
  <2> QED
    BY <1>5, <2>2 DEF WsRead, PollRead, TypeOK
<1>6. ASSUME NEW w \in Worker, WsClaim(w) PROVE TypeOK'
  <2> DEFINE c == job[w].cmd
  <2>1. c \in Command /\ row[c] \in Rows /\ clock + 1 \in Nat
    BY <1>6 DEF WsClaim, Busy, TypeOK
  <2>2. MarkDispatched(row[c], clock + 1) \in Rows
    BY <2>1, RowTypes
  <2>4. [row EXCEPT ![c] = MarkDispatched(row[c], clock + 1)] \in [Command -> Rows]
    BY <2>1, <2>2, RowUpdate
  <2>5. row' \in [Command -> Rows] /\ clock' \in Nat
    BY <1>6, <2>1, <2>4 DEF WsClaim, TypeOK
  <2>6. /\ Claimed(w, clock + 1) \in [Worker -> Jobs]
        /\ [job EXCEPT ![w] = IdleJob] \in [Worker -> Jobs]
    BY <2>1, JobTypes, IdleTypes
  <2>3. job' \in [Worker -> Jobs]
    BY <1>6, <2>6 DEF WsClaim
  <2> QED
    BY <1>6, <2>5, <2>3 DEF WsClaim, TypeOK
<1>7. ASSUME NEW w \in Worker, WsSend(w) PROVE TypeOK'
  <2>1. job[w].cmd \in Command /\ job[w].agent \in Agent
    BY <1>7 DEF WsSend, Busy
  <2> QED
    BY <1>7, <2>1, IdleTypes, WireUpdate DEF WsSend, TypeOK
<1>8. ASSUME NEW w \in Worker, WsSendFails(w) PROVE TypeOK'
  <2>1. job[w].cmd \in Command /\ job[w].agent \in Agent
    BY <1>8 DEF WsSendFails, Busy
  <2>2. sends' \in [Command -> Nat] /\ reached' \in [Command -> SUBSET Agent]
    BY <1>8, <2>1, WireUpdate DEF WsSendFails, TypeOK
  <2>3. job' \in [Worker -> Jobs]
    BY <1>8, JobTypes DEF WsSendFails
  <2> QED
    BY <1>8, <2>2, <2>3 DEF WsSendFails, TypeOK
<1>9. ASSUME NEW w \in Worker, WsRevert(w) PROVE TypeOK'
  <2> DEFINE c == job[w].cmd
  <2>1. c \in Command /\ row[c] \in Rows
    BY <1>9 DEF WsRevert, Busy, TypeOK
  <2>2. RevertDispatch(row[c]) \in Rows
    BY <2>1, RowTypes
  <2>3. row' \in [Command -> Rows]
    BY <1>9, <2>1, <2>2, RowUpdate DEF WsRevert, TypeOK
  <2> QED
    BY <1>9, <2>3, IdleTypes DEF WsRevert, TypeOK
<1>10. ASSUME NEW w \in Worker, PollClaim(w) \/ PollSignFails(w) PROVE TypeOK'
  <2> DEFINE c == job[w].cmd
  <2>1. c \in Command /\ job[w].agent \in Agent /\ row[c] \in Rows /\ clock + 1 \in Nat
    BY <1>10 DEF PollClaim, PollSignFails, Busy, TypeOK
  <2>2. PollClaimed(w, clock + 1) \in Rows
    BY <2>1, RowTypes DEF PollClaimed
  <2>3. MarkTerminal(PollClaimed(w, clock + 1), "FAILED") \in Rows
    BY <2>2, RowTypes DEF TerminalStatus
  <2>4. row' \in [Command -> Rows] /\ clock' \in Nat
    BY <1>10, <2>1, <2>2, <2>3, RowUpdate DEF PollClaim, PollSignFails
  <2>5. /\ Claimed(w, clock + 1) \in [Worker -> Jobs]
        /\ [job EXCEPT ![w] = IdleJob] \in [Worker -> Jobs]
    BY <2>1, JobTypes, IdleTypes
  <2>6. job' \in [Worker -> Jobs]
    BY <1>10, <2>5 DEF PollClaim, PollSignFails
  <2> QED
    BY <1>10, <2>4, <2>6 DEF PollClaim, PollSignFails, TypeOK
<1>11. ASSUME NEW w \in Worker, PollLoses(w) \/ AbortJob(w) PROVE TypeOK'
  BY <1>11, IdleTypes DEF PollLoses, AbortJob, TypeOK
<1>12. ASSUME NEW w \in Worker, PollRespond(w) PROVE TypeOK'
  <2>1. job[w].cmd \in Command /\ job[w].agent \in Agent
    BY <1>12 DEF PollRespond, Busy
  <2> QED
    BY <1>12, <2>1, IdleTypes, WireUpdate DEF PollRespond, TypeOK
<1>13. ASSUME NEW c \in Command, NEW a \in Agent, HandleAck(c, a) PROVE TypeOK'
  <2>1. row[c] \in Rows /\ clock + 1 \in Nat
    BY DEF TypeOK
  <2>2. [row EXCEPT ![c] = MarkDispatched(row[c], clock + 1)] \in [Command -> Rows]
    BY <2>1, RowTypes, RowUpdate
  <2>3. row' \in [Command -> Rows] /\ clock' \in Nat
    BY <1>13, <2>1, <2>2 DEF HandleAck
  <2> QED
    BY <1>13, <2>3 DEF HandleAck, TypeOK
<1>14. ASSUME NEW c \in Command, NEW a \in Agent, NEW outcome \in TerminalStatus,
              HandleResult(c, a, outcome)
       PROVE TypeOK'
  <2>1. row[c] \in Rows
    BY DEF TypeOK
  <2>2. [row EXCEPT ![c] = MarkTerminal(row[c], outcome)] \in [Command -> Rows]
    BY <2>1, RowTypes, RowUpdate
  <2>3. row' \in [Command -> Rows] /\ verdicts' \in [Command -> Nat]
    BY <1>14, <2>2 DEF HandleResult, TypeOK
  <2> QED
    BY <1>14, <2>3 DEF HandleResult, TypeOK
<1>15. ASSUME Sweep PROVE TypeOK'
  <2>1. \A c \in Command : row[c] \in Rows /\ Expire(row[c]) \in Rows
    BY RowTypes DEF TypeOK
  <2> QED
    BY <1>15, <2>1 DEF Sweep, TypeOK
<1>16. ASSUME NEW a \in Agent, Revoke(a) PROVE TypeOK'
  BY <1>16 DEF Revoke, TypeOK
<1>17. ASSUME NEW i \in Issuer, AbortCall(i) PROVE TypeOK'
  <2>1. IdleCall \in Calls
    BY RowBounds DEF IdleCall, Calls
  <2> QED
    BY <1>17, <2>1 DEF AbortCall, TypeOK
<1>18. ASSUME Tick PROVE TypeOK'
  <2>1. \A c \in Command : Aged(row[c]) \in Rows
    BY AgedType DEF TypeOK
  <2> QED
    BY <1>18, <2>1 DEF Tick, TypeOK
<1> QED
  BY <1>0, <1>1, <1>2, <1>3, <1>4, <1>5, <1>6, <1>7, <1>8, <1>9, <1>10, <1>11, <1>12,
     <1>13, <1>14, <1>15, <1>16, <1>17, <1>18 DEF Next

\* What the control plane does to a row on its own account: it leaves the status
\* alone, or moves it along the life cycle of a command.
LifeCycle(r, s) ==
    \/ /\ s.status = r.status /\ s.closed = r.closed
       /\ r.status = "PENDING" => s.generation = r.generation
       /\ r.status \in {"COMPLETED", "FAILED"} => s.owner = r.owner
    \/ /\ r.status \in {"ABSENT", "DISPATCHED", "TIMEOUT"} /\ s.status = "PENDING"
       /\ s.closed = FALSE /\ s.generation = NoGeneration
    \/ r.status = "PENDING" /\ s.status = "DISPATCHED" /\ s.closed = r.closed
    \/ IsOpen(r) /\ s.status \in {"FAILED", "TIMEOUT"} /\ s.closed = TRUE

LEMMA UpdatesFollowLifeCycle ==
    ASSUME NEW r \in Rows
    PROVE  /\ r.status = "ABSENT" => \A a \in Agent : LifeCycle(r, Inserted(a))
           /\ CanMarkDispatched(r) => \A g \in Nat : LifeCycle(r, MarkDispatched(r, g))
           /\ \A g : CanRevertDispatch(r, g) =>
                 LifeCycle(r, RevertDispatch(r)) /\ \A a \in Agent : LifeCycle(r, Redrive(r, a))
           /\ CanReassign(r) => \A a \in Agent : LifeCycle(r, Reassign(r, a))
           /\ \A s : CanClaimRedispatch(r, s) => \A g \in Nat : LifeCycle(r, ClaimRedispatch(r, g))
           /\ CanExpire(r) => LifeCycle(r, Expire(r))
           /\ LifeCycle(r, Aged(r))
<1>1. r.status = "ABSENT" => \A a \in Agent : LifeCycle(r, Inserted(a))
  BY DEF Inserted, LifeCycle
<1>2. ASSUME NEW g \in Nat, CanMarkDispatched(r) PROVE LifeCycle(r, MarkDispatched(r, g))
  BY <1>2 DEF CanMarkDispatched, MarkDispatched, Rows, LifeCycle
<1>3. ASSUME NEW g, CanRevertDispatch(r, g) PROVE LifeCycle(r, RevertDispatch(r))
  BY <1>3 DEF CanRevertDispatch, RevertDispatch, Rows, LifeCycle
<1>4. ASSUME NEW g, CanRevertDispatch(r, g), NEW a \in Agent PROVE LifeCycle(r, Redrive(r, a))
  BY <1>4 DEF CanRevertDispatch, Redrive, RevertDispatch, Rows, LifeCycle
<1>5. ASSUME NEW a \in Agent, CanReassign(r) PROVE LifeCycle(r, Reassign(r, a))
  BY <1>5 DEF CanReassign, Reassign, Rows, LifeCycle
<1>6. ASSUME NEW s, CanClaimRedispatch(r, s), NEW g \in Nat PROVE LifeCycle(r, ClaimRedispatch(r, g))
  BY <1>6 DEF CanClaimRedispatch, ClaimRedispatch, Rows, LifeCycle
<1>8. CanExpire(r) => LifeCycle(r, Expire(r))
  BY DEF CanExpire, Expire, Rows, LifeCycle
<1>9. LifeCycle(r, Aged(r))
  BY DEF Aged, Rows, LifeCycle
<1> QED
  BY <1>1, <1>2, <1>3, <1>4, <1>5, <1>6, <1>8, <1>9

\* A signing failure closes a claimed row in the claim's own transaction.
LEMMA FailedFollowsLifeCycle ==
    ASSUME NEW r \in Rows, NEW s \in Rows, IsOpen(r)
    PROVE  LifeCycle(r, MarkTerminal(s, "FAILED"))
  BY DEF MarkTerminal, Rows, LifeCycle

\* A step on the row of d is a step of every row's life cycle.
LEMMA OneRow ==
    ASSUME TypeOK, NEW d, NEW s, LifeCycle(row[d], s),
           row' = [row EXCEPT ![d] = s]
    PROVE  \A c \in Command : LifeCycle(row[c], row'[c])
<1> SUFFICES ASSUME NEW c \in Command PROVE LifeCycle(row[c], row'[c])
  OBVIOUS
<1>1. CASE c = d
  BY <1>1 DEF TypeOK
<1>2. CASE c # d
  BY <1>2 DEF TypeOK, LifeCycle
<1> QED
  BY <1>1, <1>2

\* The agent's result on c is accepted in this step.
Answers(c) == \E a \in Agent, outcome \in TerminalStatus : HandleResult(c, a, outcome)

LEMMA RowsFollowLifeCycle ==
    ASSUME TypeOK, Busy, [Next]_vars
    PROVE  \A c \in Command : Answers(c) \/ LifeCycle(row[c], row'[c])
<1> DEFINE Goal == \A c \in Command : LifeCycle(row[c], row'[c])
<1> USE DEF wireVars
<1>1. CASE UNCHANGED row
  BY <1>1 DEF LifeCycle
<1>2. ASSUME NEW c \in Command, NEW a \in Agent, IssueNew(c, a) PROVE Goal
  <2>1. row[c] \in Rows /\ row[c].status = "ABSENT" /\ row' = [row EXCEPT ![c] = Inserted(a)]
    BY <1>2 DEF IssueNew, TypeOK
  <2>2. LifeCycle(row[c], Inserted(a))
    BY <2>1, UpdatesFollowLifeCycle
  <2> QED
    BY <2>1, <2>2, OneRow
<1>3. ASSUME NEW i \in Issuer, RedriveStep(i) PROVE Goal
  <2> DEFINE c == call[i].cmd
  <2>1. row[c] \in Rows /\ call[i].agent \in Agent
    BY <1>3 DEF RedriveStep, Busy, TypeOK
  <2>2. CASE row' = row
    BY <2>2 DEF LifeCycle
  <2>3. CASE /\ CanRevertDispatch(row[c], call[i].gen)
             /\ row' = [row EXCEPT ![c] = Redrive(row[c], call[i].agent)]
    <3>1. LifeCycle(row[c], Redrive(row[c], call[i].agent))
      BY <2>1, <2>3, UpdatesFollowLifeCycle
    <3> QED
      BY <2>3, <3>1, OneRow
  <2> QED
    BY <1>3, <2>2, <2>3 DEF RedriveStep
<1>4. ASSUME NEW i \in Issuer, ReassignStep(i) PROVE Goal
  <2> DEFINE c == call[i].cmd
  <2>1. row[c] \in Rows /\ call[i].agent \in Agent
    BY <1>4 DEF ReassignStep, Busy, TypeOK
  <2>2. CASE row' = row
    BY <2>2 DEF LifeCycle
  <2>3. CASE CanReassign(row[c]) /\ row' = [row EXCEPT ![c] = Reassign(row[c], call[i].agent)]
    <3>1. LifeCycle(row[c], Reassign(row[c], call[i].agent))
      BY <2>1, <2>3, UpdatesFollowLifeCycle
    <3> QED
      BY <2>3, <3>1, OneRow
  <2> QED
    BY <1>4, <2>2, <2>3 DEF ReassignStep
<1>5. ASSUME NEW w \in Worker, WsClaim(w) PROVE Goal
  <2> DEFINE c == job[w].cmd
  <2>1. row[c] \in Rows /\ clock + 1 \in Nat
    BY <1>5 DEF WsClaim, Busy, TypeOK
  <2>2. CASE row' = row
    BY <2>2 DEF LifeCycle
  <2>3. CASE CanMarkDispatched(row[c]) /\ row' = [row EXCEPT ![c] = MarkDispatched(row[c], clock + 1)]
    <3>1. LifeCycle(row[c], MarkDispatched(row[c], clock + 1))
      BY <2>1, <2>3, UpdatesFollowLifeCycle
    <3> QED
      BY <2>3, <3>1, OneRow
  <2> QED
    BY <1>5, <2>2, <2>3 DEF WsClaim
<1>6. ASSUME NEW w \in Worker, WsRevert(w) PROVE Goal
  <2> DEFINE c == job[w].cmd
  <2>1. row[c] \in Rows
    BY <1>6 DEF WsRevert, Busy, TypeOK
  <2>2. CASE row' = row
    BY <2>2 DEF LifeCycle
  <2>3. CASE /\ CanRevertDispatch(row[c], job[w].gen)
             /\ row' = [row EXCEPT ![c] = RevertDispatch(row[c])]
    <3>1. LifeCycle(row[c], RevertDispatch(row[c]))
      BY <2>1, <2>3, UpdatesFollowLifeCycle
    <3> QED
      BY <2>3, <3>1, OneRow
  <2> QED
    BY <1>6, <2>2, <2>3 DEF WsRevert
<1>7. ASSUME NEW w \in Worker, PollClaim(w) \/ PollSignFails(w) PROVE Goal
  <2> DEFINE c == job[w].cmd
             r == PollClaimed(w, clock + 1)
  <2>1. row[c] \in Rows /\ clock + 1 \in Nat /\ PollWins(w)
    BY <1>7 DEF PollClaim, PollSignFails, Busy, TypeOK
  <2>2. IsOpen(row[c])
    BY <2>1 DEF PollWins, CanMarkDispatched, CanClaimRedispatch, IsOpen, OpenStatus
  <2>3. r \in Rows
    BY <2>1, RowTypes DEF PollClaimed
  <2>4. LifeCycle(row[c], r)
    BY <2>1, UpdatesFollowLifeCycle DEF PollClaimed, PollWins
  <2>5. LifeCycle(row[c], MarkTerminal(r, "FAILED"))
    BY <2>1, <2>2, <2>3, FailedFollowsLifeCycle
  <2>6. row' = [row EXCEPT ![c] = r] \/ row' = [row EXCEPT ![c] = MarkTerminal(r, "FAILED")]
    BY <1>7 DEF PollClaim, PollSignFails
  <2> QED
    BY <2>4, <2>5, <2>6, OneRow
<1>8. ASSUME NEW c \in Command, NEW a \in Agent, HandleAck(c, a) PROVE Goal
  <2>1. /\ row[c] \in Rows /\ clock + 1 \in Nat /\ CanMarkDispatched(row[c])
        /\ row' = [row EXCEPT ![c] = MarkDispatched(row[c], clock + 1)]
    BY <1>8 DEF HandleAck, TypeOK
  <2>2. LifeCycle(row[c], MarkDispatched(row[c], clock + 1))
    BY <2>1, UpdatesFollowLifeCycle
  <2> QED
    BY <2>1, <2>2, OneRow
<1>9. ASSUME NEW d \in Command, NEW a \in Agent, NEW outcome \in TerminalStatus,
             HandleResult(d, a, outcome), NEW c \in Command
      PROVE Answers(c) \/ LifeCycle(row[c], row'[c])
  <2>1. CASE c = d
    BY <1>9, <2>1 DEF Answers
  <2>2. CASE c # d
    BY <1>9, <2>2 DEF HandleResult, TypeOK, LifeCycle
  <2> QED
    BY <2>1, <2>2
<1>10. ASSUME Sweep \/ Tick PROVE Goal
  <2> SUFFICES ASSUME NEW c \in Command PROVE LifeCycle(row[c], row'[c])
    OBVIOUS
  <2>1. row[c] \in Rows
    BY DEF TypeOK
  <2>2. \/ row'[c] = row[c]
        \/ CanExpire(row[c]) /\ row'[c] = Expire(row[c])
        \/ row'[c] = Aged(row[c])
    BY <1>10 DEF Sweep, Tick
  <2>3. CASE row'[c] = row[c]
    BY <2>3 DEF LifeCycle
  <2> QED
    BY <2>1, <2>2, <2>3, UpdatesFollowLifeCycle
<1> QED
  BY <1>1, <1>2, <1>3, <1>4, <1>5, <1>6, <1>7, <1>8, <1>9, <1>10
     DEF Next, vars, Reissue, WsRead, PollRead, WsSend, WsSendFails, PollLoses, PollRespond,
         AbortJob, AbortCall, Revoke

\* An accepted command never disappears.
LEMMA NeverAbsent ==
    ASSUME TypeOK, Busy, [Next]_vars, NEW c \in Command, row[c].status # "ABSENT"
    PROVE  row'[c].status # "ABSENT"
<1>1. CASE LifeCycle(row[c], row'[c])
  BY <1>1 DEF LifeCycle
<1>2. CASE Answers(c)
  <2>1. PICK a \in Agent, outcome \in TerminalStatus : HandleResult(c, a, outcome)
    BY <1>2 DEF Answers
  <2>2. row'[c].status = outcome
    BY <2>1 DEF HandleResult, MarkTerminal, TypeOK, Rows
  <2> QED
    BY <2>2 DEF TerminalStatus
<1> QED
  BY <1>1, <1>2, RowsFollowLifeCycle

-----------------------------------------------------------------------------
(* Coroutines *)

\* What a step may do to a worker: nothing, drop its job, carry on with the same
\* command, or pick a new one up.
JobStep(w) ==
    \/ job'[w] = job[w]
    \/ job'[w] = IdleJob
    \/ /\ job[w].pc # "idle"
       /\ job'[w].cmd = job[w].cmd /\ job'[w].agent = job[w].agent
    \/ /\ job'[w].pc = "read"
       /\ \E c \in Command, a \in Agent :
             /\ row[c].status # "ABSENT" /\ row[c].owner = a
             /\ job'[w].cmd = c /\ job'[w].agent = a

LEMMA JobsStep ==
    ASSUME TypeOK, Busy, [Next]_vars
    PROVE  \A w \in Worker : JobStep(w)
<1> DEFINE Goal == \A w \in Worker : JobStep(w)
<1> USE DEF wireVars
<1>1. CASE UNCHANGED job
  BY <1>1 DEF JobStep
<1>2. ASSUME NEW v \in Worker, job' = [job EXCEPT ![v] = IdleJob] PROVE Goal
  BY <1>2 DEF JobStep, TypeOK
<1>3. ASSUME NEW v \in Worker, NEW g, job[v].pc # "idle", job' = Claimed(v, g) PROVE Goal
  BY <1>3 DEF JobStep, Claimed, TypeOK, Jobs
<1>4. ASSUME NEW v \in Worker, WsSendFails(v) PROVE Goal
  BY <1>4 DEF WsSendFails, AfterFailedSend, JobStep, TypeOK, Jobs
<1>5. ASSUME NEW v \in Worker, NEW c \in Command, NEW a \in Agent, WsRead(v, c, a) \/ PollRead(v, c, a)
      PROVE Goal
  <2>1. row[c].status # "ABSENT" /\ row[c].owner = a
    BY <1>5 DEF WsRead, PollRead, PollEligible
  <2>2. job'[v].pc = "read" /\ job'[v].cmd = c /\ job'[v].agent = a
    BY <1>5 DEF WsRead, PollRead, TypeOK
  <2>3. \A w \in Worker : w # v => job'[w] = job[w]
    BY <1>5 DEF WsRead, PollRead, TypeOK
  <2> QED
    BY <2>1, <2>2, <2>3 DEF JobStep
<1>6. ASSUME NEW v \in Worker, WsClaim(v) \/ PollClaim(v) PROVE Goal
  BY <1>2, <1>3, <1>6 DEF WsClaim, PollClaim
<1>7. ASSUME NEW v \in Worker, \/ WsSend(v) \/ WsRevert(v) \/ PollSignFails(v)
                               \/ PollLoses(v) \/ PollRespond(v) \/ AbortJob(v)
      PROVE Goal
  BY <1>2, <1>7 DEF WsSend, WsRevert, PollSignFails, PollLoses, PollRespond, AbortJob
<1> QED
  BY <1>1, <1>4, <1>5, <1>6, <1>7, ZenonT(60)
     DEF Next, vars, IssueNew, Reissue, RedriveStep, ReassignStep, HandleAck, HandleResult,
         Sweep, Revoke, AbortCall, Tick

LEMMA BusyStep == TypeOK /\ Busy /\ [Next]_vars => Busy'
<1> SUFFICES ASSUME TypeOK, Busy, [Next]_vars PROVE Busy'
  OBVIOUS
<1>1. ASSUME NEW w \in Worker, job'[w].pc # "idle"
      PROVE  job'[w].cmd \in Command /\ job'[w].agent \in Agent /\ row'[job'[w].cmd].status # "ABSENT"
  <2>1. JobStep(w)
    BY JobsStep
  <2>2. job'[w].cmd \in Command /\ job'[w].agent \in Agent /\ row[job'[w].cmd].status # "ABSENT"
    <3>1. CASE job'[w] = job[w]
      BY <1>1, <3>1 DEF Busy
    <3>2. CASE job[w].pc # "idle" /\ job'[w].cmd = job[w].cmd /\ job'[w].agent = job[w].agent
      BY <3>2 DEF Busy
    <3> QED
      BY <1>1, <2>1, <3>1, <3>2 DEF JobStep, IdleJob
  <2> QED
    BY <2>2, NeverAbsent
<1>2. ASSUME NEW i \in Issuer, call'[i].pc # "idle"
      PROVE  call'[i].cmd \in Command /\ call'[i].agent \in Agent /\ row'[call'[i].cmd].status # "ABSENT"
  <2>1. CASE call'[i] = call[i]
    BY <1>2, <2>1, NeverAbsent DEF Busy
  <2>2. ASSUME NEW j \in Issuer, call' = [call EXCEPT ![j] = IdleCall] PROVE call'[i] = call[i]
    BY <1>2, <2>2 DEF TypeOK, IdleCall
  <2>3. ASSUME NEW j \in Issuer, NEW c \in Command, NEW a \in Agent, Reissue(j, c, a), i # j
        PROVE  call'[i] = call[i]
    BY <2>3 DEF Reissue, TypeOK
  <2>4. ASSUME NEW c \in Command, NEW a \in Agent, Reissue(i, c, a)
        PROVE  call'[i].cmd = c /\ call'[i].agent = a /\ row[c].status # "ABSENT"
    BY <2>4 DEF Reissue, SameCommand, TypeOK
  <2>5. ASSUME NEW c \in Command, NEW a \in Agent, Reissue(i, c, a)
        PROVE  call'[i].cmd \in Command /\ call'[i].agent \in Agent /\ row'[call'[i].cmd].status # "ABSENT"
    BY <2>4, <2>5, NeverAbsent
  <2>6. CASE UNCHANGED call
    BY <2>1, <2>6
  <2> QED
    BY <2>1, <2>2, <2>3, <2>5, <2>6, ZenonT(60)
       DEF Next, vars, IssueNew, WsRead, PollRead, RedriveStep, ReassignStep, HandleAck, HandleResult,
           Sweep, Revoke, AbortCall, Tick, WsClaim, WsSend, WsSendFails, WsRevert, PollClaim,
           PollSignFails, PollLoses, PollRespond, AbortJob
<1> QED
  BY <1>1, <1>2 DEF Busy

-----------------------------------------------------------------------------
(* Type correctness *)

WellTyped == TypeOK /\ Busy

LEMMA AlwaysWellTyped == Spec => []WellTyped
<1>1. Init => WellTyped
  BY InitTypes DEF WellTyped
<1>2. WellTyped /\ [Next]_vars => WellTyped'
  BY TypeStep, BusyStep DEF WellTyped
<1> QED
  BY <1>1, <1>2, PTL DEF Spec

-----------------------------------------------------------------------------
(* A claim has one winner *)

\* Every claim has a generation of its own, and the clock has passed it.
Claims ==
    /\ \A w \in Worker : Claiming(w) => job[w].gen \in 1 .. clock
    /\ \A v, w \in Worker : Claiming(v) /\ Claiming(w) /\ job[v].gen = job[w].gen => v = w

\* A step stamps at most one new generation, the clock's next value.
LEMMA ClaimsMove ==
    ASSUME TypeOK, [Next]_vars
    PROVE  \/ /\ clock' \in Nat /\ clock' >= clock
              /\ \A w \in Worker : Claiming(w)' => Claiming(w) /\ job'[w].gen = job[w].gen
           \/ /\ clock' = clock + 1
              /\ \E v \in Worker :
                    /\ job'[v].gen = clock'
                    /\ \A w \in Worker : w # v /\ Claiming(w)' =>
                          Claiming(w) /\ job'[w].gen = job[w].gen
<1> DEFINE Kept == \A w \in Worker : Claiming(w)' => Claiming(w) /\ job'[w].gen = job[w].gen
<1> DEFINE Old == clock' \in Nat /\ clock' >= clock /\ Kept
<1> DEFINE New == /\ clock' = clock + 1
                  /\ \E v \in Worker :
                        /\ job'[v].gen = clock'
                        /\ \A w \in Worker : w # v /\ Claiming(w)' =>
                              Claiming(w) /\ job'[w].gen = job[w].gen
<1> USE DEF wireVars
<1>0. clock \in Nat
  BY DEF TypeOK
<1>1. ASSUME UNCHANGED job PROVE Kept
  BY <1>1 DEF Claiming
<1>2. ASSUME NEW v \in Worker, job' = [job EXCEPT ![v] = IdleJob] PROVE Kept
  BY <1>2 DEF Claiming, IdleJob, TypeOK
<1>3. ASSUME NEW v \in Worker, job' = Claimed(v, clock + 1), clock' = clock + 1 PROVE New
  <2>1. job'[v].gen = clock'
    BY <1>3 DEF Claimed, TypeOK, Jobs
  <2>2. \A w \in Worker : w # v => job'[w] = job[w]
    BY <1>3 DEF Claimed, TypeOK
  <2> QED
    BY <1>3, <2>1, <2>2 DEF Claiming
<1>4. ASSUME NEW v \in Worker, WsSendFails(v) PROVE Kept
  <2>1. CASE job' = [job EXCEPT ![v] = IdleJob]
    BY <1>2, <2>1
  <2>2. CASE job' = [job EXCEPT ![v].pc = "failed"] /\ job[v].pc = "claimed"
    BY <2>2 DEF Claiming, TypeOK, Jobs
  <2> QED
    BY <1>4, <2>1, <2>2 DEF WsSendFails, AfterFailedSend
<1>5. ASSUME NEW v \in Worker, NEW c \in Command, NEW a \in Agent, WsRead(v, c, a) \/ PollRead(v, c, a)
      PROVE Kept
  <2>1. job'[v].pc = "read" /\ \A w \in Worker : w # v => job'[w] = job[w]
    BY <1>5 DEF WsRead, PollRead, TypeOK
  <2> QED
    BY <2>1 DEF Claiming
<1>6. ASSUME NEW v \in Worker, WsClaim(v) \/ PollClaim(v) \/ PollSignFails(v) PROVE Old \/ New
  <2>1. CASE job' = Claimed(v, clock + 1) /\ clock' = clock + 1
    BY <1>3, <2>1
  <2>2. CASE job' = [job EXCEPT ![v] = IdleJob] /\ (clock' = clock \/ clock' = clock + 1)
    <3>1. clock' \in Nat /\ clock' >= clock
      BY <1>0, <2>2
    <3> QED
      BY <1>2, <2>2, <3>1
  <2> QED
    BY <1>6, <2>1, <2>2 DEF WsClaim, PollClaim, PollSignFails
<1>7. ASSUME NEW v \in Worker, \/ WsSend(v) \/ WsRevert(v) \/ PollLoses(v) \/ PollRespond(v)
                               \/ AbortJob(v)
      PROVE Old
  BY <1>0, <1>2, <1>7 DEF WsSend, WsRevert, PollLoses, PollRespond, AbortJob
<1>8. ASSUME NEW v \in Worker, NEW c \in Command, NEW a \in Agent, WsRead(v, c, a) \/ PollRead(v, c, a)
      PROVE Old
  BY <1>0, <1>5, <1>8 DEF WsRead, PollRead
<1>9. ASSUME NEW v \in Worker, WsSendFails(v) PROVE Old
  BY <1>0, <1>4, <1>9 DEF WsSendFails
<1>10. ASSUME NEW c \in Command, NEW a \in Agent, HandleAck(c, a) PROVE Old
  BY <1>0, <1>1, <1>10 DEF HandleAck
<1>11. ASSUME UNCHANGED <<clock, job>> PROVE Old
  BY <1>0, <1>1, <1>11
<1> QED
  BY <1>6, <1>7, <1>8, <1>9, <1>10, <1>11
     DEF Next, vars, IssueNew, Reissue, RedriveStep, ReassignStep, HandleResult, Sweep, Revoke,
         AbortCall, Tick

LEMMA AlwaysClaims == Spec => []Claims
<1>1. Init => Claims
  BY DEF Init, Claims, Claiming, IdleJob
<1>2. ASSUME TypeOK, Claims, [Next]_vars PROVE Claims'
  <2>0. clock \in Nat
    BY <1>2 DEF TypeOK
  <2>1. CASE /\ clock' \in Nat /\ clock' >= clock
             /\ \A w \in Worker : Claiming(w)' => Claiming(w) /\ job'[w].gen = job[w].gen
    BY <1>2, <2>0, <2>1 DEF Claims
  <2>2. CASE /\ clock' = clock + 1
             /\ \E v \in Worker :
                   /\ job'[v].gen = clock'
                   /\ \A w \in Worker : w # v /\ Claiming(w)' =>
                         Claiming(w) /\ job'[w].gen = job[w].gen
    <3>1. PICK v \in Worker :
             /\ job'[v].gen = clock'
             /\ \A w \in Worker : w # v /\ Claiming(w)' => Claiming(w) /\ job'[w].gen = job[w].gen
      BY <2>2
    <3>2. \A w \in Worker : w # v /\ Claiming(w)' => job'[w].gen \in 1 .. clock
      BY <1>2, <3>1 DEF Claims
    <3>3. \A w \in Worker : w # v /\ Claiming(w)' => job'[w].gen # clock'
      BY <2>0, <2>2, <3>2
    <3>4. \A w \in Worker : Claiming(w)' => job'[w].gen \in 1 .. clock'
      BY <2>0, <2>2, <3>1, <3>2
    <3>5. \A u, w \in Worker : Claiming(u)' /\ Claiming(w)' /\ job'[u].gen = job'[w].gen => u = w
      BY <1>2, <3>1, <3>3 DEF Claims
    <3> QED
      BY <3>4, <3>5 DEF Claims
  <2> QED
    BY <1>2, <2>1, <2>2, ClaimsMove
<1>3. WellTyped /\ Claims /\ [Next]_vars => Claims'
  BY <1>2 DEF WellTyped
<1> QED
  BY <1>1, <1>3, AlwaysWellTyped, PTL DEF Spec

\* Of all coroutines on all replicas, at most one holds the claim a row carries:
\* a generation is stamped once, so two holders would hold the same stamp.
THEOREM ClaimHasOneHolder == Spec => []SingleCurrentClaim
<1>1. Claims => SingleCurrentClaim
  BY DEF Claims, SingleCurrentClaim, HoldsCurrentClaim, Claiming
<1> QED
  BY <1>1, AlwaysClaims, PTL

-----------------------------------------------------------------------------
(* At most one copy of what must not run twice *)

\* Who may bring a command back to PENDING or claim it again works on a
\* redeliverable one: the guards are read before the await and hold after it,
\* because an action never changes.
Safe ==
    /\ \A w \in Worker : job[w].pc = "failed" => job[w].cmd \in Redeliverable
    /\ \A w \in Worker : job[w].pc = "read" /\ job[w].via = "longpoll" /\ job[w].gen # NoGeneration =>
          job[w].cmd \in Redeliverable
    /\ \A i \in Issuer : call[i].pc = "redrive" => call[i].cmd \in Redeliverable
    /\ \A c \in Command : row[c].status = "PENDING" => row[c].generation = NoGeneration

LEMMA SafeStep == TypeOK /\ Busy /\ Safe /\ [Next]_vars => Safe'
<1> SUFFICES ASSUME TypeOK, Busy, Safe, [Next]_vars PROVE Safe'
  OBVIOUS
<1> USE DEF wireVars
<1>1. ASSUME NEW w \in Worker
      PROVE  /\ job'[w].pc = "failed" => job'[w].cmd \in Redeliverable
             /\ job'[w].pc = "read" /\ job'[w].via = "longpoll" /\ job'[w].gen # NoGeneration =>
                   job'[w].cmd \in Redeliverable
  <2> DEFINE Fine(j) == /\ j.pc = "failed" => j.cmd \in Redeliverable
                        /\ j.pc = "read" /\ j.via = "longpoll" /\ j.gen # NoGeneration =>
                              j.cmd \in Redeliverable
  <2>1. CASE job'[w] = job[w]
    BY <2>1 DEF Safe
  <2>2. CASE job'[w] = IdleJob
    BY <2>2 DEF IdleJob
  <2>3. ASSUME NEW g, job' = Claimed(w, g) PROVE Fine(job'[w])
    BY <2>3 DEF Claimed, TypeOK, Jobs
  <2>4. ASSUME WsSendFails(w) PROVE Fine(job'[w])
    BY <2>4 DEF WsSendFails, AfterFailedSend, TypeOK, Jobs, IdleJob
  <2>5. ASSUME NEW c \in Command, NEW a \in Agent, WsRead(w, c, a) PROVE Fine(job'[w])
    BY <2>5 DEF WsRead, TypeOK
  <2>6. ASSUME NEW c \in Command, NEW a \in Agent, PollRead(w, c, a) PROVE Fine(job'[w])
    <3>1. job'[w].pc = "read" /\ job'[w].cmd = c /\ job'[w].gen = row[c].generation
      BY <2>6 DEF PollRead, TypeOK
    <3>2. row[c].status = "PENDING" \/ c \in Redeliverable
      BY <2>6 DEF PollRead, PollEligible
    <3> QED
      BY <3>1, <3>2 DEF Safe
  <2>7. ASSUME NEW v \in Worker, v # w,
               \/ job' = [job EXCEPT ![v] = IdleJob]
               \/ \E g : job' = Claimed(v, g)
               \/ WsSendFails(v)
               \/ \E c \in Command, a \in Agent : WsRead(v, c, a) \/ PollRead(v, c, a)
        PROVE  job'[w] = job[w]
    BY <2>7 DEF Claimed, WsSendFails, AfterFailedSend, WsRead, PollRead, TypeOK
  <2>8. ASSUME NEW v \in Worker, job' = [job EXCEPT ![v] = IdleJob] PROVE Fine(job'[w])
    BY <2>1, <2>2, <2>7, <2>8 DEF TypeOK
  <2>9. ASSUME NEW v \in Worker, NEW g, job' = Claimed(v, g) PROVE Fine(job'[w])
    BY <2>1, <2>3, <2>7, <2>9
  <2>10. ASSUME NEW v \in Worker,
               \/ WsClaim(v) \/ WsSend(v) \/ WsRevert(v) \/ PollClaim(v) \/ PollSignFails(v)
               \/ PollLoses(v) \/ PollRespond(v) \/ AbortJob(v)
        PROVE  Fine(job'[w])
    BY <2>8, <2>9, <2>10 DEF WsClaim, WsSend, WsRevert, PollClaim, PollSignFails, PollLoses,
                            PollRespond, AbortJob
  <2>11. ASSUME NEW v \in Worker, WsSendFails(v) PROVE Fine(job'[w])
    BY <2>1, <2>4, <2>7, <2>11
  <2>12. ASSUME NEW v \in Worker, NEW c \in Command, NEW a \in Agent, WsRead(v, c, a) \/ PollRead(v, c, a)
        PROVE  Fine(job'[w])
    BY <2>1, <2>5, <2>6, <2>7, <2>12
  <2> QED
    BY <2>1, <2>10, <2>11, <2>12, ZenonT(60)
       DEF Next, vars, IssueNew, Reissue, RedriveStep, ReassignStep, HandleAck, HandleResult,
           Sweep, Revoke, AbortCall, Tick
<1>2. ASSUME NEW i \in Issuer, call'[i].pc = "redrive" PROVE call'[i].cmd \in Redeliverable
  <2>1. CASE call'[i] = call[i]
    BY <1>2, <2>1 DEF Safe
  <2>2. ASSUME NEW j \in Issuer, call' = [call EXCEPT ![j] = IdleCall] PROVE call'[i] = call[i]
    BY <1>2, <2>2 DEF TypeOK, IdleCall
  <2>3. ASSUME NEW j \in Issuer, NEW c \in Command, NEW a \in Agent, Reissue(j, c, a), i # j
        PROVE  call'[i] = call[i]
    BY <2>3 DEF Reissue, TypeOK
  <2>4. ASSUME NEW c \in Command, NEW a \in Agent, Reissue(i, c, a)
        PROVE  call'[i].cmd \in Redeliverable
    BY <1>2, <2>4 DEF Reissue, TypeOK
  <2>5. CASE UNCHANGED call
    BY <2>1, <2>5
  <2> QED
    BY <2>1, <2>2, <2>3, <2>4, <2>5, ZenonT(60)
       DEF Next, vars, IssueNew, WsRead, PollRead, RedriveStep, ReassignStep, HandleAck, HandleResult,
           Sweep, Revoke, AbortCall, Tick, WsClaim, WsSend, WsSendFails, WsRevert, PollClaim,
           PollSignFails, PollLoses, PollRespond, AbortJob
<1>3. ASSUME NEW c \in Command, row'[c].status = "PENDING" PROVE row'[c].generation = NoGeneration
  <2>1. CASE LifeCycle(row[c], row'[c])
    BY <1>3, <2>1 DEF LifeCycle, Safe
  <2>2. CASE Answers(c)
    BY <1>3, <2>2 DEF Answers, HandleResult, MarkTerminal, TypeOK, Rows, TerminalStatus
  <2> QED
    BY <2>1, <2>2, RowsFollowLifeCycle
<1> QED
  BY <1>1, <1>2, <1>3 DEF Safe

\* The worker has claimed c and not sent it yet.
Holds(w, c) == job[w].pc = "claimed" /\ job[w].cmd = c

\* A command that must not run twice is unsent while it waits or is being sent,
\* and one worker at most is sending it.
Once(c) ==
    /\ row[c].status \in {"ABSENT", "PENDING"} =>
          sends[c] = 0 /\ \A w \in Worker : ~Holds(w, c)
    /\ \A w \in Worker : Holds(w, c) => sends[c] = 0
    /\ \A v, w \in Worker : Holds(v, c) /\ Holds(w, c) => v = w
    /\ sends[c] <= 1

\* A step that neither sends nor claims c, nor makes it wait again, keeps Once.
Calm(c) ==
    /\ sends'[c] = sends[c]
    /\ \A w \in Worker : Holds(w, c)' => Holds(w, c)
    /\ row'[c].status \in {"ABSENT", "PENDING"} => row[c].status \in {"ABSENT", "PENDING"}

LEMMA CalmKeepsOnce ==
    ASSUME NEW c \in Command, Once(c), Calm(c)
    PROVE  Once(c)'
  BY DEF Once, Calm

\* Claiming a waiting command makes its claimant the only one.
LEMMA ClaimKeepsOnce ==
    ASSUME TypeOK, NEW c \in Command, Once(c), NEW w \in Worker, NEW g, NEW s,
           row[c].status = "PENDING", job[w].cmd = c,
           row' = [row EXCEPT ![c] = s], s.status \notin {"ABSENT", "PENDING"},
           job' = Claimed(w, g), sends' = sends
    PROVE  Once(c)'
<1>1. row'[c].status \notin {"ABSENT", "PENDING"}
  BY DEF TypeOK
<1>2. \A v \in Worker : v # w => job'[v] = job[v]
  BY DEF Claimed, TypeOK
<1>3. \A v \in Worker : Holds(v, c)' => v = w
  BY <1>2 DEF Once, Holds
<1>4. sends'[c] = 0
  BY DEF Once
<1> QED
  BY <1>1, <1>3, <1>4 DEF Once

\* Its one transmission ends its one claim.
LEMMA SendKeepsOnce ==
    ASSUME TypeOK, NEW c \in Command, Once(c), NEW w \in Worker, Holds(w, c),
           row' = row, job' = [job EXCEPT ![w] = IdleJob],
           sends' = [sends EXCEPT ![c] = @ + 1]
    PROVE  Once(c)'
<1>1. row'[c].status \notin {"ABSENT", "PENDING"}
  BY DEF Once
<1>2. /\ \A v \in Worker : v # w => job'[v] = job[v]
      /\ job'[w].pc = "idle"
  BY DEF IdleJob, TypeOK
<1>3. \A v \in Worker : ~Holds(v, c)'
  BY <1>2 DEF Once, Holds
<1>4. sends'[c] = 1
  BY DEF Once, TypeOK
<1> QED
  BY <1>1, <1>3, <1>4 DEF Once

LEMMA OnceStep ==
    ASSUME TypeOK, Busy, Safe, [Next]_vars, NEW c \in Command, c \notin Redeliverable, Once(c)
    PROVE  Once(c)'
<1> USE DEF wireVars
<1>0. row[c] \in Rows
  BY DEF TypeOK
<1>1. CASE UNCHANGED <<row, sends, job>>
  BY <1>1, CalmKeepsOnce DEF Calm, Holds
<1>2. ASSUME NEW w \in Worker, job' = [job EXCEPT ![w] = IdleJob]
      PROVE  \A v \in Worker : Holds(v, c)' => Holds(v, c)
  BY <1>2 DEF Holds, IdleJob, TypeOK
<1>3. ASSUME NEW d \in Command, NEW a \in Agent, IssueNew(d, a) PROVE Once(c)'
  <2>1. row'[c] = row[c] \/ row[c].status = "ABSENT"
    BY <1>3 DEF IssueNew, TypeOK
  <2> QED
    BY <1>3, <2>1, CalmKeepsOnce DEF IssueNew, Calm, Holds
<1>4. ASSUME NEW i \in Issuer, RedriveStep(i) PROVE Once(c)'
  <2>1. row'[c] = row[c]
    BY <1>4 DEF RedriveStep, Safe, TypeOK
  <2> QED
    BY <1>4, <2>1, CalmKeepsOnce DEF RedriveStep, Calm, Holds
<1>5. ASSUME NEW i \in Issuer, ReassignStep(i) PROVE Once(c)'
  <2>1. row'[c].status = row[c].status
    BY <1>0, <1>5 DEF ReassignStep, Reassign, Rows, TypeOK
  <2> QED
    BY <1>5, <2>1, CalmKeepsOnce DEF ReassignStep, Calm, Holds
<1>6. ASSUME NEW w \in Worker, NEW d \in Command, NEW a \in Agent, WsRead(w, d, a) \/ PollRead(w, d, a)
      PROVE  Once(c)'
  <2>1. job'[w].pc = "read" /\ \A v \in Worker : v # w => job'[v] = job[v]
    BY <1>6 DEF WsRead, PollRead, TypeOK
  <2>2. row' = row /\ sends' = sends
    BY <1>6 DEF WsRead, PollRead
  <2> QED
    BY <2>1, <2>2, CalmKeepsOnce DEF Calm, Holds
<1>7. ASSUME NEW w \in Worker, WsClaim(w) PROVE Once(c)'
  <2> DEFINE d == job[w].cmd
  <2>1. CASE CanMarkDispatched(row[d]) /\ d = c
    <3>1. /\ row' = [row EXCEPT ![c] = MarkDispatched(row[c], clock + 1)]
          /\ job' = Claimed(w, clock + 1) /\ sends' = sends
          /\ row[c].status = "PENDING"
      BY <1>7, <2>1 DEF WsClaim, CanMarkDispatched
    <3>2. MarkDispatched(row[c], clock + 1).status \notin {"ABSENT", "PENDING"}
      BY <1>0 DEF MarkDispatched, Rows
    <3> QED
      BY <2>1, <3>1, <3>2, ClaimKeepsOnce
  <2>2. CASE CanMarkDispatched(row[d]) /\ d # c
    <3>1. job' = Claimed(w, clock + 1) /\ row'[c] = row[c] /\ sends' = sends
      BY <1>7, <2>2 DEF WsClaim, TypeOK
    <3>2. \A v \in Worker : Holds(v, c)' => Holds(v, c)
      BY <2>2, <3>1 DEF Claimed, Holds, TypeOK, Jobs
    <3> QED
      BY <3>1, <3>2, CalmKeepsOnce DEF Calm
  <2>3. CASE ~CanMarkDispatched(row[d])
    <3>1. job' = [job EXCEPT ![w] = IdleJob] /\ row' = row /\ sends' = sends
      BY <1>7, <2>3 DEF WsClaim
    <3> QED
      BY <1>2, <3>1, CalmKeepsOnce DEF Calm
  <2> QED
    BY <2>1, <2>2, <2>3
<1>8. ASSUME NEW w \in Worker, WsSend(w) \/ PollRespond(w) PROVE Once(c)'
  <2> DEFINE d == job[w].cmd
  <2>0. d \in Command
    BY <1>8 DEF WsSend, PollRespond, Busy
  <2>1. /\ row' = row /\ job' = [job EXCEPT ![w] = IdleJob] /\ Holds(w, d)
        /\ sends' = [sends EXCEPT ![d] = @ + 1]
    BY <1>8 DEF WsSend, PollRespond, Transmitted, Holds
  <2>2. CASE d = c
    BY <2>1, <2>2, SendKeepsOnce
  <2>3. CASE d # c
    <3>1. sends'[c] = sends[c]
      BY <2>1, <2>3 DEF TypeOK
    <3> QED
      BY <1>2, <2>1, <3>1, CalmKeepsOnce DEF Calm
  <2> QED
    BY <2>2, <2>3
<1>9. ASSUME NEW w \in Worker, WsSendFails(w) PROVE Once(c)'
  <2> DEFINE d == job[w].cmd
  <2>0. row' = row /\ Holds(w, d) /\ d \in Command
    BY <1>9 DEF WsSendFails, Holds, Busy
  <2>1. CASE d = c
    <3>1. job' = [job EXCEPT ![w] = IdleJob]
      BY <1>9, <2>1 DEF WsSendFails, AfterFailedSend
    <3>2. CASE sends' = sends
      BY <1>2, <2>0, <3>1, <3>2, CalmKeepsOnce DEF Calm
    <3>3. CASE sends' = [sends EXCEPT ![c] = @ + 1]
      BY <2>0, <2>1, <3>1, <3>3, SendKeepsOnce
    <3> QED
      BY <1>9, <2>1, <3>2, <3>3 DEF WsSendFails, Transmitted
  <2>2. CASE d # c
    <3>1. sends'[c] = sends[c]
      BY <1>9, <2>2 DEF WsSendFails, Transmitted, TypeOK
    <3>2. \A v \in Worker : Holds(v, c)' => Holds(v, c)
      BY <1>9, <2>2 DEF WsSendFails, AfterFailedSend, Holds, IdleJob, TypeOK, Jobs
    <3> QED
      BY <2>0, <3>1, <3>2, CalmKeepsOnce DEF Calm
  <2> QED
    BY <2>1, <2>2
<1>10. ASSUME NEW w \in Worker, WsRevert(w) PROVE Once(c)'
  <2>1. job[w].cmd # c
    BY <1>10 DEF WsRevert, Safe
  <2>2. row'[c] = row[c] /\ sends' = sends /\ job' = [job EXCEPT ![w] = IdleJob]
    BY <1>10, <2>1 DEF WsRevert, TypeOK
  <2> QED
    BY <1>2, <2>2, CalmKeepsOnce DEF Calm
<1>11. ASSUME NEW w \in Worker, PollClaim(w) PROVE Once(c)'
  <2> DEFINE d == job[w].cmd
  <2>0. job' = Claimed(w, clock + 1) /\ sends' = sends /\ row' = [row EXCEPT ![d] = PollClaimed(w, clock + 1)]
    BY <1>11 DEF PollClaim
  <2>1. CASE d = c
    <3>1. job[w].gen = NoGeneration
      BY <1>11, <2>1 DEF PollClaim, Safe
    <3>2. row[c].status = "PENDING"
      BY <1>11, <2>1, <3>1 DEF PollClaim, PollWins, CanMarkDispatched
    <3>3. PollClaimed(w, clock + 1).status \notin {"ABSENT", "PENDING"}
      BY <1>0, <2>1, <3>1 DEF PollClaimed, MarkDispatched, Rows
    <3> QED
      BY <2>0, <2>1, <3>2, <3>3, ClaimKeepsOnce
  <2>2. CASE d # c
    <3>1. row'[c] = row[c]
      BY <2>0, <2>2 DEF TypeOK
    <3>2. \A v \in Worker : Holds(v, c)' => Holds(v, c)
      BY <2>0, <2>2 DEF Claimed, Holds, TypeOK, Jobs
    <3> QED
      BY <2>0, <3>1, <3>2, CalmKeepsOnce DEF Calm
  <2> QED
    BY <2>1, <2>2
<1>12. ASSUME NEW w \in Worker, PollSignFails(w) PROVE Once(c)'
  <2> DEFINE d == job[w].cmd
  <2>1. /\ job' = [job EXCEPT ![w] = IdleJob] /\ sends' = sends
        /\ row' = [row EXCEPT ![d] = MarkTerminal(PollClaimed(w, clock + 1), "FAILED")]
    BY <1>12 DEF PollSignFails
  <2>2. PollClaimed(w, clock + 1) \in Rows
    <3>1. row[d] \in Rows /\ clock + 1 \in Nat
      BY <1>12 DEF PollSignFails, Busy, TypeOK
    <3> QED
      BY <3>1, RowTypes DEF PollClaimed
  <2>3. row'[c] = row[c] \/ row'[c].status = "FAILED"
    BY <2>1, <2>2 DEF MarkTerminal, Rows, TypeOK
  <2> QED
    BY <1>2, <2>1, <2>3, CalmKeepsOnce DEF Calm
<1>13. ASSUME NEW w \in Worker, PollLoses(w) \/ AbortJob(w) PROVE Once(c)'
  BY <1>2, <1>13, CalmKeepsOnce DEF PollLoses, AbortJob, Calm
<1>14. ASSUME NEW d \in Command, NEW a \in Agent, HandleAck(d, a) PROVE Once(c)'
  <2>1. row'[c] = row[c] \/ row'[c].status = "DISPATCHED"
    BY <1>14 DEF HandleAck, MarkDispatched, TypeOK, Rows
  <2> QED
    BY <1>14, <2>1, CalmKeepsOnce DEF HandleAck, Calm, Holds
<1>15. ASSUME NEW d \in Command, NEW a \in Agent, NEW outcome \in TerminalStatus, HandleResult(d, a, outcome)
       PROVE  Once(c)'
  <2>1. row'[c] = row[c] \/ row'[c].status = outcome
    BY <1>15 DEF HandleResult, MarkTerminal, TypeOK, Rows
  <2> QED
    BY <1>15, <2>1, CalmKeepsOnce DEF HandleResult, Calm, Holds, TerminalStatus
<1>16. ASSUME Sweep PROVE Once(c)'
  <2>1. row'[c] = row[c] \/ row'[c].status = "TIMEOUT"
    BY <1>0, <1>16 DEF Sweep, Expire, Rows
  <2> QED
    BY <1>16, <2>1, CalmKeepsOnce DEF Sweep, Calm, Holds
<1>17. ASSUME Tick PROVE Once(c)'
  <2>1. row'[c].status = row[c].status
    BY <1>0, <1>17 DEF Tick, Aged, Rows
  <2> QED
    BY <1>17, <2>1, CalmKeepsOnce DEF Tick, Calm, Holds
<1> QED
  BY <1>1, <1>3, <1>4, <1>5, <1>6, <1>7, <1>8, <1>9, <1>10, <1>11, <1>12, <1>13, <1>14, <1>15,
     <1>16, <1>17
     DEF Next, vars, Reissue, Revoke, AbortCall

AllOnce == \A c \in Command \ Redeliverable : Once(c)

LEMMA AlwaysOnce == Spec => [](Safe /\ AllOnce)
<1>1. Init => Safe /\ AllOnce
  BY DEF Init, Safe, AllOnce, Once, Holds, IdleJob, IdleCall, AbsentRow
<1>2. WellTyped /\ Safe /\ AllOnce /\ [Next]_vars => Safe' /\ AllOnce'
  BY SafeStep, OnceStep DEF AllOnce, WellTyped
<1> QED
  BY <1>1, <1>2, AlwaysWellTyped, PTL DEF Spec

\* A destructive command leaves for an agent at most once, whatever is reissued,
\* reverted, redispatched, acknowledged, swept or crashes around it, for every
\* number of replicas and every setting of the windows.
THEOREM DestructiveAtMostOnce == Spec => []NoSecondCopy
<1>1. AllOnce => NoSecondCopy
  BY DEF AllOnce, Once, NoSecondCopy
<1> QED
  BY <1>1, AlwaysOnce, PTL

-----------------------------------------------------------------------------
(* Verdicts *)

\* Copies and verdicts are only ever added, and only a result adds a verdict.
LEMMA WireMoves ==
    ASSUME TypeOK, Busy, [Next]_vars, NEW c \in Command
    PROVE  /\ reached[c] \subseteq reached'[c]
           /\ (sends'[c] = sends[c] /\ reached'[c] = reached[c]) \/ sends'[c] = sends[c] + 1
           /\ Answers(c) \/ verdicts'[c] = verdicts[c]
<1> DEFINE Goal == /\ reached[c] \subseteq reached'[c]
                   /\ (sends'[c] = sends[c] /\ reached'[c] = reached[c]) \/ sends'[c] = sends[c] + 1
                   /\ Answers(c) \/ verdicts'[c] = verdicts[c]
<1> USE DEF wireVars
<1>1. CASE UNCHANGED wireVars
  BY <1>1
<1>2. ASSUME NEW d \in Command, NEW a \in Agent, Transmitted(d, a), UNCHANGED verdicts PROVE Goal
  BY <1>2 DEF Transmitted, TypeOK
<1>3. ASSUME NEW w \in Worker, WsSend(w) \/ WsSendFails(w) \/ PollRespond(w) PROVE Goal
  <2>1. job[w].cmd \in Command /\ job[w].agent \in Agent
    BY <1>3 DEF WsSend, WsSendFails, PollRespond, Busy
  <2> QED
    BY <1>1, <1>2, <1>3, <2>1 DEF WsSend, WsSendFails, PollRespond
<1>4. ASSUME NEW d \in Command, NEW a \in Agent, NEW outcome \in TerminalStatus, HandleResult(d, a, outcome)
      PROVE  Goal
  <2>1. d # c => verdicts'[c] = verdicts[c]
    BY <1>4 DEF HandleResult, TypeOK
  <2>2. d = c => Answers(c)
    BY <1>4 DEF Answers
  <2> QED
    BY <1>4, <2>1, <2>2 DEF HandleResult
<1> QED
  BY <1>1, <1>3, <1>4, SMTT(60)
     DEF Next, vars, IssueNew, Reissue, RedriveStep, ReassignStep, WsRead, PollRead, WsClaim,
         WsRevert, PollClaim, PollSignFails, PollLoses, HandleAck, Sweep, Revoke, AbortJob, AbortCall, Tick

\* What a result does to the row and the audit chain.
LEMMA AnswerMoves ==
    ASSUME TypeOK, NEW c \in Command, Answers(c)
    PROVE  /\ IsOpen(row[c]) /\ row[c].owner \in reached[c]
           /\ row'[c].status \in TerminalStatus /\ row'[c].owner = row[c].owner
           /\ row'[c].closed = TRUE
           /\ row' = [row EXCEPT ![c] = row'[c]]
           /\ verdicts' = [verdicts EXCEPT ![c] = @ + 1]
           /\ UNCHANGED <<sends, reached>>
<1>1. PICK a \in Agent, outcome \in TerminalStatus : HandleResult(c, a, outcome)
  BY DEF Answers
<1>2. row[c] \in Rows /\ row' = [row EXCEPT ![c] = MarkTerminal(row[c], outcome)]
  BY <1>1 DEF HandleResult, TypeOK
<1>3. row'[c] = MarkTerminal(row[c], outcome)
  BY <1>2 DEF TypeOK
<1>4. row'[c].status = outcome /\ row'[c].owner = row[c].owner /\ row'[c].closed = TRUE
  BY <1>2, <1>3 DEF MarkTerminal, Rows
<1>5. row' = [row EXCEPT ![c] = row'[c]]
  BY <1>2, <1>3
<1> QED
  BY <1>1, <1>4, <1>5 DEF HandleResult, CanMarkTerminal

\* Nobody holds a copy of what was never sent; the rest is VerdictFromOwner with
\* the case it leaves implicit: what is still open has no verdict.
Verdicts ==
    \A c \in Command :
        /\ reached[c] # {} => sends[c] > 0
        /\ verdicts[c] \in {0, 1}
        /\ verdicts[c] = 1 => row[c].status \in TerminalStatus /\ row[c].owner \in reached[c]
        /\ row[c].status = "COMPLETED" => verdicts[c] = 1

LEMMA VerdictsStep == TypeOK /\ Busy /\ Verdicts /\ [Next]_vars => Verdicts'
<1> SUFFICES ASSUME TypeOK, Busy, Verdicts, [Next]_vars, NEW c \in Command
             PROVE  /\ reached'[c] # {} => sends'[c] > 0
                    /\ verdicts'[c] \in {0, 1}
                    /\ verdicts'[c] = 1 => row'[c].status \in TerminalStatus /\ row'[c].owner \in reached'[c]
                    /\ row'[c].status = "COMPLETED" => verdicts'[c] = 1
  BY DEF Verdicts
<1>1. reached'[c] # {} => sends'[c] > 0
  BY WireMoves DEF Verdicts, TypeOK
<1>2. CASE Answers(c)
  <2>1. verdicts[c] = 0
    BY <1>2, AnswerMoves DEF Verdicts, IsOpen, OpenStatus, TerminalStatus
  <2>2. verdicts'[c] = 1
    <3>1. verdicts \in [Command -> Nat]
      BY DEF TypeOK
    <3>2. verdicts' = [verdicts EXCEPT ![c] = @ + 1]
      BY <1>2, AnswerMoves
    <3> QED
      BY <2>1, <3>1, <3>2
  <2>3. row'[c].status \in TerminalStatus /\ row'[c].owner \in reached[c] /\ reached' = reached
    BY <1>2, AnswerMoves
  <2> QED
    BY <1>1, <2>2, <2>3
<1>3. CASE LifeCycle(row[c], row'[c]) /\ ~Answers(c)
  <2>1. verdicts'[c] = verdicts[c] /\ reached[c] \subseteq reached'[c]
    BY <1>3, WireMoves
  <2>2. row'[c].status = "COMPLETED" => row[c].status = "COMPLETED"
    BY <1>3 DEF LifeCycle
  <2>3. row[c].status \in TerminalStatus => row'[c].status = row[c].status /\ row'[c].owner = row[c].owner
    BY <1>3 DEF LifeCycle, TerminalStatus, IsOpen, OpenStatus
  <2> QED
    BY <1>1, <2>1, <2>2, <2>3 DEF Verdicts
<1> QED
  BY <1>2, <1>3, RowsFollowLifeCycle

LEMMA AlwaysVerdicts == Spec => []Verdicts
<1>1. Init => Verdicts
  BY DEF Init, Verdicts, AbsentRow
<1>2. WellTyped /\ Verdicts /\ [Next]_vars => Verdicts'
  BY VerdictsStep DEF WellTyped
<1> QED
  BY <1>1, <1>2, AlwaysWellTyped, PTL DEF Spec

\* A verdict is audited once, stands, and came from the row's owner, who had been
\* sent the command: no late, repeated or misdirected result changes that.
THEOREM VerdictsStand == Spec => []VerdictFromOwner
<1>1. Verdicts => VerdictFromOwner
  BY DEF Verdicts, VerdictFromOwner
<1> QED
  BY <1>1, AlwaysVerdicts, PTL

\* No row is both awaiting delivery and marked completed, or over and not marked.
THEOREM ClosedWhenOver == Spec => []ClosedIffOver
<1>1. Init => ClosedIffOver
  BY DEF Init, ClosedIffOver, AbsentRow, TerminalStatus
<1>2. ASSUME WellTyped, ClosedIffOver, [Next]_vars PROVE ClosedIffOver'
  <2> SUFFICES ASSUME NEW c \in Command
               PROVE  row'[c].closed <=> row'[c].status \in TerminalStatus \cup {"TIMEOUT"}
    BY DEF ClosedIffOver
  <2>1. row[c] \in Rows /\ (row[c].closed <=> row[c].status \in TerminalStatus \cup {"TIMEOUT"})
    BY <1>2 DEF WellTyped, TypeOK, ClosedIffOver
  <2>2. row'[c] \in Rows
    BY <1>2, TypeStep DEF WellTyped, TypeOK
  <2>3. CASE Answers(c)
    BY <1>2, <2>3, AnswerMoves DEF WellTyped
  <2>4. CASE LifeCycle(row[c], row'[c])
    BY <2>1, <2>2, <2>4 DEF LifeCycle, IsOpen, OpenStatus, TerminalStatus, Rows
  <2> QED
    BY <1>2, <2>3, <2>4, RowsFollowLifeCycle DEF WellTyped
<1> QED
  BY <1>1, <1>2, AlwaysWellTyped, PTL DEF Spec

-----------------------------------------------------------------------------
(* Who can take a fresh claim away *)

\* How a row stands to its claim: it carries none, the one it had and no
\* younger, or the one stamped in this step.
Unclaimed(s) == s.status = "PENDING" /\ s.generation = NoGeneration
SameClaim(r, s) ==
    /\ s.generation = r.generation
    /\ s.status = "DISPATCHED" => r.status = "DISPATCHED" /\ s.age >= r.age
Aging(r, s) == Unclaimed(s) \/ SameClaim(r, s)

LEMMA UpdatesAge ==
    ASSUME NEW r \in Rows
    PROVE  /\ Aging(r, r)
           /\ \A a \in Agent : Aging(r, Inserted(a)) /\ Aging(r, Redrive(r, a))
           /\ Aging(r, RevertDispatch(r))
           /\ CanReassign(r) => \A a \in Agent : Aging(r, Reassign(r, a))
           /\ \A outcome \in TerminalStatus : Aging(r, MarkTerminal(r, outcome))
           /\ Aging(r, Expire(r))
           /\ Aging(r, Aged(r))
<1> USE DEF Aging, Unclaimed, SameClaim
<1>1. Aging(r, r)
  BY WindowAssumption DEF Rows
<1>2. ASSUME NEW a \in Agent PROVE Aging(r, Inserted(a)) /\ Aging(r, Redrive(r, a))
  BY DEF Inserted, Redrive, RevertDispatch, Rows
<1>3. Aging(r, RevertDispatch(r))
  BY DEF RevertDispatch, Rows
<1>4. ASSUME CanReassign(r), NEW a \in Agent PROVE Aging(r, Reassign(r, a))
  BY <1>4 DEF CanReassign, Reassign, Rows
<1>5. ASSUME NEW outcome \in TerminalStatus PROVE Aging(r, MarkTerminal(r, outcome))
  BY <1>5 DEF MarkTerminal, TerminalStatus, Rows
<1>6. Aging(r, Expire(r))
  BY DEF Expire, Rows
<1>7. Aging(r, Aged(r))
  BY WindowAssumption DEF Aged, Rows
<1> QED
  BY <1>1, <1>2, <1>3, <1>4, <1>5, <1>6, <1>7

\* A claim stamps the clock's next reading.
LEMMA ClaimsStamp ==
    ASSUME NEW r \in Rows, NEW g \in Nat
    PROVE  /\ MarkDispatched(r, g).generation = g
           /\ ClaimRedispatch(r, g).generation = g
           /\ MarkTerminal(MarkDispatched(r, g), "FAILED").generation = g
           /\ MarkTerminal(ClaimRedispatch(r, g), "FAILED").generation = g
  BY DEF MarkDispatched, ClaimRedispatch, MarkTerminal, Rows

\* What a step does to the claim of a row.
ClaimStep(c) ==
    \/ Aging(row[c], row'[c])
    \/ row'[c].generation = clock + 1 /\ clock' = clock + 1

LEMMA OneRowAges ==
    ASSUME TypeOK, NEW d, NEW s, row' = [row EXCEPT ![d] = s],
           d \in Command => Aging(row[d], s) \/ (s.generation = clock + 1 /\ clock' = clock + 1)
    PROVE  \A c \in Command : ClaimStep(c)
<1> SUFFICES ASSUME NEW c \in Command PROVE ClaimStep(c)
  OBVIOUS
<1>1. CASE c = d
  BY <1>1 DEF TypeOK, ClaimStep
<1>2. CASE c # d
  <2>1. row'[c] = row[c] /\ row[c] \in Rows
    BY <1>2 DEF TypeOK
  <2> QED
    BY <2>1, UpdatesAge DEF ClaimStep
<1> QED
  BY <1>1, <1>2

LEMMA RowsAge ==
    ASSUME TypeOK, Busy, [Next]_vars
    PROVE  \A c \in Command : ClaimStep(c)
<1> DEFINE Goal == \A c \in Command : ClaimStep(c)
<1> USE DEF wireVars
<1>0. (\A c \in Command : row[c] \in Rows) /\ clock + 1 \in Nat
  BY DEF TypeOK
<1>1. CASE UNCHANGED row
  BY <1>0, <1>1, UpdatesAge DEF ClaimStep
<1>2. ASSUME NEW c \in Command, NEW a \in Agent, IssueNew(c, a) PROVE Goal
  <2>1. row' = [row EXCEPT ![c] = Inserted(a)] /\ Aging(row[c], Inserted(a))
    BY <1>0, <1>2, UpdatesAge DEF IssueNew
  <2> QED
    BY <2>1, OneRowAges
<1>3. ASSUME NEW i \in Issuer, RedriveStep(i) PROVE Goal
  <2>1. row[call[i].cmd] \in Rows /\ call[i].agent \in Agent
    BY <1>3 DEF RedriveStep, Busy, TypeOK
  <2>2. Aging(row[call[i].cmd], Redrive(row[call[i].cmd], call[i].agent))
    BY <2>1, UpdatesAge
  <2>3. \/ row' = row
        \/ row' = [row EXCEPT ![call[i].cmd] = Redrive(row[call[i].cmd], call[i].agent)]
    BY <1>3 DEF RedriveStep
  <2> QED
    BY <1>1, <2>2, <2>3, OneRowAges
<1>4. ASSUME NEW i \in Issuer, ReassignStep(i) PROVE Goal
  <2>1. row[call[i].cmd] \in Rows /\ call[i].agent \in Agent
    BY <1>4 DEF ReassignStep, Busy, TypeOK
  <2>2. CanReassign(row[call[i].cmd]) =>
            Aging(row[call[i].cmd], Reassign(row[call[i].cmd], call[i].agent))
    BY <2>1, UpdatesAge
  <2>3. \/ row' = row
        \/ /\ CanReassign(row[call[i].cmd])
           /\ row' = [row EXCEPT ![call[i].cmd] = Reassign(row[call[i].cmd], call[i].agent)]
    BY <1>4 DEF ReassignStep
  <2> QED
    BY <1>1, <2>2, <2>3, OneRowAges
<1>5. ASSUME NEW w \in Worker, WsClaim(w) PROVE Goal
  <2>1. row[job[w].cmd] \in Rows
    BY <1>5 DEF WsClaim, Busy, TypeOK
  <2>2. \/ row' = row
        \/ /\ clock' = clock + 1
           /\ row' = [row EXCEPT ![job[w].cmd] = MarkDispatched(row[job[w].cmd], clock + 1)]
    BY <1>5 DEF WsClaim
  <2>3. MarkDispatched(row[job[w].cmd], clock + 1).generation = clock + 1
    BY <1>0, <2>1, ClaimsStamp
  <2> QED
    BY <1>1, <2>2, <2>3, OneRowAges
<1>6. ASSUME NEW w \in Worker, WsRevert(w) PROVE Goal
  <2>1. row[job[w].cmd] \in Rows
    BY <1>6 DEF WsRevert, Busy, TypeOK
  <2>2. Aging(row[job[w].cmd], RevertDispatch(row[job[w].cmd]))
    BY <2>1, UpdatesAge
  <2>3. row' = row \/ row' = [row EXCEPT ![job[w].cmd] = RevertDispatch(row[job[w].cmd])]
    BY <1>6 DEF WsRevert
  <2> QED
    BY <1>1, <2>2, <2>3, OneRowAges
<1>7. ASSUME NEW w \in Worker, PollClaim(w) \/ PollSignFails(w) PROVE Goal
  <2> DEFINE r == PollClaimed(w, clock + 1)
  <2>1. row[job[w].cmd] \in Rows
    BY <1>7 DEF PollClaim, PollSignFails, Busy, TypeOK
  <2>2. r.generation = clock + 1 /\ MarkTerminal(r, "FAILED").generation = clock + 1
    BY <1>0, <2>1, ClaimsStamp DEF PollClaimed
  <2>3. /\ clock' = clock + 1
        /\ \/ row' = [row EXCEPT ![job[w].cmd] = r]
           \/ row' = [row EXCEPT ![job[w].cmd] = MarkTerminal(r, "FAILED")]
    BY <1>7 DEF PollClaim, PollSignFails
  <2> QED
    BY <2>2, <2>3, OneRowAges
<1>8. ASSUME NEW c \in Command, NEW a \in Agent, HandleAck(c, a) PROVE Goal
  <2>1. clock' = clock + 1 /\ row' = [row EXCEPT ![c] = MarkDispatched(row[c], clock + 1)]
    BY <1>8 DEF HandleAck
  <2>2. MarkDispatched(row[c], clock + 1).generation = clock + 1
    BY <1>0, ClaimsStamp
  <2> QED
    BY <2>1, <2>2, OneRowAges
<1>9. ASSUME NEW c \in Command, NEW a \in Agent, NEW outcome \in TerminalStatus,
             HandleResult(c, a, outcome)
      PROVE Goal
  <2>1. row' = [row EXCEPT ![c] = MarkTerminal(row[c], outcome)]
    BY <1>9 DEF HandleResult
  <2>2. Aging(row[c], MarkTerminal(row[c], outcome))
    BY <1>0, UpdatesAge
  <2> QED
    BY <2>1, <2>2, OneRowAges
<1>10. ASSUME Sweep \/ Tick PROVE Goal
  <2> SUFFICES ASSUME NEW c \in Command PROVE ClaimStep(c)
    OBVIOUS
  <2>1. row'[c] = row[c] \/ row'[c] = Expire(row[c]) \/ row'[c] = Aged(row[c])
    BY <1>10 DEF Sweep, Tick
  <2> QED
    BY <1>0, <2>1, UpdatesAge DEF ClaimStep
<1> QED
  BY <1>1, <1>2, <1>3, <1>4, <1>5, <1>6, <1>7, <1>8, <1>9, <1>10
     DEF Next, vars, Reissue, WsRead, PollRead, WsSend, WsSendFails, PollLoses, PollRespond,
         AbortJob, AbortCall, Revoke

\* No row carries a claim that was not stamped yet, and a re-drive that observed
\* a claim observed one that is not fresh any more, nor will be.
StaleSeen(i) ==
    call[i].pc = "redrive" =>
        /\ call[i].gen <= clock
        /\ call[i].gen # NoGeneration /\ row[call[i].cmd].generation = call[i].gen =>
              ~(row[call[i].cmd].status = "DISPATCHED" /\ IsFresh(row[call[i].cmd]))

Observed ==
    /\ \A c \in Command : row[c].generation <= clock
    /\ \A i \in Issuer : StaleSeen(i)

\* The clock never goes back, and what a call observes it keeps.
LEMMA CallsStep ==
    ASSUME TypeOK, [Next]_vars
    PROVE  /\ clock' \in Nat /\ clock' >= clock
           /\ \A i \in Issuer :
                 \/ call'[i] = call[i]
                 \/ call'[i].pc # "redrive"
                 \/ /\ UNCHANGED <<row, clock>>
                    /\ call'[i].cmd \in Command
                    /\ Orphaned(call'[i].cmd)
                    /\ call'[i].gen = row[call'[i].cmd].generation
<1> DEFINE Fine(i) == \/ call'[i] = call[i]
                      \/ call'[i].pc # "redrive"
                      \/ /\ UNCHANGED <<row, clock>>
                         /\ call'[i].cmd \in Command
                         /\ Orphaned(call'[i].cmd)
                         /\ call'[i].gen = row[call'[i].cmd].generation
<1> USE DEF wireVars
<1>1. clock' \in Nat /\ clock' >= clock
  BY ClaimsMove DEF TypeOK
<1>2. CASE UNCHANGED call
  BY <1>1, <1>2
<1>3. ASSUME NEW j \in Issuer, call' = [call EXCEPT ![j] = IdleCall], NEW i \in Issuer PROVE Fine(i)
  BY <1>3 DEF IdleCall, TypeOK
<1>4. ASSUME NEW j \in Issuer, NEW c \in Command, NEW a \in Agent, Reissue(j, c, a), NEW i \in Issuer
      PROVE  Fine(i)
  <2>1. CASE i # j
    BY <1>4, <2>1 DEF Reissue, TypeOK
  <2>2. CASE i = j
    <3>1. UNCHANGED <<row, clock>>
      BY <1>4 DEF Reissue
    <3>2. CASE /\ Orphaned(c)
               /\ call' = [call EXCEPT ![j] = [pc |-> "redrive", cmd |-> c, agent |-> a,
                                              gen |-> row[c].generation]]
      <4>1. call'[i].cmd = c /\ call'[i].gen = row[c].generation
        BY <2>2, <3>2 DEF TypeOK
      <4> QED
        BY <3>1, <3>2, <4>1
    <3>3. CASE call' = [call EXCEPT ![j] = [pc |-> "reassign", cmd |-> c, agent |-> a,
                                            gen |-> NoGeneration]]
      BY <2>2, <3>3 DEF TypeOK
    <3> QED
      BY <1>4, <3>2, <3>3 DEF Reissue
  <2> QED
    BY <2>1, <2>2
<1>5. ASSUME NEW i \in Issuer PROVE Fine(i)
  <2> HIDE DEF Fine
  <2>1. CASE UNCHANGED call
    BY <2>1 DEF Fine
  <2> QED
    BY <1>3, <1>4, <1>5, <2>1, ZenonT(60)
       DEF Next, vars, IssueNew, WsRead, PollRead, RedriveStep, ReassignStep, HandleAck,
           HandleResult, Sweep, Revoke, AbortCall, Tick, WsClaim, WsSend, WsSendFails, WsRevert,
           PollClaim, PollSignFails, PollLoses, PollRespond, AbortJob
<1> QED
  BY <1>1, <1>5

LEMMA ObservedStep == WellTyped /\ Observed /\ [Next]_vars => Observed'
<1> SUFFICES ASSUME TypeOK, Busy, Observed, [Next]_vars PROVE Observed'
  BY DEF WellTyped
<1>0. /\ clock \in Nat /\ clock' \in Nat /\ clock' >= clock
      /\ \A c \in Command : /\ row[c].generation \in Nat /\ row'[c].generation \in Nat
                            /\ row[c].age \in Int /\ row'[c].age \in Int
      /\ RedispatchWindow \in Int
  BY TypeStep, CallsStep, WindowAssumption DEF TypeOK, Rows
<1>1. ASSUME NEW c \in Command PROVE row'[c].generation <= clock'
  <2>1. ClaimStep(c) /\ row[c].generation <= clock
    BY RowsAge DEF Observed
  <2> QED
    BY <1>0, <2>1 DEF ClaimStep, Aging, Unclaimed, SameClaim, NoGeneration
<1>2. ASSUME NEW i \in Issuer PROVE StaleSeen(i)'
  <2> SUFFICES ASSUME call'[i].pc = "redrive"
               PROVE  /\ call'[i].gen <= clock'
                      /\ call'[i].gen # NoGeneration /\ row'[call'[i].cmd].generation = call'[i].gen =>
                            ~(row'[call'[i].cmd].status = "DISPATCHED" /\ IsFresh(row'[call'[i].cmd]))
    BY DEF StaleSeen, IsFresh
  <2>1. CASE call'[i] = call[i]
    <3> DEFINE c == call[i].cmd
    <3>1. c \in Command /\ call[i].gen \in Nat /\ call[i].gen <= clock
      BY <2>1 DEF Busy, TypeOK, Calls, Observed, StaleSeen
    <3>2. call[i].gen # NoGeneration /\ row[c].generation = call[i].gen =>
             ~(row[c].status = "DISPATCHED" /\ IsFresh(row[c]))
      BY <2>1 DEF Observed, StaleSeen
    <3>3. ClaimStep(c)
      BY <3>1, RowsAge
    <3> HIDE DEF c
    <3>4. ASSUME call[i].gen # NoGeneration, row'[c].generation = call[i].gen,
                 row'[c].status = "DISPATCHED"
          PROVE  ~IsFresh(row'[c])
      <4>1. SameClaim(row[c], row'[c])
        BY <1>0, <3>1, <3>3, <3>4 DEF ClaimStep, Aging, Unclaimed
      <4>2. row[c].generation = call[i].gen /\ row[c].status = "DISPATCHED" /\ row'[c].age >= row[c].age
        BY <3>4, <4>1 DEF SameClaim
      <4>3. ~(row[c].age < RedispatchWindow)
        BY <3>2, <3>4, <4>2 DEF IsFresh
      <4> QED
        BY <1>0, <3>1, <4>2, <4>3 DEF IsFresh
    <3> QED
      BY <1>0, <2>1, <3>1, <3>4 DEF c
  <2>2. CASE /\ UNCHANGED <<row, clock>>
             /\ call'[i].cmd \in Command
             /\ Orphaned(call'[i].cmd)
             /\ call'[i].gen = row[call'[i].cmd].generation
    <3>1. row[call'[i].cmd].generation <= clock
      BY <2>2 DEF Observed
    <3> QED
      BY <2>2, <3>1 DEF Orphaned
  <2> QED
    BY <2>1, <2>2, CallsStep
<1> QED
  BY <1>1, <1>2 DEF Observed

LEMMA AlwaysObserved == Spec => []Observed
<1>1. Init => Observed
  BY DEF Init, Observed, StaleSeen, AbsentRow, IdleCall, NoGeneration
<1> QED
  BY <1>1, ObservedStep, AlwaysWellTyped, PTL DEF Spec

\* A row that is out carries a stamp.
Stamped == \A c \in Command : row[c].status = "DISPATCHED" => row[c].generation # NoGeneration

LEMMA StampedStep == WellTyped /\ Stamped /\ [Next]_vars => Stamped'
<1> SUFFICES ASSUME TypeOK, Busy, Stamped, [Next]_vars, NEW c \in Command,
                    row'[c].status = "DISPATCHED"
             PROVE  row'[c].generation # NoGeneration
  BY DEF WellTyped, Stamped
<1>1. ClaimStep(c) /\ clock \in Nat
  BY RowsAge DEF TypeOK
<1>2. CASE SameClaim(row[c], row'[c])
  BY <1>2 DEF SameClaim, Stamped
<1>3. CASE row'[c].generation = clock + 1
  BY <1>1, <1>3 DEF NoGeneration
<1> QED
  BY <1>1, <1>2, <1>3 DEF ClaimStep, Aging, Unclaimed

\* Every variable keeps its type, and dispatched_at tells an open row's claim:
\* none while it waits, the stamp of a claim that was made while it is out
\* (mark_dispatched, claim_redispatch, revert_dispatch).
THEOREM AlwaysWellFormed == Spec => []WellFormed
<1>1. Init => Stamped
  BY DEF Init, Stamped, AbsentRow
<1>2. WellTyped /\ Safe /\ Observed /\ Stamped => WellFormed
  <2> SUFFICES ASSUME TypeOK, Safe, Observed, Stamped PROVE StampTells
    BY DEF WellTyped, WellFormed
  <2>1. \A c \in Command : row[c].generation \in Nat /\ row[c].generation <= clock
    BY DEF TypeOK, Rows, Observed
  <2>2. clock \in Nat
    BY DEF TypeOK
  <2> QED
    BY <2>1, <2>2 DEF StampTells, Safe, Stamped, NoGeneration
<1> QED
  BY <1>1, <1>2, StampedStep, AlwaysOnce, AlwaysObserved, AlwaysWellTyped, PTL DEF Spec

\* The re-drive of call i, which saw no claim, takes c back in this step.
TakesBlindly(i, c) ==
    /\ call[i].pc = "redrive" /\ call[i].cmd = c
    /\ call[i].gen = NoGeneration
    /\ RedriveStep(i)

\* issue and revert_dispatch: a push in progress on a fresh claim is made
\* PENDING by others only through a re-drive that had observed no generation,
\* the one case in which revert_dispatch compares nothing.
OnlyBlindClobbers ==
    [][\A w \in Worker :
          Pushing(w) /\ job'[w] = job[w] /\ row'[job[w].cmd].status = "PENDING" =>
              \E i \in Issuer : TakesBlindly(i, job[w].cmd)]_vars

\* A dispatched row is made PENDING by a re-drive or by the revert of a failed push.
LEMMA WhoReverts ==
    ASSUME TypeOK, Busy, Next, NEW c \in Command,
           row[c].status = "DISPATCHED", row'[c].status = "PENDING"
    PROVE  \/ \E i \in Issuer : /\ RedriveStep(i) /\ call[i].cmd = c
                                /\ CanRevertDispatch(row[c], call[i].gen)
           \/ \E v \in Worker : /\ WsRevert(v) /\ job[v].cmd = c
                                /\ CanRevertDispatch(row[c], job[v].gen)
<1> DEFINE Goal == \/ \E i \in Issuer : /\ RedriveStep(i) /\ call[i].cmd = c
                                        /\ CanRevertDispatch(row[c], call[i].gen)
                   \/ \E v \in Worker : /\ WsRevert(v) /\ job[v].cmd = c
                                        /\ CanRevertDispatch(row[c], job[v].gen)
<1> USE DEF wireVars
<1>0. row[c] \in Rows /\ row'[c] # row[c] /\ clock + 1 \in Nat /\ \A d \in Command : row[d] \in Rows
  BY DEF TypeOK
<1>1. ASSUME NEW d, NEW s, row' = [row EXCEPT ![d] = s] PROVE d = c /\ s.status = "PENDING"
  BY <1>0, <1>1 DEF TypeOK
<1>2. ASSUME NEW i \in Issuer, RedriveStep(i) PROVE Goal
  <2>1. /\ CanRevertDispatch(row[call[i].cmd], call[i].gen)
        /\ row' = [row EXCEPT ![call[i].cmd] = Redrive(row[call[i].cmd], call[i].agent)]
    BY <1>0, <1>2 DEF RedriveStep
  <2> QED
    BY <1>1, <1>2, <2>1
<1>3. ASSUME NEW v \in Worker, WsRevert(v) PROVE Goal
  <2>1. /\ CanRevertDispatch(row[job[v].cmd], job[v].gen)
        /\ row' = [row EXCEPT ![job[v].cmd] = RevertDispatch(row[job[v].cmd])]
    BY <1>0, <1>3 DEF WsRevert
  <2> QED
    BY <1>1, <1>3, <2>1
<1>4. ~\E d \in Command, a \in Agent : IssueNew(d, a)
  BY <1>1 DEF IssueNew
<1>5. ~\E i \in Issuer : ReassignStep(i)
  BY <1>0, <1>1 DEF ReassignStep, CanReassign
<1>6. ~\E w \in Worker : WsClaim(w)
  BY <1>0, <1>1 DEF WsClaim, CanMarkDispatched
<1>7. ASSUME NEW w \in Worker, PollClaim(w) \/ PollSignFails(w) PROVE FALSE
  <2>1. row[job[w].cmd] \in Rows
    BY <1>7 DEF PollClaim, PollSignFails, Busy, TypeOK
  <2>2. \/ row' = [row EXCEPT ![job[w].cmd] = PollClaimed(w, clock + 1)]
        \/ row' = [row EXCEPT ![job[w].cmd] = MarkTerminal(PollClaimed(w, clock + 1), "FAILED")]
    BY <1>7 DEF PollClaim, PollSignFails
  <2>3. job[w].cmd = c
    BY <1>1, <2>2
  <2>4. PollClaimed(w, clock + 1) \in Rows /\ PollClaimed(w, clock + 1).status = "DISPATCHED"
    <3>1. /\ MarkDispatched(row[c], clock + 1) \in Rows
          /\ ClaimRedispatch(row[c], clock + 1) \in Rows
      BY <1>0, RowTypes
    <3>2. /\ MarkDispatched(row[c], clock + 1).status = "DISPATCHED"
          /\ ClaimRedispatch(row[c], clock + 1).status = "DISPATCHED"
      BY <1>0 DEF MarkDispatched, ClaimRedispatch, Rows
    <3> QED
      BY <2>3, <3>1, <3>2 DEF PollClaimed
  <2>5. MarkTerminal(PollClaimed(w, clock + 1), "FAILED").status = "FAILED"
    BY <2>4 DEF MarkTerminal, Rows
  <2> QED
    BY <1>1, <2>2, <2>4, <2>5
<1>8. ~\E d \in Command, a \in Agent : HandleAck(d, a)
  BY <1>1 DEF HandleAck, CanMarkDispatched
<1>9. ASSUME NEW d \in Command, NEW a \in Agent, NEW outcome \in TerminalStatus,
             HandleResult(d, a, outcome)
      PROVE FALSE
  <2>1. row' = [row EXCEPT ![d] = MarkTerminal(row[d], outcome)]
    BY <1>9 DEF HandleResult
  <2>2. MarkTerminal(row[d], outcome).status = outcome
    BY <1>0 DEF MarkTerminal, Rows
  <2> QED
    BY <1>1, <2>1, <2>2 DEF TerminalStatus
<1>10. ~Sweep /\ ~Tick
  <2>1. Expire(row[c]).status = "TIMEOUT" /\ Aged(row[c]).status = "DISPATCHED"
    BY <1>0, RowFields
  <2>2. Sweep \/ Tick => row'[c] \in {row[c], Expire(row[c]), Aged(row[c])}
    BY DEF Sweep, Tick
  <2> QED
    BY <1>0, <2>1, <2>2
<1> QED
  BY <1>0, <1>2, <1>3, <1>4, <1>5, <1>6, <1>7, <1>8, <1>9, <1>10
     DEF Next, Reissue, WsRead, PollRead, WsSend, WsSendFails, PollLoses, PollRespond,
         AbortJob, AbortCall, Revoke

\* The comment in issue promises that no concurrent claim is clobbered
\* (NoClaimClobber, which the code breaks): for every number of replicas and
\* callers the one way to break it is the re-drive of a row that timed out with
\* no claim on it. Every other compare-and-swap loses to a fresh claim.
THEOREM FreshClaimsFallOnlyToBlindRedrives == Spec => OnlyBlindClobbers
<1> DEFINE Kept(w) == Pushing(w) /\ job'[w] = job[w] /\ row'[job[w].cmd].status = "PENDING" =>
                          \E i \in Issuer : TakesBlindly(i, job[w].cmd)
<1>1. ASSUME WellTyped, Claims, Observed, Next, NEW w \in Worker,
             Pushing(w), job'[w] = job[w], row'[job[w].cmd].status = "PENDING"
      PROVE  \E i \in Issuer : TakesBlindly(i, job[w].cmd)
  <2> DEFINE c == job[w].cmd
  <2>1. /\ TypeOK /\ Busy /\ c \in Command /\ job[w].pc = "claimed"
        /\ row[c].status = "DISPATCHED" /\ row[c].generation = job[w].gen /\ IsFresh(row[c])
    BY <1>1 DEF WellTyped, Busy, Pushing
  <2>2. ASSUME NEW v \in Worker, WsRevert(v), job[v].cmd = c, CanRevertDispatch(row[c], job[v].gen)
        PROVE  FALSE
    <3>1. v # w /\ Claiming(v) /\ Claiming(w)
      BY <2>1, <2>2 DEF WsRevert, Claiming
    <3>2. job[v].gen # NoGeneration
      BY <3>1, <1>1 DEF Claims, NoGeneration
    <3>3. job[v].gen = job[w].gen
      BY <2>1, <2>2, <3>2 DEF CanRevertDispatch
    <3> QED
      BY <1>1, <3>1, <3>3 DEF Claims
  <2>3. ASSUME NEW i \in Issuer, RedriveStep(i), call[i].cmd = c, CanRevertDispatch(row[c], call[i].gen)
        PROVE  TakesBlindly(i, c)
    <3>1. StaleSeen(i) /\ call[i].pc = "redrive"
      BY <1>1, <2>3 DEF Observed, RedriveStep
    <3>2. call[i].gen = NoGeneration
      BY <2>1, <2>3, <3>1 DEF StaleSeen, CanRevertDispatch
    <3> QED
      BY <2>3, <3>1, <3>2 DEF TakesBlindly
  <2> HIDE DEF c
  <2>4. row'[c].status = "PENDING"
    BY <1>1 DEF c
  <2> QED
    BY <1>1, <2>1, <2>2, <2>3, <2>4, WhoReverts DEF c
<1>2. WellTyped /\ Claims /\ Observed /\ [Next]_vars => [\A w \in Worker : Kept(w)]_vars
  BY <1>1
<1> QED
  BY <1>2, AlwaysWellTyped, AlwaysClaims, AlwaysObserved, PTL DEF Spec, OnlyBlindClobbers

-----------------------------------------------------------------------------
(* Only a fire changes hands *)

\* What a coroutine or a call works on, unless it is a fire, it works on for the
\* row's owner; and nobody else holds a copy.
Pinned ==
    /\ \A w \in Worker : job[w].pc # "idle" /\ job[w].cmd \notin Fire =>
          row[job[w].cmd].owner = job[w].agent
    /\ \A i \in Issuer : call[i].pc # "idle" /\ call[i].cmd \notin Fire =>
          row[call[i].cmd].owner = call[i].agent
    /\ \A c \in Command : reached[c] # {} => row[c].status # "ABSENT"
    /\ \A c \in Command \ Fire : reached[c] \subseteq {row[c].owner}

\* What the repository's UPDATEs leave of the owner.
LEMMA OwnerFields ==
    ASSUME NEW r \in Rows
    PROVE  /\ \A g \in Nat : MarkDispatched(r, g).owner = r.owner
           /\ \A g \in Nat : ClaimRedispatch(r, g).owner = r.owner
           /\ RevertDispatch(r).owner = r.owner
           /\ \A a \in Agent : Redrive(r, a).owner = a /\ Reassign(r, a).owner = a
           /\ \A outcome : MarkTerminal(r, outcome).owner = r.owner
           /\ Expire(r).owner = r.owner
           /\ Aged(r).owner = r.owner
  BY DEF Rows, MarkDispatched, ClaimRedispatch, RevertDispatch, Redrive, Reassign,
         MarkTerminal, Expire, Aged

\* A step on the row of d that leaves its owner leaves every owner.
LEMMA OneOwner ==
    ASSUME TypeOK, NEW d, NEW s, s.owner = row[d].owner, row' = [row EXCEPT ![d] = s]
    PROVE  \A c \in Command : row'[c].owner = row[c].owner
  BY DEF TypeOK

LEMMA OwnersStay ==
    ASSUME TypeOK, Busy, Pinned, [Next]_vars, NEW c \in Command \ Fire, row[c].status # "ABSENT"
    PROVE  row'[c].owner = row[c].owner
<1> DEFINE Goal == row'[c].owner = row[c].owner
<1> USE DEF wireVars
<1>0. /\ \A d \in Command : row[d] \in Rows
      /\ clock + 1 \in Nat
      /\ \A w \in Worker : job[w].pc # "idle" => job[w].cmd \in Command
      /\ \A i \in Issuer : call[i].pc # "idle" =>
            call[i].cmd \in Command /\ call[i].agent \in Agent
  BY DEF TypeOK, Busy
<1>1. CASE UNCHANGED row
  BY <1>1
<1>2. ASSUME NEW d \in Command, NEW a \in Agent, IssueNew(d, a) PROVE Goal
  <2>1. d # c
    BY <1>2 DEF IssueNew
  <2> QED
    BY <1>2, <2>1 DEF IssueNew, TypeOK
<1>3. ASSUME NEW i \in Issuer, RedriveStep(i) PROVE Goal
  <2>1. CASE row' = [row EXCEPT ![call[i].cmd] = Redrive(row[call[i].cmd], call[i].agent)]
    <3>1. CASE call[i].cmd = c
      <4>1. row[c].owner = call[i].agent
        BY <1>3, <3>1 DEF RedriveStep, Pinned
      <4>2. call[i].agent \in Agent
        BY <1>0, <1>3 DEF RedriveStep
      <4>3. Redrive(row[c], call[i].agent).owner = call[i].agent
        BY <1>0, <4>2, OwnerFields
      <4> QED
        BY <2>1, <3>1, <4>1, <4>3 DEF TypeOK
    <3>2. CASE call[i].cmd # c
      BY <2>1, <3>2 DEF TypeOK
    <3> QED
      BY <3>1, <3>2
  <2> QED
    BY <1>1, <1>3, <2>1 DEF RedriveStep
<1>4. ASSUME NEW i \in Issuer, ReassignStep(i) PROVE Goal
  <2>1. CASE row' = [row EXCEPT ![call[i].cmd] = Reassign(row[call[i].cmd], call[i].agent)]
    <3>1. CASE call[i].cmd = c
      <4>1. row[c].owner = call[i].agent
        BY <1>4, <3>1 DEF ReassignStep, Pinned
      <4>2. call[i].agent \in Agent
        BY <1>0, <1>4 DEF ReassignStep
      <4>3. Reassign(row[c], call[i].agent).owner = call[i].agent
        BY <1>0, <4>2, OwnerFields
      <4> QED
        BY <2>1, <3>1, <4>1, <4>3 DEF TypeOK
    <3>2. CASE call[i].cmd # c
      BY <2>1, <3>2 DEF TypeOK
    <3> QED
      BY <3>1, <3>2
  <2> QED
    BY <1>1, <1>4, <2>1 DEF ReassignStep
<1>5. ASSUME NEW w \in Worker, WsClaim(w) PROVE Goal
  <2>1. job[w].cmd \in Command
    BY <1>0, <1>5 DEF WsClaim
  <2>2. MarkDispatched(row[job[w].cmd], clock + 1).owner = row[job[w].cmd].owner
    BY <1>0, <2>1, OwnerFields
  <2> QED
    BY <1>1, <1>5, <2>2, OneOwner DEF WsClaim
<1>6. ASSUME NEW w \in Worker, WsRevert(w) PROVE Goal
  <2>1. job[w].cmd \in Command
    BY <1>0, <1>6 DEF WsRevert
  <2>2. RevertDispatch(row[job[w].cmd]).owner = row[job[w].cmd].owner
    BY <1>0, <2>1, OwnerFields
  <2> QED
    BY <1>1, <1>6, <2>2, OneOwner DEF WsRevert
<1>7. ASSUME NEW w \in Worker, PollClaim(w) \/ PollSignFails(w) PROVE Goal
  <2> DEFINE d == job[w].cmd
             s == PollClaimed(w, clock + 1)
  <2>1. row[d] \in Rows
    BY <1>0, <1>7 DEF PollClaim, PollSignFails
  <2>2. s \in Rows
    BY <1>0, <2>1, RowTypes DEF PollClaimed
  <2>3. s.owner = row[d].owner
    BY <1>0, <2>1, OwnerFields DEF PollClaimed
  <2>4. MarkTerminal(s, "FAILED").owner = row[d].owner
    BY <2>2, <2>3, OwnerFields
  <2>5. row' = [row EXCEPT ![d] = s] \/ row' = [row EXCEPT ![d] = MarkTerminal(s, "FAILED")]
    BY <1>7 DEF PollClaim, PollSignFails
  <2> QED
    BY <2>3, <2>4, <2>5, OneOwner
<1>8. ASSUME NEW d \in Command, NEW a \in Agent, HandleAck(d, a) PROVE Goal
  <2>1. MarkDispatched(row[d], clock + 1).owner = row[d].owner
    BY <1>0, OwnerFields
  <2> QED
    BY <1>8, <2>1, OneOwner DEF HandleAck
<1>9. ASSUME NEW d \in Command, NEW a \in Agent, NEW outcome \in TerminalStatus,
             HandleResult(d, a, outcome)
      PROVE Goal
  <2>1. MarkTerminal(row[d], outcome).owner = row[d].owner
    BY <1>0, OwnerFields
  <2> QED
    BY <1>9, <2>1, OneOwner DEF HandleResult
<1>10. ASSUME Sweep \/ Tick PROVE Goal
  <2>1. row'[c] \in {row[c], Expire(row[c]), Aged(row[c])}
    BY <1>10 DEF Sweep, Tick
  <2> QED
    BY <1>0, <2>1, OwnerFields
<1> QED
  BY <1>1, <1>2, <1>3, <1>4, <1>5, <1>6, <1>7, <1>8, <1>9, <1>10
     DEF Next, vars, Reissue, WsRead, PollRead, WsSend, WsSendFails, PollLoses, PollRespond,
         AbortJob, AbortCall, Revoke

\* What a step may do to a call: nothing, drop it, or begin a re-issue.
LEMMA CallBegins ==
    ASSUME TypeOK, [Next]_vars, NEW i \in Issuer
    PROVE  \/ call'[i] = call[i]
           \/ call'[i] = IdleCall
           \/ /\ UNCHANGED row
              /\ \E c \in Command, a \in Agent :
                    /\ SameCommand(c, a)
                    /\ call'[i].cmd = c /\ call'[i].agent = a
<1> DEFINE Goal == \/ call'[i] = call[i]
                   \/ call'[i] = IdleCall
                   \/ /\ UNCHANGED row
                      /\ \E c \in Command, a \in Agent :
                            /\ SameCommand(c, a)
                            /\ call'[i].cmd = c /\ call'[i].agent = a
<1> USE DEF wireVars
<1>1. ASSUME UNCHANGED call PROVE Goal
  BY <1>1
<1>2. ASSUME NEW j \in Issuer, call' = [call EXCEPT ![j] = IdleCall] PROVE Goal
  BY <1>2 DEF TypeOK
<1>3. ASSUME NEW j \in Issuer, NEW c \in Command, NEW a \in Agent, Reissue(j, c, a) PROVE Goal
  <2>1. CASE i # j
    BY <1>3, <2>1 DEF Reissue, TypeOK
  <2>2. CASE i = j
    <3>1. call'[i].cmd = c /\ call'[i].agent = a
      BY <1>3, <2>2 DEF Reissue, TypeOK
    <3> QED
      BY <1>3, <3>1 DEF Reissue
  <2> QED
    BY <2>1, <2>2
<1>4. Goal
  <2> HIDE DEF Goal
  <2> QED
    BY <1>1, <1>2, <1>3, ZenonT(60)
       DEF Next, vars, IssueNew, WsRead, PollRead, RedriveStep, ReassignStep, HandleAck,
           HandleResult, Sweep, Revoke, AbortCall, Tick, WsClaim, WsSend, WsSendFails, WsRevert,
           PollClaim, PollSignFails, PollLoses, PollRespond, AbortJob
<1> QED
  BY <1>4

\* A copy leaves only for the agent that a coroutine works for.
LEMMA CopiesLeave ==
    ASSUME TypeOK, Busy, [Next]_vars, NEW c \in Command
    PROVE  \/ reached'[c] = reached[c]
           \/ \E w \in Worker : /\ job[w].pc # "idle" /\ job[w].cmd = c
                                /\ reached'[c] = reached[c] \cup {job[w].agent}
<1> DEFINE Goal == \/ reached'[c] = reached[c]
                   \/ \E w \in Worker : /\ job[w].pc # "idle" /\ job[w].cmd = c
                                        /\ reached'[c] = reached[c] \cup {job[w].agent}
<1> USE DEF wireVars
<1>1. ASSUME UNCHANGED reached PROVE Goal
  BY <1>1
<1>2. ASSUME NEW w \in Worker, job[w].pc # "idle", Transmitted(job[w].cmd, job[w].agent) PROVE Goal
  <2>1. CASE job[w].cmd = c
    BY <1>2, <2>1 DEF Transmitted, TypeOK
  <2>2. CASE job[w].cmd # c
    BY <1>2, <2>2 DEF Transmitted, TypeOK
  <2> QED
    BY <2>1, <2>2
<1>3. ASSUME NEW w \in Worker, WsSend(w) \/ WsSendFails(w) \/ PollRespond(w) PROVE Goal
  BY <1>1, <1>2, <1>3 DEF WsSend, WsSendFails, PollRespond
<1>4. Goal
  <2> HIDE DEF Goal
  <2> QED
    BY <1>1, <1>3, ZenonT(60)
       DEF Next, vars, IssueNew, Reissue, RedriveStep, ReassignStep, WsRead, PollRead, WsClaim,
           WsRevert, PollClaim, PollSignFails, PollLoses, HandleAck, HandleResult, Sweep, Revoke,
           AbortJob, AbortCall, Tick
<1> QED
  BY <1>4

LEMMA PinnedStep == WellTyped /\ Pinned /\ [Next]_vars => Pinned'
<1> SUFFICES ASSUME TypeOK, Busy, Pinned, [Next]_vars PROVE Pinned'
  BY DEF WellTyped
<1>1. ASSUME NEW w \in Worker, job'[w].pc # "idle", job'[w].cmd \notin Fire
      PROVE  row'[job'[w].cmd].owner = job'[w].agent
  <2>1. /\ job'[w].cmd \in Command /\ row[job'[w].cmd].status # "ABSENT"
        /\ row[job'[w].cmd].owner = job'[w].agent
    <3>1. CASE job'[w] = job[w]
      BY <1>1, <3>1 DEF Busy, Pinned
    <3>2. CASE job[w].pc # "idle" /\ job'[w].cmd = job[w].cmd /\ job'[w].agent = job[w].agent
      BY <1>1, <3>2 DEF Busy, Pinned
    <3> QED
      BY <1>1, <3>1, <3>2, JobsStep DEF JobStep, IdleJob
  <2> QED
    BY <1>1, <2>1, OwnersStay
<1>2. ASSUME NEW i \in Issuer, call'[i].pc # "idle", call'[i].cmd \notin Fire
      PROVE  row'[call'[i].cmd].owner = call'[i].agent
  <2>1. CASE call'[i] = call[i]
    <3>1. /\ call[i].cmd \in Command /\ row[call[i].cmd].status # "ABSENT"
          /\ row[call[i].cmd].owner = call[i].agent
      BY <1>2, <2>1 DEF Busy, Pinned
    <3> QED
      BY <1>2, <2>1, <3>1, OwnersStay
  <2>2. CASE /\ UNCHANGED row
             /\ \E c \in Command, a \in Agent :
                   /\ SameCommand(c, a)
                   /\ call'[i].cmd = c /\ call'[i].agent = a
    BY <1>2, <2>2 DEF SameCommand
  <2> QED
    BY <1>2, <2>1, <2>2, CallBegins DEF IdleCall
<1>3. ASSUME NEW c \in Command
      PROVE  /\ reached'[c] # {} => row'[c].status # "ABSENT"
             /\ c \notin Fire => reached'[c] \subseteq {row'[c].owner}
  <2>1. CASE reached'[c] = reached[c]
    <3>1. reached[c] # {} => row'[c].status # "ABSENT"
      BY NeverAbsent DEF Pinned
    <3>2. c \notin Fire /\ reached[c] # {} => row'[c].owner = row[c].owner
      BY OwnersStay DEF Pinned
    <3>3. c \notin Fire => reached[c] \subseteq {row[c].owner}
      BY DEF Pinned
    <3> QED
      BY <2>1, <3>1, <3>2, <3>3
  <2>2. CASE \E w \in Worker : /\ job[w].pc # "idle" /\ job[w].cmd = c
                               /\ reached'[c] = reached[c] \cup {job[w].agent}
    <3>1. PICK w \in Worker : /\ job[w].pc # "idle" /\ job[w].cmd = c
                              /\ reached'[c] = reached[c] \cup {job[w].agent}
      BY <2>2
    <3>2. row[c].status # "ABSENT" /\ row'[c].status # "ABSENT"
      BY <3>1, NeverAbsent DEF Busy
    <3>3. c \notin Fire => reached[c] \subseteq {row[c].owner} /\ row[c].owner = job[w].agent
      BY <3>1 DEF Pinned
    <3>4. c \notin Fire => row'[c].owner = row[c].owner
      BY <3>2, OwnersStay
    <3> QED
      BY <3>1, <3>2, <3>3, <3>4
  <2> QED
    BY <2>1, <2>2, CopiesLeave
<1> QED
  BY <1>1, <1>2, <1>3 DEF Pinned

\* issue and deliver_local: a command that is not a fire has one agent for life.
\* The claim in flight is its owner's, and no other agent was ever sent a copy.
PinnedToOwner ==
    \A c \in Command \ Fire :
        /\ \A w \in Worker : Pushing(w) /\ job[w].cmd = c => row[c].owner = job[w].agent
        /\ reached[c] \subseteq {row[c].owner}

\* The claimant is not always the owner (ClaimantIsOwner, which the code breaks),
\* but only of a schedule.fire: what an agent may answer for any other command is
\* what it was sent, over every re-issue, re-drive and redispatch.
THEOREM OnlyFiresChangeHands == Spec => []PinnedToOwner
<1>1. Init => Pinned
  BY DEF Init, Pinned, IdleJob, IdleCall
<1>2. Pinned => PinnedToOwner
  BY DEF Pinned, PinnedToOwner, Pushing
<1> QED
  BY <1>1, <1>2, PinnedStep, AlwaysWellTyped, PTL DEF Spec

-----------------------------------------------------------------------------
(* The delivery machinery implements the contract *)

PhaseMap == [c \in Command |-> Phase(row[c])]

LEMMA Phases ==
    ASSUME NEW r \in Rows
    PROVE  /\ r.status = "ABSENT" <=> Phase(r) = "none"
           /\ IsOpen(r) <=> Phase(r) = "open"
           /\ r.status = "TIMEOUT" <=> Phase(r) = "expired"
           /\ r.status \in TerminalStatus <=> Phase(r) = "answered"
<1>1. r.status \in {"ABSENT", "PENDING", "DISPATCHED", "TIMEOUT", "COMPLETED", "FAILED"}
  BY Statuses DEF Rows
<1> QED
  BY <1>1 DEF Phase, IsOpen, OpenStatus, TerminalStatus

\* A step that changes the row of c alone changes its phase alone.
LEMMA PhaseUpdate ==
    ASSUME TypeOK, NEW c \in Command, NEW s, row' = [row EXCEPT ![c] = s]
    PROVE  PhaseMap' = [PhaseMap EXCEPT ![c] = Phase(s)]
<1>1. \A d \in Command : Phase(row'[d]) = IF d = c THEN Phase(s) ELSE Phase(row[d])
  BY DEF TypeOK
<1> QED
  BY <1>1 DEF PhaseMap

LEMMA SamePhases ==
    ASSUME \A c \in Command : Phase(row'[c]) = Phase(row[c])
    PROVE  PhaseMap' = PhaseMap
  BY DEF PhaseMap

\* The invariant the refinement rests on.
Sound == WellTyped /\ Safe /\ AllOnce /\ Verdicts

\* A revert of a redeliverable command rearms it or is invisible.
LEMMA RevertImplements ==
    ASSUME Sound, NEW c \in Redeliverable, NEW s \in Rows, NEW g,
           CanRevertDispatch(row[c], g), s.status = "PENDING",
           row' = [row EXCEPT ![c] = s], UNCHANGED <<sends, verdicts>>
    PROVE  [Contract!Next]_(Contract!contractVars)
<1>1. c \in Command /\ row[c] \in Rows /\ TypeOK
  BY CommandAssumption DEF Sound, WellTyped, TypeOK
<1>2. PhaseMap' = [PhaseMap EXCEPT ![c] = "open"]
  <2>1. Phase(s) = "open"
    BY Phases DEF IsOpen, OpenStatus
  <2> QED
    BY <1>1, <2>1, PhaseUpdate
<1>3. CASE row[c].status = "TIMEOUT"
  <2>1. PhaseMap[c] = "expired"
    BY <1>1, <1>3, Phases DEF PhaseMap
  <2>2. Contract!Rearm(c)
    BY <1>2, <2>1 DEF Contract!Rearm, PhaseMap
  <2> QED
    BY <1>1, <2>2 DEF Contract!Next
<1>4. CASE row[c].status = "DISPATCHED"
  <2>1. PhaseMap[c] = "open"
    BY <1>1, <1>4, Phases DEF PhaseMap, IsOpen, OpenStatus
  <2>2. PhaseMap' = PhaseMap
    BY <1>2, <2>1 DEF PhaseMap
  <2> QED
    BY <2>2 DEF Contract!contractVars, PhaseMap
<1> QED
  BY <1>3, <1>4 DEF CanRevertDispatch

\* A copy leaves only under a claim.
LEMMA SendImplements ==
    ASSUME Sound, NEW w \in Worker, job[w].pc = "claimed",
           row' = row, verdicts' = verdicts, sends' = [sends EXCEPT ![job[w].cmd] = @ + 1]
    PROVE  [Contract!Next]_(Contract!contractVars)
<1> DEFINE c == job[w].cmd
<1>1. c \in Command /\ row[c].status # "ABSENT" /\ row[c] \in Rows
  BY DEF Sound, WellTyped, Busy, TypeOK
<1>2. PhaseMap[c] # "none"
  BY <1>1, Phases DEF PhaseMap
<1>3. c \in Redeliverable \/ sends[c] = 0
  BY <1>1 DEF Sound, AllOnce, Once, Holds
<1>4. PhaseMap' = PhaseMap
  BY SamePhases
<1>5. Contract!Transmit(c)
  BY <1>2, <1>3, <1>4 DEF Contract!Transmit, PhaseMap
<1> QED
  BY <1>1, <1>5 DEF Contract!Next

LEMMA StepImplements == Sound /\ [Next]_vars => [Contract!Next]_(Contract!contractVars)
<1> DEFINE Goal == [Contract!Next]_(Contract!contractVars)
<1> SUFFICES ASSUME Sound, [Next]_vars PROVE Goal
  OBVIOUS
<1> USE DEF wireVars
<1>0. TypeOK /\ Busy /\ Safe /\ \A c \in Command : row[c] \in Rows
  BY DEF Sound, WellTyped, TypeOK
<1>1. ASSUME PhaseMap' = PhaseMap, UNCHANGED <<sends, verdicts>> PROVE Goal
  BY <1>1 DEF Contract!contractVars, PhaseMap
<1>2. CASE UNCHANGED <<row, sends, verdicts>>
  BY <1>1, <1>2, SamePhases
<1>3. ASSUME NEW c \in Command, NEW a \in Agent, IssueNew(c, a) PROVE Goal
  <2>1. PhaseMap' = [PhaseMap EXCEPT ![c] = Phase(Inserted(a))]
    BY <1>0, <1>3, PhaseUpdate DEF IssueNew
  <2>2. Phase(Inserted(a)) = "open"
    BY InsertedType, Phases DEF Inserted, IsOpen, OpenStatus
  <2>3. PhaseMap[c] = "none"
    BY <1>0, <1>3, Phases DEF IssueNew, PhaseMap
  <2>4. Contract!Accept(c)
    BY <1>3, <2>1, <2>2, <2>3 DEF IssueNew, Contract!Accept, PhaseMap
  <2> QED
    BY <2>4 DEF Contract!Next
<1>4. ASSUME NEW i \in Issuer, RedriveStep(i) PROVE Goal
  <2> DEFINE c == call[i].cmd
             s == Redrive(row[c], call[i].agent)
  <2>1. c \in Redeliverable /\ call[i].agent \in Agent /\ row[c] \in Rows
    BY <1>0, <1>4 DEF RedriveStep, Safe, Busy
  <2>2. s \in Rows /\ s.status = "PENDING"
    <3>1. s \in Rows
      BY <2>1, RowTypes
    <3>2. s.status = "PENDING"
      BY <2>1 DEF Redrive, RevertDispatch, Rows
    <3> QED
      BY <3>1, <3>2
  <2>3. CASE CanRevertDispatch(row[c], call[i].gen)
    BY <1>4, <2>1, <2>2, <2>3, RevertImplements DEF RedriveStep
  <2>4. CASE ~CanRevertDispatch(row[c], call[i].gen)
    BY <1>2, <1>4, <2>4 DEF RedriveStep
  <2> QED
    BY <2>3, <2>4
<1>5. ASSUME NEW i \in Issuer, ReassignStep(i) PROVE Goal
  <2>1. \A c \in Command : row'[c] \in Rows /\ row'[c].status = row[c].status
    <3>1. \A c \in Command : row'[c].status = row[c].status
      BY <1>0, <1>5 DEF ReassignStep, Reassign, Rows, TypeOK
    <3> QED
      BY <1>0, <3>1, TypeStep DEF TypeOK
  <2>2. PhaseMap' = PhaseMap
    BY <2>1, SamePhases DEF Phase
  <2> QED
    BY <1>1, <1>5, <2>2 DEF ReassignStep
<1>6. ASSUME NEW c \in Command, UNCHANGED <<sends, verdicts>>, row[c].status = "PENDING",
             NEW g \in Nat, row' = [row EXCEPT ![c] = MarkDispatched(@, g)]
      PROVE  Goal
  <2>1. PhaseMap' = [PhaseMap EXCEPT ![c] = Phase(MarkDispatched(row[c], g))]
    BY <1>0, <1>6, PhaseUpdate
  <2>2. Phase(MarkDispatched(row[c], g)) = "open"
    <3>1. MarkDispatched(row[c], g).status = "DISPATCHED" /\ MarkDispatched(row[c], g) \in Rows
      BY <1>0, RowTypes DEF MarkDispatched, Rows
    <3> QED
      BY <3>1, Phases DEF IsOpen, OpenStatus
  <2>3. PhaseMap[c] = "open"
    BY <1>0, <1>6, Phases DEF PhaseMap, IsOpen, OpenStatus
  <2> QED
    BY <1>1, <1>6, <2>1, <2>2, <2>3 DEF PhaseMap
<1>7. ASSUME NEW w \in Worker, WsClaim(w) PROVE Goal
  <2>1. job[w].cmd \in Command /\ clock + 1 \in Nat
    BY <1>0, <1>7 DEF WsClaim, Busy, TypeOK
  <2>2. CASE CanMarkDispatched(row[job[w].cmd])
    BY <1>6, <1>7, <2>1, <2>2 DEF WsClaim, CanMarkDispatched
  <2>3. CASE ~CanMarkDispatched(row[job[w].cmd])
    BY <1>2, <1>7, <2>3 DEF WsClaim
  <2> QED
    BY <2>2, <2>3
<1>8. ASSUME NEW w \in Worker, WsSend(w) \/ PollRespond(w) \/ WsSendFails(w) PROVE Goal
  <2>1. CASE sends' = sends
    BY <1>2, <1>8, <2>1 DEF WsSend, PollRespond, WsSendFails
  <2>2. CASE sends' = [sends EXCEPT ![job[w].cmd] = @ + 1]
    BY <1>8, <2>2, SendImplements DEF WsSend, PollRespond, WsSendFails
  <2> QED
    BY <1>8, <2>1, <2>2 DEF WsSend, PollRespond, WsSendFails, Transmitted
<1>9. ASSUME NEW w \in Worker, WsRevert(w) PROVE Goal
  <2> DEFINE c == job[w].cmd
  <2>1. c \in Redeliverable /\ row[c] \in Rows
    BY <1>0, <1>9 DEF WsRevert, Safe, Busy
  <2>2. RevertDispatch(row[c]) \in Rows /\ RevertDispatch(row[c]).status = "PENDING"
    BY <2>1, RowTypes, RowFields
  <2>3. CASE CanRevertDispatch(row[c], job[w].gen)
    BY <1>9, <2>1, <2>2, <2>3, RevertImplements DEF WsRevert
  <2>4. CASE ~CanRevertDispatch(row[c], job[w].gen)
    BY <1>2, <1>9, <2>4 DEF WsRevert
  <2> QED
    BY <2>3, <2>4
<1>10. ASSUME NEW w \in Worker, PollClaim(w) \/ PollSignFails(w) PROVE Goal
  <2> DEFINE c == job[w].cmd
             r == PollClaimed(w, clock + 1)
  <2>1. c \in Command /\ row[c] \in Rows /\ clock + 1 \in Nat /\ PollWins(w)
    BY <1>0, <1>10 DEF PollClaim, PollSignFails, Busy, TypeOK
  <2>2. r \in Rows /\ r.status = "DISPATCHED"
    <3>1. r \in Rows
      BY <2>1, RowTypes DEF PollClaimed
    <3>2. r.status = "DISPATCHED"
      BY <2>1 DEF PollClaimed, PollWins, CanMarkDispatched, CanClaimRedispatch, MarkDispatched,
                  ClaimRedispatch, Rows
    <3> QED
      BY <3>1, <3>2
  <2>3. PhaseMap[c] = "open"
    <3>1. IsOpen(row[c])
      BY <2>1 DEF PollWins, CanMarkDispatched, CanClaimRedispatch, IsOpen, OpenStatus
    <3> QED
      BY <2>1, <3>1, Phases DEF PhaseMap
  <2>4. CASE PollClaim(w)
    <3>1. PhaseMap' = [PhaseMap EXCEPT ![c] = Phase(r)]
      BY <1>0, <2>1, <2>4, PhaseUpdate DEF PollClaim
    <3>2. Phase(r) = "open"
      BY <2>2, Phases DEF IsOpen, OpenStatus
    <3>3. PhaseMap' = PhaseMap
      BY <2>3, <3>1, <3>2 DEF PhaseMap
    <3> QED
      BY <1>1, <2>4, <3>3 DEF PollClaim
  <2>5. CASE PollSignFails(w)
    <3>1. PhaseMap' = [PhaseMap EXCEPT ![c] = Phase(MarkTerminal(r, "FAILED"))]
      BY <1>0, <2>1, <2>5, PhaseUpdate DEF PollSignFails
    <3>2. MarkTerminal(r, "FAILED") \in Rows /\ MarkTerminal(r, "FAILED").status = "FAILED"
      BY <2>2, RowTypes DEF TerminalStatus, MarkTerminal, Rows
    <3>3. Phase(MarkTerminal(r, "FAILED")) = "answered"
      BY <3>2, Phases DEF TerminalStatus
    <3>4. Contract!Abandon(c)
      BY <2>3, <2>5, <3>1, <3>3 DEF PollSignFails, Contract!Abandon, PhaseMap
    <3> QED
      BY <2>1, <3>4 DEF Contract!Next
  <2> QED
    BY <1>10, <2>4, <2>5
<1>11. ASSUME NEW c \in Command, NEW a \in Agent, HandleAck(c, a) PROVE Goal
  <2>1. clock + 1 \in Nat
    BY <1>0 DEF TypeOK
  <2> QED
    BY <1>6, <1>11, <2>1 DEF HandleAck, CanMarkDispatched
<1>12. ASSUME NEW c \in Command, Answers(c) PROVE Goal
  <2>1. /\ IsOpen(row[c]) /\ reached[c] # {}
        /\ row'[c].status \in TerminalStatus
        /\ verdicts' = [verdicts EXCEPT ![c] = @ + 1] /\ sends' = sends
    BY <1>0, <1>12, AnswerMoves
  <2>2. row' = [row EXCEPT ![c] = row'[c]]
    BY <1>0, <1>12, AnswerMoves
  <2>3. PhaseMap[c] = "open"
    BY <1>0, <2>1, Phases DEF PhaseMap
  <2>4. PhaseMap' = [PhaseMap EXCEPT ![c] = Phase(row'[c])]
    BY <1>0, <2>2, PhaseUpdate
  <2>5. row'[c] \in Rows
    BY <1>0, TypeStep DEF TypeOK
  <2>6. Phase(row'[c]) = "answered"
    BY <2>1, <2>5, Phases
  <2>7. sends[c] > 0
    BY <2>1 DEF Sound, Verdicts
  <2>8. Contract!Answer(c)
    BY <2>1, <2>3, <2>4, <2>6, <2>7 DEF Contract!Answer, PhaseMap
  <2> QED
    BY <2>8 DEF Contract!Next
<1>13. ASSUME Sweep PROVE Goal
  <2> DEFINE C == {c \in Command : CanExpire(row[c])}
  <2>1. C # {} /\ C \subseteq Command
    BY <1>13 DEF Sweep
  <2>2. \A c \in C : PhaseMap[c] = "open"
    BY <1>0, Phases DEF CanExpire, PhaseMap
  <2>3. \A c \in C : Phase(Expire(row[c])) = "expired"
    <3>1. \A c \in Command : Expire(row[c]) \in Rows
      BY <1>0, RowTypes
    <3>2. \A c \in Command : Expire(row[c]).status = "TIMEOUT"
      BY <1>0 DEF Expire, Rows
    <3> QED
      BY <3>1, <3>2, Phases
  <2>4. PhaseMap' = [c \in Command |-> IF c \in C THEN "expired" ELSE PhaseMap[c]]
    <3>1. \A c \in Command : row'[c] = IF c \in C THEN Expire(row[c]) ELSE row[c]
      BY <1>13 DEF Sweep
    <3>2. \A c \in Command : Phase(row'[c]) = IF c \in C THEN "expired" ELSE Phase(row[c])
      BY <2>3, <3>1
    <3> HIDE DEF C
    <3> QED
      BY <3>2 DEF PhaseMap
  <2>5. Contract!Expire
    <3> HIDE DEF C
    <3> QED
      BY <1>13, <2>1, <2>2, <2>4 DEF Contract!Expire, Sweep, PhaseMap
  <2> QED
    BY <2>5 DEF Contract!Next
<1>14. ASSUME Tick PROVE Goal
  <2>1. \A c \in Command : row'[c].status = row[c].status
    BY <1>0, <1>14 DEF Tick, Aged, Rows
  <2>2. PhaseMap' = PhaseMap
    BY <2>1, SamePhases DEF Phase
  <2> QED
    BY <1>1, <1>14, <2>2 DEF Tick
<1> QED
  BY <1>2, <1>3, <1>4, <1>5, <1>7, <1>8, <1>9, <1>10, <1>11, <1>12, <1>13, <1>14
     DEF Next, vars, Reissue, WsRead, PollRead, PollLoses, AbortJob, AbortCall, Revoke, Answers

\* The whole delivery machinery is invisible behind the contract: every step of
\* every replica, poll, issue, ack and sweep is an allowed step of the command's
\* contract or changes nothing its caller can observe.
THEOREM DeliveryImplementsContract == Spec => ImplementsContract
<1>1. Init => Contract!Init
  <2>1. Phase(AbsentRow) = "none"
    BY DEF Phase, AbsentRow, OpenStatus
  <2>2. SUFFICES ASSUME Init PROVE Contract!Init
    OBVIOUS
  <2>3. \A c \in Command : row[c] = AbsentRow
    BY <2>2 DEF Init
  <2>4. PhaseMap = [c \in Command |-> "none"]
    BY <2>1, <2>3 DEF PhaseMap
  <2> QED
    BY <2>2, <2>4 DEF Init, Contract!Init, PhaseMap
<1>2. Spec => []Sound
  BY AlwaysWellTyped, AlwaysOnce, AlwaysVerdicts, PTL DEF Sound
<1> QED
  BY <1>1, <1>2, StepImplements, PTL DEF Spec, ImplementsContract, Contract!Spec
===============================================================================
