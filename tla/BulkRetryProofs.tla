---------------------------- MODULE BulkRetryProofs ----------------------------
(***************************************************************************)
(* Proofs about BulkRetry, for every finite selection of children and any  *)
(* number of agents, replicas and polls: its type invariant, the bound on  *)
(* children in flight, at most one copy of a child, truthful outcomes, and *)
(* what a pause and a verdict promise.                                     *)
(***************************************************************************)
EXTENDS BulkRetry, CommandRowProofs, FiniteSetTheorems

-----------------------------------------------------------------------------
(* Type correctness *)

\* An attempt that is not idle works on a child for an agent.
Busy == \A w \in Worker : job[w].pc # "idle" => job[w].child \in Child /\ job[w].agent \in Agent

LEMMA Values ==
    /\ IdleJob \in Jobs
    /\ IdleScan \in Scans
    /\ AbsentChild \in Children
    /\ [AbsentChild EXCEPT !.delivery = "PENDING"] \in Children
    /\ AbsentRow \in Rows
  BY Statuses, RowBounds
     DEF IdleJob, Jobs, IdleScan, Scans, AbsentChild, Children, Delivery, Outcomes, AbsentRow, Rows

LEMMA Windows ==
    ASSUME TypeOK
    PROVE  ClaimWindow \in 0 .. ResponseWindow
  BY WindowAssumption, BulkAssumption DEF ClaimWindow, TypeOK

LEMMA ChildCommandType ==
    ASSUME TypeOK, NEW a \in Agent
    PROVE  ChildCommand(a) \in Rows
<1>1. Inserted(a) \in Rows /\ "DISPATCHED" \in Status
  BY InsertedType, Statuses
<1> QED
  BY <1>1, Windows DEF ChildCommand, Rows

LEMMA SoonerBounds ==
    /\ \A t \in 0 .. ResponseWindow : Sooner(t) \in 0 .. ResponseWindow
    /\ \A t \in 0 .. ParentWindow : Sooner(t) \in 0 .. ParentWindow
  BY WindowAssumption, BulkAssumption DEF Sooner

LEMMA OutcomeTypes ==
    ASSUME NEW ch \in Children, NEW r \in Rows, NEW seen
    PROVE  Projected(ch, r, seen) \in Children /\ Reconciled(ch, r, seen) \in Children
<1>1. OutcomeOf(seen) \in Outcomes
  BY DEF OutcomeOf, Outcomes
<1>2. Projected(ch, r, seen) \in Children
  BY <1>1 DEF Projected, Children
<1>3. ASSUME NEW x \in Children PROVE [x EXCEPT !.outcome = "UNKNOWN"] \in Children
  BY DEF Children, Outcomes
<1> QED
  BY <1>2, <1>3 DEF Reconciled

LEMMA ProjectOldestMoves ==
    ASSUME TypeOK, row' \in [Child -> Rows], ProjectOldest
    PROVE  /\ child' \in [Child -> Children]
           /\ \/ child' = child
              \/ \E d \in Child :
                    /\ Projectable(child[d], row'[d])
                    /\ child' = [child EXCEPT ![d] = Projected(child[d], row'[d], row'[d].status)]
<1>1. \A d \in Child : Projected(child[d], row'[d], row'[d].status) \in Children
  BY OutcomeTypes DEF TypeOK
<1>2. \/ child' = child
      \/ \E d \in Child :
            /\ Projectable(child[d], row'[d])
            /\ child' = [child EXCEPT ![d] = Projected(child[d], row'[d], row'[d].status)]
  BY DEF ProjectOldest
<1> QED
  BY <1>1, <1>2 DEF TypeOK

LEMMA InitTypes == Init => TypeOK /\ Busy
  BY Values, BulkAssumption DEF Init, TypeOK, Busy, IdleJob

LEMMA TypeStep == TypeOK /\ Busy /\ [Next]_vars => TypeOK'
<1> SUFFICES ASSUME TypeOK, Busy, [Next]_vars PROVE TypeOK'
  OBVIOUS
<1> USE DEF parentVars
<1>0. CASE UNCHANGED vars
  BY <1>0 DEF vars, TypeOK
<1>1. ASSUME NEW plan \in SUBSET Child, Seal(plan) PROVE TypeOK'
  <2>1. child' \in [Child -> Children] /\ left' \in 0 .. ParentWindow
    BY <1>1, Values, BulkAssumption DEF Seal
  <2> QED
    BY <1>1, <2>1 DEF Seal, TypeOK
<1>2. CASE Pause \/ Resume
  <2>1. left' \in 0 .. ParentWindow /\ controls' \in 0 .. MaxControls
    BY <1>2, BulkAssumption DEF Pause, Resume, TypeOK
  <2> QED
    BY <1>2, <2>1 DEF Pause, Resume, TypeOK
<1>3. ASSUME NEW w \in Worker, NEW c \in Child, NEW a \in Agent, Pick(w, c, a) PROVE TypeOK'
  <2>1. job' \in [Worker -> Jobs]
    BY <1>3 DEF Pick, TypeOK, Jobs
  <2> QED
    BY <1>3, <2>1 DEF Pick, TypeOK
<1>4. ASSUME NEW w \in Worker, LockClaim(w) PROVE TypeOK'
  <2>1. [job[w] EXCEPT !.pc = "locked"] \in Jobs
    BY DEF TypeOK, Jobs
  <2>2. job' \in [Worker -> Jobs] /\ lock' \in Worker \cup {NoWorker}
    BY <1>4, <2>1, Values DEF LockClaim, TypeOK
  <2> QED
    BY <1>4, <2>2 DEF LockClaim, TypeOK
<1>5. ASSUME NEW w \in Worker, CommitClaim(w) PROVE TypeOK'
  <2> DEFINE c == job[w].child
  <2> DEFINE claimed == [delivery |-> "CLAIMED", outcome |-> "UNOBSERVED", ttl |-> ClaimWindow]
  <2>1. c \in Child /\ job[w].agent \in Agent
    BY <1>5 DEF CommitClaim, Busy
  <2>2. claimed \in Children /\ ChildCommand(job[w].agent) \in Rows
    BY <2>1, Windows, ChildCommandType DEF Children, Delivery, Outcomes
  <2>3. [job[w] EXCEPT !.pc = "claimed"] \in Jobs
    BY DEF TypeOK, Jobs
  <2>4. job' \in [Worker -> Jobs]
    BY <1>5, <2>3, Values DEF CommitClaim, TypeOK
  <2>5. child' \in [Child -> Children] /\ row' \in [Child -> Rows]
    BY <1>5, <2>1, <2>2 DEF CommitClaim, TypeOK
  <2> QED
    BY <1>5, <2>4, <2>5 DEF CommitClaim, TypeOK
<1>6. ASSUME NEW w \in Worker, WsSend(w) \/ PollRespond(w) PROVE TypeOK'
  <2>1. job' \in [Worker -> Jobs] /\ sends' \in [Child -> Nat]
    BY <1>6, Values DEF WsSend, PollRespond, TypeOK
  <2>2. CASE WsSend(w)
    BY <2>1, <2>2 DEF WsSend, TypeOK
  <2>3. CASE PollRespond(w)
    <3>1. row' \in [Child -> Rows] /\ child' \in [Child -> Children]
      BY <2>3, ProjectOldestMoves DEF PollRespond, TypeOK
    <3> QED
      BY <2>1, <2>3, <3>1 DEF PollRespond, TypeOK
  <2> QED
    BY <1>6, <2>2, <2>3
<1>7. ASSUME NEW w \in Worker, PollSignFails(w) PROVE TypeOK'
  <2> DEFINE c == job[w].child
  <2>1. c \in Child
    BY <1>7 DEF PollSignFails, Busy
  <2>2. row' \in [Child -> Rows]
    BY <1>7, <2>1, RowTypes DEF PollSignFails, TypeOK, TerminalStatus
  <2>4. child' \in [Child -> Children]
    BY <1>7, <2>2, ProjectOldestMoves DEF PollSignFails
  <2>5. job' \in [Worker -> Jobs]
    BY <1>7, Values DEF PollSignFails, TypeOK
  <2> QED
    BY <1>7, <2>2, <2>4, <2>5 DEF PollSignFails, TypeOK
<1>8. ASSUME NEW w \in Worker, AbortJob(w) PROVE TypeOK'
  <2>1. job' \in [Worker -> Jobs] /\ lock' \in Worker \cup {NoWorker}
    BY <1>8, Values DEF AbortJob, TypeOK
  <2> QED
    BY <1>8, <2>1 DEF AbortJob, TypeOK
<1>9. ASSUME NEW c \in Child, NEW a \in Agent, NEW outcome \in TerminalStatus,
             HandleResult(c, a, outcome)
      PROVE TypeOK'
  <2>1. row' \in [Child -> Rows]
    BY <1>9, RowTypes DEF HandleResult, TypeOK
  <2>2. Projected(child[c], row'[c], outcome) \in Children
    BY <2>1, OutcomeTypes DEF TypeOK
  <2>3. child' \in [Child -> Children]
    BY <1>9, <2>2 DEF HandleResult, TypeOK
  <2> QED
    BY <1>9, <2>1, <2>3 DEF HandleResult, TypeOK
<1>10. ASSUME NEW k \in Coordinator, ScanRead(k) PROVE TypeOK'
  <2> DEFINE seen == [c \in Child |-> IF Projectable(child[c], row[c]) THEN row[c].status ELSE "none"]
  <2>1. \A c \in Child : Projectable(child[c], row[c]) => row[c].status \in Observable
    BY DEF Projectable, Observable
  <2>2. [busy |-> TRUE, seen |-> seen] \in Scans
    BY <2>1 DEF Scans
  <2>3. scan' \in [Coordinator -> Scans]
    BY <1>10, <2>2 DEF ScanRead, TypeOK
  <2> QED
    BY <1>10, <2>3 DEF ScanRead, TypeOK
<1>11. ASSUME NEW k \in Coordinator, ScanWrite(k) PROVE TypeOK'
  <2>1. \A c \in Child : Reconciled(child[c], row[c], scan[k].seen[c]) \in Children
    BY OutcomeTypes DEF TypeOK
  <2>2. child' \in [Child -> Children]
    BY <1>11, <2>1 DEF ScanWrite
  <2>3. scan' \in [Coordinator -> Scans]
    BY <1>11, Values DEF ScanWrite, TypeOK
  <2>4. control' \in {"UNSEALED", "RUNNING", "PAUSED", "BLOCKED"}
    BY <1>11 DEF ScanWrite, TypeOK
  <2> QED
    BY <1>11, <2>2, <2>3, <2>4 DEF ScanWrite, TypeOK
<1>12. ASSUME NEW k \in Coordinator, AbortScan(k) PROVE TypeOK'
  BY <1>12, Values DEF AbortScan, TypeOK
<1>13. CASE Sweep
  <2>1. \A c \in Child : row[c] \in Rows /\ Expire(row[c]) \in Rows
    BY RowTypes DEF TypeOK
  <2> QED
    BY <1>13, <2>1 DEF Sweep, TypeOK
<1>14. ASSUME NEW a \in Agent, Revoke(a) PROVE TypeOK'
  BY <1>14 DEF Revoke, TypeOK
<1>15. CASE Tick
  <2>1. row' \in [Child -> Rows]
    BY <1>15, AgedType DEF Tick, TypeOK
  <2>2. \A c \in Child : [child[c] EXCEPT !.ttl = Sooner(child[c].ttl)] \in Children
    BY SoonerBounds DEF TypeOK, Children
  <2>3. child' \in [Child -> Children] /\ left' \in 0 .. ParentWindow
    BY <1>15, <2>2, SoonerBounds DEF Tick, TypeOK
  <2> QED
    BY <1>15, <2>1, <2>3 DEF Tick, TypeOK
<1> QED
  BY <1>0, <1>1, <1>2, <1>3, <1>4, <1>5, <1>6, <1>7, <1>8, <1>9, <1>10, <1>11, <1>12, <1>13,
     <1>14, <1>15 DEF Next

\* An attempt stays on its child for its agent until it is idle again.
LEMMA JobMoves ==
    ASSUME TypeOK, [Next]_vars, NEW w \in Worker
    PROVE  \/ job'[w].pc = "idle"
           \/ \E c \in Child, a \in Agent : Pick(w, c, a) /\ job'[w].child = c /\ job'[w].agent = a
           \/ job'[w] = job[w]
           \/ /\ LockClaim(w) \/ CommitClaim(w)
              /\ job'[w].child = job[w].child /\ job'[w].agent = job[w].agent
<1> DEFINE Goal == \/ job'[w].pc = "idle"
                   \/ \E c \in Child, a \in Agent : Pick(w, c, a) /\ job'[w].child = c /\ job'[w].agent = a
                   \/ job'[w] = job[w]
                   \/ /\ LockClaim(w) \/ CommitClaim(w)
                      /\ job'[w].child = job[w].child /\ job'[w].agent = job[w].agent
<1>1. ASSUME NEW v \in Worker, NEW c \in Child, NEW a \in Agent, Pick(v, c, a) PROVE Goal
  <2>1. CASE v = w
    <3>1. job'[w].child = c /\ job'[w].agent = a
      BY <1>1, <2>1 DEF Pick, TypeOK
    <3> QED
      BY <1>1, <2>1, <3>1
  <2>2. CASE v # w
    BY <1>1, <2>2 DEF Pick, TypeOK
  <2> QED
    BY <2>1, <2>2
<1>2. ASSUME NEW v \in Worker, LockClaim(v) \/ CommitClaim(v) PROVE Goal
  <2>1. CASE v = w
    <3>1. job' = [job EXCEPT ![w] = IdleJob] \/ \E p : job' = [job EXCEPT ![w].pc = p]
      BY <1>2, <2>1 DEF LockClaim, CommitClaim
    <3>2. ASSUME NEW p, job' = [job EXCEPT ![w].pc = p]
          PROVE  job'[w].child = job[w].child /\ job'[w].agent = job[w].agent
      BY <3>2 DEF TypeOK, Jobs
    <3>3. CASE job' = [job EXCEPT ![w] = IdleJob]
      BY <3>3 DEF TypeOK, IdleJob
    <3> QED
      BY <1>2, <2>1, <3>1, <3>2, <3>3
  <2>2. CASE v # w
    BY <1>2, <2>2 DEF LockClaim, CommitClaim, TypeOK
  <2> QED
    BY <2>1, <2>2
<1>3. ASSUME NEW v \in Worker, job' = [job EXCEPT ![v] = IdleJob] PROVE Goal
  BY <1>3 DEF TypeOK, IdleJob
<1>4. ASSUME UNCHANGED job PROVE Goal
  BY <1>4
<1>5. ASSUME NEW v \in Worker, WsSend(v) \/ PollRespond(v) \/ PollSignFails(v) \/ AbortJob(v)
      PROVE  Goal
  BY <1>3, <1>5 DEF WsSend, PollRespond, PollSignFails, AbortJob
<1>6. ASSUME \/ \E plan \in SUBSET Child : Seal(plan)
             \/ Pause \/ Resume \/ Sweep \/ Tick \/ UNCHANGED vars
             \/ \E c \in Child, a \in Agent, outcome \in TerminalStatus : HandleResult(c, a, outcome)
             \/ \E k \in Coordinator : ScanRead(k) \/ ScanWrite(k) \/ AbortScan(k)
             \/ \E a \in Agent : Revoke(a)
      PROVE  UNCHANGED job
  BY <1>6 DEF Seal, Pause, Resume, Sweep, Tick, vars, HandleResult, ScanRead, ScanWrite, AbortScan, Revoke
<1> HIDE DEF Goal
<1>7. Goal
  BY <1>1, <1>2, <1>4, <1>5, <1>6 DEF Next
<1> QED
  BY <1>7 DEF Goal

LEMMA BusyStep == TypeOK /\ Busy /\ [Next]_vars => Busy'
<1> SUFFICES ASSUME TypeOK, Busy, [Next]_vars, NEW w \in Worker, job'[w].pc # "idle"
             PROVE  job'[w].child \in Child /\ job'[w].agent \in Agent
  BY DEF Busy
<1>1. LockClaim(w) \/ CommitClaim(w) => job[w].pc # "idle"
  BY DEF LockClaim, CommitClaim
<1>2. job[w].pc # "idle" => job[w].child \in Child /\ job[w].agent \in Agent
  BY DEF Busy
<1>3. \/ \E c \in Child, a \in Agent : job'[w].child = c /\ job'[w].agent = a
      \/ job[w].pc # "idle" /\ job'[w].child = job[w].child /\ job'[w].agent = job[w].agent
  BY <1>1, JobMoves
<1> QED
  BY <1>2, <1>3

-----------------------------------------------------------------------------
(* How a child moves *)

\* What is known of a child is only ever refined.
Refines(o, p) ==
    \/ p = o
    \/ o = "UNOBSERVED"
    \/ o = "UNKNOWN" /\ p \in {"SUCCEEDED", "FAILED"}

LEMMA ProjectionRefines ==
    ASSUME NEW ch \in Children, NEW r, NEW seen
    PROVE  /\ Projected(ch, r, seen).delivery = ch.delivery
           /\ Refines(ch.outcome, Projected(ch, r, seen).outcome)
           /\ Reconciled(ch, r, seen).delivery = ch.delivery
           /\ Refines(ch.outcome, Reconciled(ch, r, seen).outcome)
<1>1. /\ Projected(ch, r, seen).delivery = ch.delivery
      /\ Refines(ch.outcome, Projected(ch, r, seen).outcome)
      /\ Projected(ch, r, seen) \in Children
  BY DEF Projected, Children, Refines, OutcomeOf, Outcomes
<1>2. ASSUME NEW x \in Children, Lapsed(x)
      PROVE  /\ [x EXCEPT !.outcome = "UNKNOWN"].delivery = x.delivery
             /\ x.outcome = "UNOBSERVED"
  BY <1>2 DEF Lapsed, Children
<1>3. \A o : Refines(o, "UNOBSERVED") => o = "UNOBSERVED"
  BY DEF Refines
<1> QED
  BY <1>1, <1>2, <1>3 DEF Reconciled, Refines

Claims(w, c) ==
    /\ CommitClaim(w) /\ job[w].child = c /\ child[c].delivery = "PENDING"
    /\ child'[c].delivery = "CLAIMED" /\ child'[c].outcome = "UNOBSERVED"

\* A step leaves a child where it is and refines its outcome, or seals it, or
\* is the claim of this child.
LEMMA ChildMoves ==
    ASSUME TypeOK, Busy, [Next]_vars, NEW c \in Child
    PROVE  \/ /\ child'[c].delivery = child[c].delivery
              /\ Refines(child[c].outcome, child'[c].outcome)
           \/ /\ control = "UNSEALED" /\ control' = "RUNNING"
              /\ child'[c].delivery # "CLAIMED" /\ child'[c].outcome = "UNOBSERVED"
           \/ \E w \in Worker : Claims(w, c)
<1> DEFINE Kept == /\ child'[c].delivery = child[c].delivery
                   /\ Refines(child[c].outcome, child'[c].outcome)
<1> DEFINE Goal == \/ Kept
                   \/ /\ control = "UNSEALED" /\ control' = "RUNNING"
                      /\ child'[c].delivery # "CLAIMED" /\ child'[c].outcome = "UNOBSERVED"
                   \/ \E w \in Worker : Claims(w, c)
<1>1. ASSUME UNCHANGED child PROVE Goal
  BY <1>1 DEF Refines
<1>2. ASSUME NEW plan \in SUBSET Child, Seal(plan) PROVE Goal
  BY <1>2 DEF Seal, AbsentChild
<1>3. ASSUME NEW w \in Worker, CommitClaim(w) PROVE Goal
  <2>1. CASE job[w].child = c /\ child[c].delivery = "PENDING"
    <3>1. child'[c] = [delivery |-> "CLAIMED", outcome |-> "UNOBSERVED", ttl |-> ClaimWindow]
      BY <1>3, <2>1 DEF CommitClaim, StillPending, TypeOK
    <3> QED
      BY <1>3, <2>1, <3>1 DEF Claims
  <2>2. CASE job[w].child # c \/ child[c].delivery # "PENDING"
    <3>1. child'[c] = child[c]
      BY <1>3, <2>2 DEF CommitClaim, StillPending, TypeOK
    <3> QED
      BY <3>1 DEF Refines
  <2> QED
    BY <2>1, <2>2
<1>4. ASSUME NEW d \in Child, NEW r, NEW seen, child' = [child EXCEPT ![d] = Projected(child[d], r, seen)]
      PROVE  Goal
  <2>1. CASE d = c
    BY <1>4, <2>1, ProjectionRefines DEF TypeOK
  <2>2. CASE d # c
    BY <1>4, <2>2 DEF TypeOK, Refines
  <2> QED
    BY <2>1, <2>2
<1>5. ASSUME NEW w \in Worker, PollRespond(w) \/ PollSignFails(w) PROVE Goal
  <2>1. row' \in [Child -> Rows] /\ ProjectOldest
    BY <1>5, TypeStep DEF PollRespond, PollSignFails, TypeOK, Next
  <2>2. \/ child' = child
        \/ \E d \in Child : child' = [child EXCEPT ![d] = Projected(child[d], row'[d], row'[d].status)]
    BY <2>1, ProjectOldestMoves
  <2> QED
    BY <1>1, <1>4, <2>2
<1>6. ASSUME NEW d \in Child, NEW a \in Agent, NEW outcome \in TerminalStatus, HandleResult(d, a, outcome)
      PROVE  Goal
  BY <1>4, <1>6 DEF HandleResult
<1>7. ASSUME NEW k \in Coordinator, ScanWrite(k) PROVE Goal
  <2>1. child'[c] = Reconciled(child[c], row[c], scan[k].seen[c])
    BY <1>7 DEF ScanWrite
  <2> QED
    BY <2>1, ProjectionRefines DEF TypeOK
<1>8. ASSUME Tick PROVE Goal
  <2>1. child'[c] = [child[c] EXCEPT !.ttl = Sooner(child[c].ttl)]
    BY <1>8 DEF Tick
  <2> QED
    BY <2>1 DEF TypeOK, Children, Refines
<1>9. ASSUME \/ Pause \/ Resume \/ Sweep \/ UNCHANGED vars
             \/ \E w \in Worker, d \in Child, a \in Agent : Pick(w, d, a)
             \/ \E w \in Worker : LockClaim(w) \/ WsSend(w) \/ AbortJob(w)
             \/ \E k \in Coordinator : ScanRead(k) \/ AbortScan(k)
             \/ \E a \in Agent : Revoke(a)
      PROVE  UNCHANGED child
  BY <1>9 DEF Pause, Resume, Sweep, vars, Pick, LockClaim, WsSend, AbortJob, ScanRead, AbortScan, Revoke
<1> HIDE DEF Goal
<1>10. Goal
  BY <1>1, <1>2, <1>3, <1>5, <1>6, <1>7, <1>8, <1>9 DEF Next
<1> QED
  BY <1>10 DEF Goal

-----------------------------------------------------------------------------
(* The parent's lock, and the children in flight *)

\* The lock is held by the one attempt that has checked the parent and not yet
\* committed, and what it checked stays true as long as it holds it.
Locking ==
    /\ \A w \in Worker : job[w].pc = "locked" <=> lock = w
    /\ lock # NoWorker => control = "RUNNING" /\ Cardinality(Unobserved) < MaxInFlight

\* Sealing comes first.
UnsealedEmpty == control = "UNSEALED" => \A c \in Child : child[c].delivery = "ABSENT"

LEMMA UnobservedFinite ==
    /\ IsFiniteSet(Unobserved) /\ Cardinality(Unobserved) \in Nat
    /\ IsFiniteSet(Unobserved') /\ Cardinality(Unobserved') \in Nat
<1>1. Unobserved \subseteq Child /\ Unobserved' \subseteq Child /\ IsFiniteSet(Child)
  BY BulkAssumption DEF Unobserved
<1>2. IsFiniteSet(Unobserved) /\ IsFiniteSet(Unobserved')
  BY <1>1, FS_Subset
<1> QED
  BY <1>2, FS_CardinalityType

\* Only a claim puts a child in flight, and it is the claim of the lock's holder.
LEMMA FlightMoves ==
    ASSUME TypeOK, Busy, Locking, [Next]_vars
    PROVE  \/ Unobserved' \subseteq Unobserved
           \/ \E w \in Worker : /\ CommitClaim(w) /\ lock = w
                               /\ Unobserved' \subseteq Unobserved \cup {job[w].child}
<1>1. ASSUME NEW c \in Child, c \in Unobserved', c \notin Unobserved
      PROVE  \E w \in Worker : Claims(w, c)
  BY <1>1, ChildMoves DEF Unobserved, Refines
<1>2. \A w \in Worker, c \in Child : Claims(w, c) => CommitClaim(w) /\ lock = w /\ job[w].child = c
  BY DEF Claims, CommitClaim, Locking
<1>3. Unobserved' \subseteq Child
  BY DEF Unobserved
<1> QED
  BY <1>1, <1>2, <1>3

LEMMA FlightCounted ==
    ASSUME TypeOK, Busy, Locking, [Next]_vars
    PROVE  \/ Cardinality(Unobserved') <= Cardinality(Unobserved)
           \/ /\ Cardinality(Unobserved') <= Cardinality(Unobserved) + 1
              /\ \E w \in Worker : CommitClaim(w) /\ lock = w
<1>1. IsFiniteSet(Unobserved) /\ Cardinality(Unobserved) \in Nat /\ Cardinality(Unobserved') \in Nat
  BY UnobservedFinite
<1>2. CASE Unobserved' \subseteq Unobserved
  BY <1>1, <1>2, FS_Subset
<1>3. ASSUME NEW w \in Worker, CommitClaim(w), lock = w,
             Unobserved' \subseteq Unobserved \cup {job[w].child}
      PROVE  Cardinality(Unobserved') <= Cardinality(Unobserved) + 1
  <2>1. /\ IsFiniteSet(Unobserved \cup {job[w].child})
        /\ \/ Cardinality(Unobserved \cup {job[w].child}) = Cardinality(Unobserved)
           \/ Cardinality(Unobserved \cup {job[w].child}) = Cardinality(Unobserved) + 1
    BY <1>1, FS_AddElement
  <2>2. Cardinality(Unobserved') <= Cardinality(Unobserved \cup {job[w].child})
    BY <1>3, <2>1, FS_Subset
  <2> QED
    BY <1>1, <2>1, <2>2
<1> QED
  BY <1>2, <1>3, FlightMoves

\* Who holds the lock after a step.
LEMMA HolderStep == TypeOK /\ Busy /\ Locking /\ [Next]_vars =>
                       \A w \in Worker : job'[w].pc = "locked" <=> lock' = w
<1> SUFFICES ASSUME TypeOK, Busy, Locking, [Next]_vars, NEW w \in Worker
             PROVE  job'[w].pc = "locked" <=> lock' = w
  OBVIOUS
<1> DEFINE Goal == job'[w].pc = "locked" <=> lock' = w
<1>0. w # NoWorker /\ (job[w].pc = "locked" <=> lock = w)
  BY BulkAssumption DEF Locking
<1>1. ASSUME UNCHANGED <<job, lock>> PROVE Goal
  BY <1>0, <1>1
<1>2. ASSUME NEW v \in Worker, NEW c \in Child, NEW a \in Agent, Pick(v, c, a) PROVE Goal
  <2>1. CASE v = w
    <3>1. job[w].pc = "idle" /\ job'[w].pc = "picked" /\ lock' = lock
      BY <1>2, <2>1 DEF Pick, TypeOK
    <3> QED
      BY <1>0, <3>1
  <2>2. CASE v # w
    BY <1>0, <1>2, <2>2 DEF Pick, TypeOK
  <2> QED
    BY <2>1, <2>2
<1>3. ASSUME NEW v \in Worker, LockClaim(v) PROVE Goal
  <2>1. CASE v = w
    BY <1>0, <1>3, <2>1 DEF LockClaim, TypeOK, Jobs, IdleJob
  <2>2. CASE v # w
    BY <1>0, <1>3, <2>2 DEF LockClaim, TypeOK
  <2> QED
    BY <2>1, <2>2
<1>4. ASSUME NEW v \in Worker, CommitClaim(v) PROVE Goal
  <2>1. lock = v /\ lock' = NoWorker
    BY <1>4 DEF CommitClaim, Locking
  <2>2. CASE v = w
    <3>1. job'[w].pc # "locked"
      BY <1>4, <2>2 DEF CommitClaim, TypeOK, Jobs, IdleJob
    <3> QED
      BY <1>0, <2>1, <3>1
  <2>3. CASE v # w
    <3>1. job'[w] = job[w]
      BY <1>4, <2>3 DEF CommitClaim, TypeOK
    <3> QED
      BY <1>0, <2>1, <2>3, <3>1
  <2> QED
    BY <2>2, <2>3
<1>5. ASSUME NEW v \in Worker, WsSend(v) \/ PollRespond(v) \/ PollSignFails(v) PROVE Goal
  <2>1. /\ job[v].pc = "claimed" /\ lock' = lock
        /\ job' = [job EXCEPT ![v] = IdleJob]
    BY <1>5 DEF WsSend, PollRespond, PollSignFails
  <2>2. CASE v = w
    BY <1>0, <2>1, <2>2 DEF TypeOK, IdleJob
  <2>3. CASE v # w
    BY <1>0, <2>1, <2>3 DEF TypeOK
  <2> QED
    BY <2>2, <2>3
<1>6. ASSUME NEW v \in Worker, AbortJob(v) PROVE Goal
  <2>1. CASE v = w
    BY <1>0, <1>6, <2>1 DEF AbortJob, TypeOK, IdleJob
  <2>2. CASE v # w
    BY <1>0, <1>6, <2>2 DEF AbortJob, TypeOK
  <2> QED
    BY <2>1, <2>2
<1>7. ASSUME \/ \E plan \in SUBSET Child : Seal(plan)
             \/ Pause \/ Resume \/ Sweep \/ Tick \/ UNCHANGED vars
             \/ \E c \in Child, a \in Agent, outcome \in TerminalStatus : HandleResult(c, a, outcome)
             \/ \E k \in Coordinator : ScanRead(k) \/ ScanWrite(k) \/ AbortScan(k)
             \/ \E a \in Agent : Revoke(a)
      PROVE  UNCHANGED <<job, lock>>
  BY <1>7 DEF Seal, Pause, Resume, Sweep, Tick, vars, HandleResult, ScanRead, ScanWrite, AbortScan, Revoke
<1> HIDE DEF Goal
<1>8. Goal
  BY <1>1, <1>2, <1>3, <1>4, <1>5, <1>6, <1>7 DEF Next
<1> QED
  BY <1>8 DEF Goal

\* Only under a free lock, or before it is sealed, does a parent stop or start.
LEMMA ControlMoves ==
    ASSUME [Next]_vars
    PROVE  \/ control' = control
           \/ control = "UNSEALED" /\ control' = "RUNNING" /\ lock' = lock
           \/ control # "UNSEALED" /\ control' # "UNSEALED" /\ lock = NoWorker /\ lock' = lock
<1>1. ASSUME NEW plan \in SUBSET Child, Seal(plan)
      PROVE  control = "UNSEALED" /\ control' = "RUNNING" /\ lock' = lock
  BY <1>1 DEF Seal
<1>2. ASSUME Pause \/ Resume
      PROVE  control # "UNSEALED" /\ control' # "UNSEALED" /\ lock = NoWorker /\ lock' = lock
  BY <1>2 DEF Pause, Resume, ParentFree
<1>3. ASSUME NEW k \in Coordinator, ScanWrite(k)
      PROVE  \/ control' = control
             \/ control # "UNSEALED" /\ control' # "UNSEALED" /\ lock = NoWorker /\ lock' = lock
  BY <1>3 DEF ScanWrite, MustBlock
<1>4. ASSUME \/ Sweep \/ Tick \/ UNCHANGED vars
             \/ \E w \in Worker : \/ \E c \in Child, a \in Agent : Pick(w, c, a)
                                 \/ LockClaim(w) \/ CommitClaim(w) \/ WsSend(w) \/ PollRespond(w)
                                 \/ PollSignFails(w) \/ AbortJob(w)
             \/ \E c \in Child, a \in Agent, outcome \in TerminalStatus : HandleResult(c, a, outcome)
             \/ \E k \in Coordinator : ScanRead(k) \/ AbortScan(k)
             \/ \E a \in Agent : Revoke(a)
      PROVE  control' = control
  BY <1>4 DEF Sweep, Tick, vars, parentVars, Pick, LockClaim, CommitClaim, WsSend, PollRespond,
              PollSignFails, AbortJob, HandleResult, ScanRead, AbortScan, Revoke
<1> QED
  BY <1>1, <1>2, <1>3, <1>4 DEF Next

\* A new holder has just checked; an old one is still right.
LEMMA LockMoves ==
    ASSUME TypeOK, [Next]_vars, lock' # NoWorker
    PROVE  lock' = lock \/ (MayClaim /\ UNCHANGED <<control, child>>)
<1>1. ASSUME NEW w \in Worker, LockClaim(w) PROVE lock' = lock \/ (MayClaim /\ UNCHANGED <<control, child>>)
  BY <1>1 DEF LockClaim, parentVars
<1>2. ASSUME NEW w \in Worker, CommitClaim(w) \/ AbortJob(w) PROVE lock' \in {lock, NoWorker}
  BY <1>2 DEF CommitClaim, AbortJob
<1>3. ASSUME \/ Sweep \/ Tick \/ Pause \/ Resume \/ UNCHANGED vars
             \/ \E plan \in SUBSET Child : Seal(plan)
             \/ \E w \in Worker : \/ \E c \in Child, a \in Agent : Pick(w, c, a)
                                 \/ WsSend(w) \/ PollRespond(w) \/ PollSignFails(w)
             \/ \E c \in Child, a \in Agent, outcome \in TerminalStatus : HandleResult(c, a, outcome)
             \/ \E k \in Coordinator : ScanRead(k) \/ ScanWrite(k) \/ AbortScan(k)
             \/ \E a \in Agent : Revoke(a)
      PROVE  lock' = lock
  BY <1>3 DEF Sweep, Tick, Pause, Resume, vars, Seal, Pick, WsSend, PollRespond,
              PollSignFails, HandleResult, ScanRead, ScanWrite, AbortScan, Revoke
<1> QED
  BY <1>1, <1>2, <1>3 DEF Next

LEMMA LockingStep ==
    TypeOK /\ TypeOK' /\ Busy /\ Locking /\ [Next]_vars => Locking'
<1> SUFFICES ASSUME TypeOK, TypeOK', Busy, Locking, [Next]_vars PROVE Locking'
  OBVIOUS
<1>1. \A w \in Worker : job'[w].pc = "locked" <=> lock' = w
  BY HolderStep
<1>2. ASSUME lock' # NoWorker
      PROVE  control' = "RUNNING" /\ Cardinality(Unobserved') < MaxInFlight
  <2>1. CASE MayClaim /\ UNCHANGED <<control, child>>
    BY <2>1 DEF MayClaim, Unobserved
  <2>2. CASE lock' = lock
    <3>1. lock # NoWorker /\ control = "RUNNING" /\ Cardinality(Unobserved) < MaxInFlight
      BY <1>2, <2>2 DEF Locking
    <3>2. control' = "RUNNING"
      BY <3>1, ControlMoves
    <3>3. \A w \in Worker : ~CommitClaim(w)
      BY <1>2, <2>2 DEF CommitClaim
    <3>4. Cardinality(Unobserved') <= Cardinality(Unobserved)
      BY <3>3, FlightCounted
    <3>5. Cardinality(Unobserved) \in Nat /\ Cardinality(Unobserved') \in Nat /\ MaxInFlight \in Nat
      BY UnobservedFinite, BulkAssumption
    <3> QED
      BY <3>1, <3>2, <3>4, <3>5
  <2> QED
    BY <1>2, <2>1, <2>2, LockMoves
<1> QED
  BY <1>1, <1>2 DEF Locking

LEMMA FlightStep ==
    TypeOK /\ TypeOK' /\ Busy /\ Locking /\ InFlightBounded /\ [Next]_vars => InFlightBounded'
<1> SUFFICES ASSUME TypeOK, TypeOK', Busy, Locking, InFlightBounded, [Next]_vars
             PROVE  Cardinality(Unobserved') <= MaxInFlight
  BY DEF InFlightBounded
<1>1. Cardinality(Unobserved) \in Nat /\ Cardinality(Unobserved') \in Nat /\ MaxInFlight \in Nat
  BY UnobservedFinite, BulkAssumption
<1>2. ASSUME NEW w \in Worker, lock = w PROVE Cardinality(Unobserved) < MaxInFlight
  BY <1>2, BulkAssumption DEF Locking
<1> QED
  BY <1>1, <1>2, FlightCounted DEF InFlightBounded

LEMMA InitLocking == Init => Locking /\ InFlightBounded /\ UnsealedEmpty
<1> SUFFICES ASSUME Init PROVE Locking /\ InFlightBounded /\ UnsealedEmpty
  OBVIOUS
<1>1. Unobserved = {}
  BY DEF Init, Unobserved, AbsentChild
<1>2. Cardinality(Unobserved) <= MaxInFlight
  BY <1>1, FS_EmptySet, BulkAssumption
<1> QED
  BY <1>2, BulkAssumption DEF Init, Locking, InFlightBounded, UnsealedEmpty, IdleJob, AbsentChild

LEMMA UnsealedStep ==
    TypeOK /\ Busy /\ UnsealedEmpty /\ [Next]_vars => UnsealedEmpty'
<1> SUFFICES ASSUME TypeOK, Busy, UnsealedEmpty, [Next]_vars, control' = "UNSEALED", NEW c \in Child
             PROVE  child'[c].delivery = "ABSENT"
  BY DEF UnsealedEmpty
<1>1. control = "UNSEALED" /\ child[c].delivery = "ABSENT"
  BY ControlMoves DEF UnsealedEmpty
<1> QED
  BY <1>1, ChildMoves DEF Claims

\* What every later proof starts from.
Flight == TypeOK /\ Busy /\ Locking /\ UnsealedEmpty /\ InFlightBounded

LEMMA FlightInductive == (Init => Flight) /\ (Flight /\ [Next]_vars => Flight')
<1>1. Init => Flight
  BY InitTypes, InitLocking DEF Flight
<1>2. ASSUME Flight, [Next]_vars PROVE Flight'
  <2>1. TypeOK /\ Busy /\ Locking /\ UnsealedEmpty /\ InFlightBounded
    BY <1>2 DEF Flight
  <2>2. TypeOK' /\ Busy'
    BY <1>2, <2>1, TypeStep, BusyStep
  <2>3. Locking' /\ UnsealedEmpty' /\ InFlightBounded'
    BY <1>2, <2>1, <2>2, LockingStep, UnsealedStep, FlightStep
  <2> QED
    BY <2>2, <2>3 DEF Flight
<1> QED
  BY <1>1, <1>2

LEMMA FlightAlways == Spec => []Flight
<1>1. (Init => Flight) /\ (Flight /\ [Next]_vars => Flight')
  BY FlightInductive
<1> QED
  BY <1>1, PTL DEF Spec

\* claim_child: however many attempts run at once, no more than MaxInFlight
\* children of a parent are out unobserved.
THEOREM InFlight == Spec => []InFlightBounded
<1>1. Flight => InFlightBounded
  BY DEF Flight
<1> QED
  BY <1>1, FlightAlways, PTL

\* set_control_state: from the commit of a pause or of a block to the next
\* resume no step claims a child.
THEOREM PauseHolds == Spec => NoClaimWhileStopped
<1> DEFINE Held == control # "RUNNING" =>
                     \A c \in Child : child'[c].delivery = "CLAIMED" => child[c].delivery = "CLAIMED"
<1>1. ASSUME Flight, [Next]_vars PROVE [Held]_vars
  <2>1. TypeOK /\ Busy /\ Locking
    BY <1>1 DEF Flight
  <2>2. SUFFICES ASSUME control # "RUNNING", NEW c \in Child, child'[c].delivery = "CLAIMED"
                 PROVE  child[c].delivery = "CLAIMED"
    OBVIOUS
  <2>3. \A w \in Worker : ~Claims(w, c)
    BY <2>1, <2>2, BulkAssumption DEF Claims, CommitClaim, Locking
  <2> QED
    BY <1>1, <2>1, <2>2, <2>3, ChildMoves
<1>2. Flight /\ [Next]_vars => [Held]_vars
  BY <1>1
<1> QED
  BY <1>2, FlightAlways, PTL DEF Spec, NoClaimWhileStopped

-----------------------------------------------------------------------------
(* The verdict of a request *)

\* A finished request stays as it was sealed, every child claimed and observed.
LEMMA FinishedStays ==
    ASSUME Flight, [Next]_vars, Sealed # {}, ~Unfinished
    PROVE  /\ Sealed' = Sealed /\ ~Unfinished'
           /\ \A c \in Sealed : /\ child[c].delivery = "CLAIMED" /\ child'[c].delivery = "CLAIMED"
                                /\ Refines(child[c].outcome, child'[c].outcome)
                                /\ child[c].outcome # "UNOBSERVED"
<1>1. TypeOK /\ Busy /\ control # "UNSEALED"
  BY DEF Flight, UnsealedEmpty, Sealed
<1>2. \A c \in Child : child[c] \in Children /\ child[c].delivery # "PENDING"
  BY <1>1 DEF TypeOK, Unfinished, Pending
<1>3. \A c \in Child : /\ child'[c].delivery = child[c].delivery
                       /\ Refines(child[c].outcome, child'[c].outcome)
  BY <1>1, <1>2, ChildMoves DEF Claims
<1>4. \A c \in Sealed : child[c].delivery = "CLAIMED" /\ child[c].outcome # "UNOBSERVED"
  BY <1>2 DEF Sealed, Children, Delivery, Unfinished, Unobserved
<1>5. Sealed' = Sealed
  BY <1>3 DEF Sealed
<1>6. Pending' = {}
  BY <1>2, <1>3 DEF Pending
<1>7. Unobserved' = {}
  BY <1>3, <1>4 DEF Unobserved, Sealed, Refines
<1> QED
  BY <1>3, <1>4, <1>5, <1>6, <1>7 DEF Unfinished, Sealed

StatusRead ==
    /\ FinalStatus \in {"succeeded", "failed", "indeterminate", "partial"}
    /\ FinalStatus = "succeeded" <=> With("SUCCEEDED") = Sealed
    /\ FinalStatus = "failed" <=> With("FAILED") = Sealed

LEMMA FinalStatuses == Sealed # {} => StatusRead
<1> SUFFICES ASSUME Sealed # {} PROVE StatusRead
  OBVIOUS
<1>1. /\ ~(With("SUCCEEDED") = Sealed /\ With("FAILED") = Sealed)
      /\ ~(With("SUCCEEDED") = Sealed /\ With("UNKNOWN") = Sealed)
      /\ ~(With("FAILED") = Sealed /\ With("UNKNOWN") = Sealed)
  BY DEF With, Sealed
<1>2. CASE With("SUCCEEDED") = Sealed
  BY <1>1, <1>2 DEF FinalStatus, StatusRead
<1>3. CASE With("FAILED") = Sealed
  BY <1>1, <1>3 DEF FinalStatus, StatusRead
<1>4. CASE With("SUCCEEDED") # Sealed /\ With("FAILED") # Sealed
  BY <1>4 DEF FinalStatus, StatusRead
<1> QED
  BY <1>2, <1>3, <1>4

\* derive_bulk_retry_status: "succeeded" and "failed" are for ever, and a
\* request that is over is never unfinished again.
THEOREM VerdictForEver == Spec => VerdictStands
<1> DEFINE Stands ==
      /\ ParentStatus \in {"succeeded", "failed"} => ParentStatus' = ParentStatus
      /\ ParentStatus \in {"indeterminate", "partial"} =>
            ParentStatus' \in {"indeterminate", "partial", "succeeded", "failed"}
<1>1. (Sealed # {} => StatusRead) /\ (Sealed # {} => StatusRead)'
  BY FinalStatuses, PTL
<1>2. ParentStatus \in {"succeeded", "failed", "indeterminate", "partial"} =>
         /\ Sealed # {} /\ ~Unfinished
         /\ ParentStatus = FinalStatus
  BY DEF ParentStatus, WaitingStatus
<1>3. ASSUME Flight, [Next]_vars, Sealed # {}, ~Unfinished, ParentStatus = FinalStatus
      PROVE  Stands
  <2>1. /\ Sealed' = Sealed /\ ~Unfinished'
        /\ \A c \in Sealed : /\ child[c].delivery = "CLAIMED" /\ child'[c].delivery = "CLAIMED"
                             /\ Refines(child[c].outcome, child'[c].outcome)
                             /\ child[c].outcome # "UNOBSERVED"
    BY <1>3, FinishedStays
  <2>2. StatusRead /\ StatusRead' /\ ParentStatus' = FinalStatus'
    BY <1>1, <1>3, <2>1 DEF ParentStatus
  <2>3. ASSUME NEW o \in {"SUCCEEDED", "FAILED"}, With(o) = Sealed PROVE With(o)' = Sealed'
    BY <2>1, <2>3 DEF With, Sealed, Refines
  <2>4. FinalStatus = "succeeded" => FinalStatus' = "succeeded"
    BY <2>2, <2>3 DEF StatusRead
  <2>5. FinalStatus = "failed" => FinalStatus' = "failed"
    BY <2>2, <2>3 DEF StatusRead
  <2>6. FinalStatus' \in {"succeeded", "failed", "indeterminate", "partial"}
    BY <2>2 DEF StatusRead
  <2> QED
    BY <1>3, <2>2, <2>4, <2>5, <2>6
<1>4. Flight /\ [Next]_vars => [Stands]_vars
  BY <1>2, <1>3
<1> QED
  BY <1>4, FlightAlways, PTL DEF Spec, VerdictStands

-----------------------------------------------------------------------------
(* One copy of a child *)

\* The attempt that claimed a child is the only one that may send it, and has
\* not sent it yet.
Once ==
    /\ \A c \in Child : sends[c] <= 1 /\ (child[c].delivery # "CLAIMED" => sends[c] = 0)
    /\ \A w \in Worker : job[w].pc = "claimed" =>
          child[job[w].child].delivery = "CLAIMED" /\ sends[job[w].child] = 0
    /\ \A v, w \in Worker :
          job[v].pc = "claimed" /\ job[w].pc = "claimed" /\ job[v].child = job[w].child => v = w

\* A claimed child stays claimed.
LEMMA ClaimsStay ==
    ASSUME Flight, [Next]_vars, NEW c \in Child
    PROVE  /\ child[c].delivery = "CLAIMED" => child'[c].delivery = "CLAIMED"
           /\ \/ child'[c].delivery # "CLAIMED" \/ child[c].delivery = "CLAIMED"
              \/ \E w \in Worker : Claims(w, c)
  BY ChildMoves DEF Flight, UnsealedEmpty, Claims

\* Any step but a claim or a send leaves it to fewer attempts, and sends nothing.
LEMMA OnceKept ==
    ASSUME Flight, Once, [Next]_vars, sends' = sends,
           \A w \in Worker : job'[w].pc = "claimed" => job'[w] = job[w],
           \A w \in Worker : ~CommitClaim(w)
    PROVE  Once'
<1>1. \A c \in Child : child'[c].delivery = "CLAIMED" <=> child[c].delivery = "CLAIMED"
  BY ClaimsStay DEF Claims
<1>2. \A w \in Worker : job[w].pc = "claimed" => job[w].child \in Child
  BY DEF Flight, Busy
<1> QED
  BY <1>1, <1>2 DEF Once

LEMMA OnceStep == Flight /\ Once /\ [Next]_vars => Once'
<1> SUFFICES ASSUME Flight, Once, [Next]_vars PROVE Once'
  OBVIOUS
<1>0. /\ job \in [Worker -> Jobs] /\ sends \in [Child -> Nat] /\ child \in [Child -> Children]
      /\ \A w \in Worker : job[w].pc = "claimed" => job[w].child \in Child
  BY DEF Flight, TypeOK, Busy
<1>1. ASSUME NEW w \in Worker, CommitClaim(w) PROVE Once'
  <2> DEFINE c == job[w].child
  <2>1. c \in Child /\ sends' = sends
    BY <1>1 DEF CommitClaim, Flight, Busy
  <2>2. \A v \in Worker : v # w => job'[v] = job[v]
    BY <1>0, <1>1 DEF CommitClaim
  <2>3. CASE child[c].delivery = "PENDING"
    <3>1. /\ child'[c].delivery = "CLAIMED" /\ \A d \in Child : d # c => child'[d] = child[d]
          /\ job'[w].child = c
      BY <1>0, <1>1, <2>1, <2>3 DEF CommitClaim, StillPending, Jobs
    <3>2. sends[c] = 0 /\ \A v \in Worker : job[v].pc = "claimed" => job[v].child # c
      BY <2>1, <2>3 DEF Once
    <3>3. \A v \in Worker : job'[v].pc = "claimed" =>
             v = w \/ (v # w /\ job'[v] = job[v] /\ job[v].child \in Child /\ job[v].child # c)
      BY <1>0, <2>2, <3>2
    <3> HIDE DEF c
    <3>4. \A d \in Child : sends'[d] <= 1 /\ (child'[d].delivery # "CLAIMED" => sends'[d] = 0)
      BY <2>1, <3>1, <3>2 DEF Once
    <3>5. \A v \in Worker : job'[v].pc = "claimed" =>
             child'[job'[v].child].delivery = "CLAIMED" /\ sends'[job'[v].child] = 0
      BY <2>1, <3>1, <3>2, <3>3 DEF Once
    <3>6. \A u, v \in Worker :
             job'[u].pc = "claimed" /\ job'[v].pc = "claimed" /\ job'[u].child = job'[v].child => u = v
      BY <3>1, <3>3 DEF Once
    <3> QED
      BY <3>4, <3>5, <3>6 DEF Once
  <2>4. CASE child[c].delivery # "PENDING"
    <3>1. child' = child /\ job'[w].pc # "claimed"
      BY <1>0, <1>1, <2>4 DEF CommitClaim, StillPending, IdleJob
    <3> QED
      BY <1>0, <2>1, <2>2, <3>1 DEF Once
  <2> QED
    BY <2>3, <2>4
<1>2. ASSUME NEW w \in Worker, WsSend(w) \/ PollRespond(w) PROVE Once'
  <2> DEFINE c == job[w].child
  <2>1. /\ job[w].pc = "claimed" /\ c \in Child
        /\ sends' = [sends EXCEPT ![c] = sends[c] + 1]
        /\ job' = [job EXCEPT ![w] = IdleJob]
    BY <1>0, <1>2 DEF WsSend, PollRespond
  <2>2. sends[c] = 0 /\ child[c].delivery = "CLAIMED"
    BY <2>1 DEF Once
  <2>3. \A v \in Worker : job'[v].pc = "claimed" => v # w /\ job'[v] = job[v] /\ job[v].child # c
    BY <1>0, <2>1 DEF Once, IdleJob
  <2>4. sends'[c] = 1 /\ \A d \in Child : d # c => sends'[d] = sends[d]
    BY <1>0, <2>1, <2>2
  <2> HIDE DEF c
  <2>5. sends' # sends
    BY <2>1, <2>2, <2>4
  <2>6. \A v \in Worker : ~CommitClaim(v)
    BY <2>5 DEF CommitClaim
  <2>7. \A d \in Child : child'[d].delivery = "CLAIMED" <=> child[d].delivery = "CLAIMED"
    BY <2>6, ClaimsStay DEF Claims
  <2>8. \A d \in Child : sends'[d] <= 1 /\ (child'[d].delivery # "CLAIMED" => sends'[d] = 0)
    BY <2>1, <2>2, <2>4, <2>7 DEF Once
  <2>9. \A v \in Worker : job'[v].pc = "claimed" =>
           child'[job'[v].child].delivery = "CLAIMED" /\ sends'[job'[v].child] = 0
    BY <1>0, <2>3, <2>4, <2>7 DEF Once
  <2>10. \A u, v \in Worker :
           job'[u].pc = "claimed" /\ job'[v].pc = "claimed" /\ job'[u].child = job'[v].child => u = v
    BY <2>3 DEF Once
  <2> QED
    BY <2>8, <2>9, <2>10 DEF Once
<1> DEFINE Quiet == /\ sends' = sends
                    /\ \A w \in Worker : job'[w].pc = "claimed" => job'[w] = job[w]
<1>3. ASSUME UNCHANGED <<job, sends>> PROVE Quiet
  BY <1>3
<1>4. ASSUME NEW v \in Worker, NEW c \in Child, NEW a \in Agent, Pick(v, c, a) PROVE Quiet
  BY <1>0, <1>4 DEF Pick
<1>5. ASSUME NEW v \in Worker, LockClaim(v) PROVE Quiet
  <2>1. job[v].pc = "picked" /\ sends' = sends
    BY <1>5 DEF LockClaim
  <2>2. job'[v].pc \in {"locked", "idle"}
    BY <1>0, <1>5 DEF LockClaim, IdleJob, Jobs
  <2>3. \A w \in Worker : w # v => job'[w] = job[w]
    BY <1>0, <1>5 DEF LockClaim
  <2> QED
    BY <2>1, <2>2, <2>3
<1>6. ASSUME NEW v \in Worker, PollSignFails(v) \/ AbortJob(v) PROVE Quiet
  <2>1. sends' = sends /\ job' = [job EXCEPT ![v] = IdleJob]
    BY <1>6 DEF PollSignFails, AbortJob
  <2> QED
    BY <1>0, <2>1 DEF IdleJob
<1>7. ASSUME \/ \E plan \in SUBSET Child : Seal(plan)
             \/ Pause \/ Resume \/ Sweep \/ Tick \/ UNCHANGED vars
             \/ \E c \in Child, a \in Agent, outcome \in TerminalStatus : HandleResult(c, a, outcome)
             \/ \E k \in Coordinator : ScanRead(k) \/ ScanWrite(k) \/ AbortScan(k)
             \/ \E a \in Agent : Revoke(a)
      PROVE  UNCHANGED <<job, sends>>
  BY <1>7 DEF Seal, Pause, Resume, Sweep, Tick, vars, HandleResult, ScanRead, ScanWrite, AbortScan, Revoke
<1> HIDE DEF Quiet
<1>8. ASSUME \A w \in Worker : ~CommitClaim(w) /\ ~WsSend(w) /\ ~PollRespond(w) PROVE Quiet
  BY <1>3, <1>4, <1>5, <1>6, <1>7, <1>8 DEF Next
<1>9. ASSUME \A w \in Worker : ~CommitClaim(w) /\ ~WsSend(w) /\ ~PollRespond(w) PROVE Once'
  BY <1>8, <1>9, OnceKept DEF Quiet
<1> QED
  BY <1>1, <1>2, <1>9

LEMMA InitOnce == Init => Once
  BY DEF Init, Once, IdleJob

LEMMA OnceAlways == Spec => [](Flight /\ Once)
<1>1. Init => Flight /\ Once
  BY FlightInductive, InitOnce
<1>2. Flight /\ Once /\ [Next]_vars => (Flight /\ Once)'
  BY FlightInductive, OnceStep
<1> QED
  BY <1>1, <1>2, PTL DEF Spec

\* _send_one, claim_for_longpoll: a child leaves at most once, whatever dies,
\* fails or is resumed: the claim of a child is never given back.
THEOREM OneCopy == Spec => []ChildSentOnce
<1>1. Once => ChildSentOnce
  BY DEF Once, ChildSentOnce
<1> QED
  BY <1>1, OnceAlways, PTL

-----------------------------------------------------------------------------
(* What a child shows, and what its command came to *)

\* A child has a command from its claim on, of the same deadline, and shows what
\* became of it.
Truth(ch, r) ==
    /\ r.status = "ABSENT" <=> ch.delivery # "CLAIMED"
    /\ IsOpen(r) => r.ttl = ch.ttl
    /\ ch.outcome = "SUCCEEDED" <=> r.status = "COMPLETED"
    /\ ch.outcome = "FAILED" => r.status = "FAILED"
    /\ ch.outcome # "UNOBSERVED" => ch.delivery = "CLAIMED"
Truthful == \A c \in Child : Truth(child[c], row[c])

LEMMA ProjectionTruth ==
    ASSUME NEW ch \in Children, NEW r \in Rows, Truth(ch, r),
           NEW seen \in Observable \cup {"none"}
    PROVE  /\ seen # "none" => Truth(Projected(ch, r, seen), r)
           /\ Truth(Reconciled(ch, r, seen), r)
<1>1. ASSUME seen # "none" PROVE Truth(Projected(ch, r, seen), r) /\ Projected(ch, r, seen) \in Children
  <2>1. CASE r.status = seen /\ ch.outcome \in {"UNOBSERVED", "UNKNOWN"}
    <3>1. seen \in {"COMPLETED", "FAILED", "TIMEOUT"} /\ ch.delivery = "CLAIMED"
      BY <1>1, <2>1 DEF Observable, TerminalStatus, Truth
    <3>2. [ch EXCEPT !.outcome = OutcomeOf(seen)].outcome = OutcomeOf(seen)
          /\ [ch EXCEPT !.outcome = OutcomeOf(seen)].delivery = "CLAIMED"
      BY <3>1 DEF Children
    <3>3. Truth([ch EXCEPT !.outcome = OutcomeOf(seen)], r)
      BY <2>1, <3>1, <3>2 DEF Truth, OutcomeOf
    <3> QED
      BY <3>3, OutcomeTypes DEF Projected
  <2>2. CASE ~(r.status = seen /\ ch.outcome \in {"UNOBSERVED", "UNKNOWN"})
    BY <2>2 DEF Projected
  <2> QED
    BY <2>1, <2>2
<1>2. ASSUME NEW x \in Children, Truth(x, r), Lapsed(x)
      PROVE  Truth([x EXCEPT !.outcome = "UNKNOWN"], r)
  BY <1>2 DEF Lapsed, Truth, Children
<1> QED
  BY <1>1, <1>2 DEF Reconciled

\* The one step that changes a result's row shows it at once.
LEMMA ResultTruth ==
    ASSUME NEW ch \in Children, NEW r \in Rows, Truth(ch, r), CanMarkTerminal(r, TRUE),
           NEW outcome \in TerminalStatus
    PROVE  /\ Truth(Projected(ch, MarkTerminal(r, outcome), outcome), MarkTerminal(r, outcome))
           /\ outcome = "FAILED" => Truth(ch, MarkTerminal(r, outcome))
<1>0. MarkTerminal(r, outcome).status = outcome
  BY DEF MarkTerminal, Rows
<1>1. MarkTerminal(r, outcome).status = outcome /\ outcome \in {"COMPLETED", "FAILED"}
  BY <1>0 DEF TerminalStatus
<1>2. r.status \in {"PENDING", "DISPATCHED", "TIMEOUT"}
  BY DEF CanMarkTerminal, IsOpen, OpenStatus
<1>3. ch.delivery = "CLAIMED" /\ ch.outcome \in {"UNOBSERVED", "UNKNOWN"}
  BY <1>2 DEF Truth, Children, Outcomes
<1>4. Projected(ch, MarkTerminal(r, outcome), outcome) = [ch EXCEPT !.outcome = OutcomeOf(outcome)]
  BY <1>1, <1>3 DEF Projected
<1>5. /\ [ch EXCEPT !.outcome = OutcomeOf(outcome)].outcome = OutcomeOf(outcome)
      /\ [ch EXCEPT !.outcome = OutcomeOf(outcome)].delivery = "CLAIMED"
  BY <1>3 DEF Children
<1>6. OutcomeOf(outcome) = IF outcome = "COMPLETED" THEN "SUCCEEDED" ELSE "FAILED"
  BY <1>1 DEF OutcomeOf
<1>7. Truth([ch EXCEPT !.outcome = OutcomeOf(outcome)], MarkTerminal(r, outcome))
  BY <1>1, <1>5, <1>6 DEF Truth, IsOpen, OpenStatus
<1>8. outcome = "FAILED" => Truth(ch, MarkTerminal(r, outcome))
  BY <1>1, <1>3 DEF Truth, IsOpen, OpenStatus
<1> QED
  BY <1>4, <1>7, <1>8

LEMMA TruthStep == Flight /\ Truthful /\ [Next]_vars => Truthful'
<1> SUFFICES ASSUME Flight, Truthful, [Next]_vars, NEW c \in Child
             PROVE  Truth(child'[c], row'[c])
  BY DEF Truthful
<1> DEFINE Goal == Truth(child'[c], row'[c])
<1>0. /\ child \in [Child -> Children] /\ row \in [Child -> Rows] /\ Truth(child[c], row[c])
      /\ child[c] \in Children /\ row[c] \in Rows
  BY DEF Flight, TypeOK, Truthful
<1>1. ASSUME UNCHANGED <<child, row>> PROVE Goal
  BY <1>0, <1>1
<1>2. ASSUME NEW plan \in SUBSET Child, Seal(plan) PROVE Goal
  <2>1. /\ child[c].delivery = "ABSENT" /\ row' = row
        /\ child'[c].delivery # "CLAIMED" /\ child'[c].outcome = "UNOBSERVED"
    BY <1>2 DEF Seal, AbsentChild, Flight, UnsealedEmpty
  <2> QED
    BY <1>0, <2>1 DEF Truth, IsOpen, OpenStatus
<1>3. ASSUME NEW w \in Worker, CommitClaim(w) PROVE Goal
  <2>1. CASE job[w].child = c /\ StillPending(c)
    <3>1. child'[c] = [delivery |-> "CLAIMED", outcome |-> "UNOBSERVED", ttl |-> ClaimWindow]
          /\ row'[c] = ChildCommand(job[w].agent)
      BY <1>0, <1>3, <2>1 DEF CommitClaim
    <3>2. row'[c].status = "DISPATCHED" /\ row'[c].ttl = ClaimWindow
      BY <3>1 DEF ChildCommand, Inserted
    <3> QED
      BY <3>1, <3>2 DEF Truth
  <2>2. CASE job[w].child # c \/ ~StillPending(c)
    <3>1. child'[c] = child[c] /\ row'[c] = row[c]
      BY <1>0, <1>3, <2>2 DEF CommitClaim
    <3> QED
      BY <1>0, <3>1
  <2> QED
    BY <2>1, <2>2
<1>4. ASSUME NEW d \in Child, NEW a \in Agent, NEW outcome \in TerminalStatus, HandleResult(d, a, outcome)
      PROVE  Goal
  <2>1. CASE d = c
    <3>1. /\ CanMarkTerminal(row[c], TRUE) /\ row'[c] = MarkTerminal(row[c], outcome)
          /\ child'[c] = Projected(child[c], row'[c], outcome)
      BY <1>0, <1>4, <2>1 DEF HandleResult
    <3> QED
      BY <1>0, <3>1, ResultTruth
  <2>2. CASE d # c
    BY <1>0, <1>4, <2>2 DEF HandleResult
  <2> QED
    BY <2>1, <2>2
<1>5. ASSUME NEW w \in Worker, PollRespond(w) \/ PollSignFails(w) PROVE Goal
  <2>1. row'[c] = row[c] \/ (CanMarkTerminal(row[c], TRUE) /\ row'[c] = MarkTerminal(row[c], "FAILED"))
    BY <1>0, <1>5 DEF PollRespond, PollSignFails
  <2>2. "FAILED" \in TerminalStatus /\ MarkTerminal(row[c], "FAILED") \in Rows
    BY <1>0, RowTypes DEF TerminalStatus
  <2>3. Truth(child[c], row'[c]) /\ row'[c] \in Rows
    BY <1>0, <2>1, <2>2, ResultTruth
  <2>4. TypeOK /\ TypeOK' /\ ProjectOldest
    BY <1>5, TypeStep DEF Flight, PollRespond, PollSignFails
  <2>5. row' \in [Child -> Rows]
    BY <2>4 DEF TypeOK
  <2>6. \/ child' = child
        \/ \E d \in Child :
              /\ Projectable(child[d], row'[d])
              /\ child' = [child EXCEPT ![d] = Projected(child[d], row'[d], row'[d].status)]
    BY <2>4, <2>5, ProjectOldestMoves
  <2>7. \/ child'[c] = child[c]
        \/ /\ Projectable(child[c], row'[c])
           /\ child'[c] = Projected(child[c], row'[c], row'[c].status)
    BY <1>0, <2>6
  <2>8. ASSUME Projectable(child[c], row'[c])
        PROVE  Truth(Projected(child[c], row'[c], row'[c].status), row'[c])
    <3>1. row'[c].status \in Observable /\ row'[c].status # "none"
      BY <2>8 DEF Projectable, Observable, TerminalStatus
    <3> QED
      BY <1>0, <2>3, <3>1, ProjectionTruth
  <2> QED
    BY <2>3, <2>7, <2>8
<1>6. ASSUME NEW k \in Coordinator, ScanWrite(k) PROVE Goal
  <2>1. scan[k].seen[c] \in Observable \cup {"none"}
    BY DEF Flight, TypeOK, Scans
  <2>2. child'[c] = Reconciled(child[c], row[c], scan[k].seen[c]) /\ row' = row
    BY <1>6 DEF ScanWrite
  <2> QED
    BY <1>0, <2>1, <2>2, ProjectionTruth
<1>7. ASSUME Sweep PROVE Goal
  <2>1. child' = child
        /\ (row'[c] = row[c] \/ (IsOpen(row[c]) /\ row'[c] = Expire(row[c])))
    BY <1>7 DEF Sweep, CanExpire
  <2>2. ASSUME IsOpen(row[c]) PROVE Truth(child[c], Expire(row[c]))
    BY <1>0, <2>2 DEF IsOpen, OpenStatus, Expire, Rows, Truth
  <2> QED
    BY <1>0, <2>1, <2>2
<1>8. ASSUME Tick PROVE Goal
  <2>1. child'[c] = [child[c] EXCEPT !.ttl = Sooner(child[c].ttl)] /\ row'[c] = Aged(row[c])
    BY <1>8 DEF Tick
  <2>2. child'[c].delivery = child[c].delivery /\ child'[c].outcome = child[c].outcome
    BY <1>0, <2>1 DEF Children
  <2>3. row'[c].status = row[c].status
    BY <1>0, <2>1 DEF Aged, Rows
  <2>4. ASSUME IsOpen(row'[c]) PROVE row'[c].ttl = child'[c].ttl
    <3>1. IsOpen(row[c]) /\ row[c].ttl = child[c].ttl
      BY <1>0, <2>3, <2>4 DEF IsOpen, Truth
    <3>2. child'[c].ttl = Sooner(child[c].ttl)
      BY <1>0, <2>1 DEF Children
    <3>3. row'[c].ttl = IF row[c].ttl > 0 THEN row[c].ttl - 1 ELSE 0
      BY <1>0, <2>1, <3>1 DEF Aged, Rows
    <3> QED
      BY <3>1, <3>2, <3>3 DEF Sooner
  <2> QED
    BY <1>0, <2>2, <2>3, <2>4 DEF Truth
<1>9. ASSUME \/ Pause \/ Resume \/ UNCHANGED vars
             \/ \E w \in Worker, d \in Child, a \in Agent : Pick(w, d, a)
             \/ \E w \in Worker : LockClaim(w) \/ WsSend(w) \/ AbortJob(w)
             \/ \E k \in Coordinator : ScanRead(k) \/ AbortScan(k)
             \/ \E a \in Agent : Revoke(a)
      PROVE  UNCHANGED <<child, row>>
  BY <1>9 DEF Pause, Resume, vars, Pick, LockClaim, WsSend, AbortJob, ScanRead, AbortScan, Revoke
<1> HIDE DEF Goal
<1>10. Goal
  BY <1>1, <1>2, <1>3, <1>4, <1>5, <1>6, <1>7, <1>8, <1>9 DEF Next
<1> QED
  BY <1>10 DEF Goal

LEMMA TruthAlways == Spec => []Truthful
<1>1. Init => Truthful
  BY DEF Init, AbsentChild, AbsentRow, Truthful, Truth, IsOpen, OpenStatus
<1> QED
  BY <1>1, TruthStep, FlightAlways, PTL DEF Spec

\* Every variable keeps its type, a child has a command from its claim on, and an
\* open command and its child run out together (claim_child).
THEOREM AlwaysWellFormed == Spec => []WellFormed
<1>1. Flight /\ Truthful => WellFormed
  BY DEF Flight, Truthful, Truth, WellFormed, CommandMatches
<1> QED
  BY <1>1, FlightAlways, TruthAlways, PTL

\* reconcile_command_outcomes, handle_result: what a child shows is what its
\* command came to, at every moment and however late the agent answers.
THEOREM OutcomesTruthful == Spec => []OutcomeTruthful
<1>1. Truthful => OutcomeTruthful
  BY DEF Truthful, Truth, OutcomeTruthful
<1> QED
  BY <1>1, TruthAlways, PTL

-----------------------------------------------------------------------------
(* The contract *)

FateMap == [c \in Child |-> FateOf(child[c])]

\* Success is the agent's, and the agent of a child that never left is not heard.
Sent == \A c \in Child : row[c].status = "COMPLETED" => sends[c] > 0

LEMMA SentBefore ==
    ASSUME Flight, Sent, [Next]_vars, NEW c \in Child, row'[c].status = "COMPLETED"
    PROVE  sends[c] > 0
<1>0. row \in [Child -> Rows] /\ row[c] \in Rows
  BY DEF Flight, TypeOK
<1> DEFINE Kept == row'[c].status = row[c].status \/ row'[c].status # "COMPLETED"
<1>1. ASSUME Kept PROVE sends[c] > 0
  BY <1>1 DEF Sent
<1>2. ASSUME NEW d \in Child, NEW a \in Agent, NEW outcome \in TerminalStatus, HandleResult(d, a, outcome)
      PROVE  sends[c] > 0
  <2>1. CASE d = c
    BY <1>2, <2>1 DEF HandleResult
  <2>2. CASE d # c
    <3>1. row'[c] = row[c]
      BY <1>0, <1>2, <2>2 DEF HandleResult
    <3> QED
      BY <1>1, <3>1
  <2> QED
    BY <2>1, <2>2
<1>3. ASSUME NEW w \in Worker, CommitClaim(w) PROVE Kept
  <2>1. row'[c] = row[c] \/ row'[c] = ChildCommand(job[w].agent)
    BY <1>0, <1>3 DEF CommitClaim
  <2>2. ChildCommand(job[w].agent).status = "DISPATCHED"
    BY DEF ChildCommand, Inserted
  <2> QED
    BY <2>1, <2>2
<1>4. ASSUME NEW w \in Worker, PollSignFails(w) PROVE Kept
  <2>1. row'[c] = row[c] \/ row'[c] = MarkTerminal(row[c], "FAILED")
    BY <1>0, <1>4 DEF PollSignFails
  <2>2. MarkTerminal(row[c], "FAILED").status = "FAILED"
    BY <1>0 DEF MarkTerminal, Rows
  <2> QED
    BY <2>1, <2>2
<1>5. ASSUME Sweep PROVE Kept
  <2>1. row'[c] = row[c] \/ row'[c] = Expire(row[c])
    BY <1>5 DEF Sweep
  <2>2. Expire(row[c]).status = "TIMEOUT"
    BY <1>0 DEF Expire, Rows
  <2> QED
    BY <2>1, <2>2
<1>6. ASSUME Tick PROVE Kept
  BY <1>0, <1>6 DEF Tick, Aged, Rows
<1>7. ASSUME \/ Pause \/ Resume \/ UNCHANGED vars
             \/ \E plan \in SUBSET Child : Seal(plan)
             \/ \E w \in Worker, d \in Child, a \in Agent : Pick(w, d, a)
             \/ \E w \in Worker : LockClaim(w) \/ WsSend(w) \/ PollRespond(w) \/ AbortJob(w)
             \/ \E k \in Coordinator : ScanRead(k) \/ ScanWrite(k) \/ AbortScan(k)
             \/ \E a \in Agent : Revoke(a)
      PROVE  Kept
  BY <1>7 DEF Pause, Resume, vars, Seal, Pick, LockClaim, WsSend, PollRespond, AbortJob,
              ScanRead, ScanWrite, AbortScan, Revoke
<1> HIDE DEF Kept
<1> QED
  BY <1>1, <1>2, <1>3, <1>4, <1>5, <1>6, <1>7 DEF Next

\* A step leaves the copies alone or is the one that sends a child.
LEMMA CopiesMove ==
    ASSUME [Next]_vars
    PROVE  sends' = sends \/ \E w \in Worker : WsSend(w) \/ PollRespond(w)
BY DEF Next, vars, Seal, Pause, Resume, Pick, LockClaim, CommitClaim, PollSignFails, AbortJob,
       HandleResult, ScanRead, ScanWrite, AbortScan, Revoke, Sweep, Tick

LEMMA SentStep == Flight /\ Sent /\ [Next]_vars => Sent'
<1> SUFFICES ASSUME Flight, Sent, [Next]_vars, NEW c \in Child, row'[c].status = "COMPLETED"
             PROVE  sends'[c] > 0
  BY DEF Sent
<1>1. sends[c] > 0 /\ sends \in [Child -> Nat]
  BY SentBefore DEF Flight, TypeOK
<1>2. sends'[c] = sends[c] \/ sends'[c] = sends[c] + 1
  BY <1>1, CopiesMove DEF WsSend, PollRespond
<1> QED
  BY <1>1, <1>2

Seen == Flight /\ Once /\ Truthful /\ Sent

LEMMA SeenInductive == (Init => Seen) /\ (Seen /\ [Next]_vars => Seen')
<1>1. Init => Truthful /\ Sent
  BY DEF Init, AbsentChild, AbsentRow, Truthful, Truth, Sent
<1> QED
  BY <1>1, FlightInductive, InitOnce, OnceStep, TruthStep, SentStep DEF Seen

\* Where no child is sealed or claimed, something is learned of them or nothing.
LEMMA LearnedStep ==
    ASSUME Seen, Seen', [Next]_vars,
           \A c \in Child : child'[c].delivery = child[c].delivery
    PROVE  Contract!Learned
<1>1. FateMap' \in [Child -> Contract!Fates]
  <2>1. \A c \in Child : child'[c] \in Children
    BY DEF Seen, Flight, TypeOK
  <2>2. \A ch \in Children : FateOf(ch) \in Contract!Fates
    BY DEF FateOf, Children, Delivery, Outcomes, Contract!Fates, Contract!Ends
  <2> QED
    BY <2>1, <2>2 DEF FateMap
<1>2. ASSUME NEW c \in Child, FateOf(child'[c]) # FateOf(child[c])
      PROVE  /\ \/ /\ FateOf(child[c]) = "UNOBSERVED"
                   /\ FateOf(child'[c]) \in Contract!Ends \cup {"UNKNOWN"}
                \/ FateOf(child[c]) = "UNKNOWN" /\ FateOf(child'[c]) \in Contract!Ends
             /\ FateOf(child'[c]) = "SUCCEEDED" => sends[c] > 0
  <2>1. child[c] \in Children /\ child'[c] \in Children /\ TypeOK /\ Busy /\ Truth(child[c], row[c])'
    BY DEF Seen, Flight, TypeOK, Truthful
  <2>2. child[c].delivery = "CLAIMED" /\ child'[c].delivery = "CLAIMED"
    BY <1>2 DEF FateOf
  <2>3. FateOf(child[c]) = child[c].outcome /\ FateOf(child'[c]) = child'[c].outcome
    BY <2>2 DEF FateOf
  <2>4. Refines(child[c].outcome, child'[c].outcome)
    BY <2>1, <2>2, ChildMoves DEF Claims
  <2>5. child'[c].outcome = "SUCCEEDED" => row'[c].status = "COMPLETED"
    BY <2>1 DEF Truth
  <2>6. child'[c].outcome \in Outcomes
    BY <2>1 DEF Children
  <2>7. child'[c].outcome = "SUCCEEDED" => sends[c] > 0
    BY <2>5, SentBefore DEF Seen
  <2> QED
    BY <1>2, <2>3, <2>4, <2>6, <2>7 DEF Refines, Outcomes, Contract!Ends
<1> QED
  BY <1>1, <1>2 DEF Contract!Learned, FateMap

\* The contract counts as its implementation does.
LEMMA SameCount == \A S : Contract!Cardinality(S) = Cardinality(S)
BY DEF Cardinality, Contract!Cardinality

\* The commit of a claim is the claim: what was checked when the lock was taken
\* is still so.
LEMMA ClaimImplements ==
    ASSUME Seen, NEW w \in Worker, CommitClaim(w)
    PROVE  Contract!Claim(job[w].child) \/ UNCHANGED Contract!contractVars
<1> PICK c \in Child : c = job[w].child
  BY DEF Seen, Flight, Busy, CommitClaim
<1>0. child \in [Child -> Children] /\ control' = control /\ sends' = sends
  BY DEF Seen, Flight, TypeOK, CommitClaim, parentVars
<1>1. CASE child[c].delivery = "PENDING"
  <2>1. control = "RUNNING" /\ Cardinality(Unobserved) < MaxInFlight
    BY BulkAssumption DEF CommitClaim, Seen, Flight, Locking
  <2>2. /\ FateOf(child'[c]) = "UNOBSERVED"
        /\ \A d \in Child : d # c => child'[d] = child[d]
    BY <1>0, <1>1 DEF CommitClaim, StillPending, FateOf
  <2>3. FateMap' = [FateMap EXCEPT ![c] = "UNOBSERVED"]
    BY <2>2 DEF FateMap
  <2>4. {d \in Child : FateMap[d] = "UNOBSERVED"} = Unobserved
    <3>1. \A ch \in Children : FateOf(ch) = "UNOBSERVED" <=> ch.delivery = "CLAIMED" /\ ch.outcome = "UNOBSERVED"
      BY DEF FateOf, Children, Delivery
    <3>2. \A d \in Child : FateMap[d] = FateOf(child[d]) /\ child[d] \in Children
      BY <1>0 DEF FateMap
    <3> QED
      BY <3>1, <3>2 DEF Unobserved
  <2>5. FateMap[c] = "PENDING"
    BY <1>1 DEF FateMap, FateOf
  <2> QED
    BY <1>0, <2>1, <2>3, <2>4, <2>5, SameCount DEF Contract!Claim, FateMap
<1>2. CASE child[c].delivery # "PENDING"
  <2>1. child' = child
    BY <1>2 DEF CommitClaim, StillPending
  <2> QED
    BY <1>0, <2>1 DEF Contract!contractVars
<1> QED
  BY <1>1, <1>2

LEMMA LeaveImplements ==
    ASSUME Seen, Seen', [Next]_vars, NEW w \in Worker, WsSend(w) \/ PollRespond(w)
    PROVE  Contract!Leave(job[w].child)
<1> PICK c \in Child : c = job[w].child
  BY DEF Seen, Flight, Busy, WsSend, PollRespond
<1>1. /\ job[w].pc = "claimed" /\ control' = control
      /\ sends' = [sends EXCEPT ![c] = sends[c] + 1]
  BY DEF WsSend, PollRespond, parentVars
<1>2. child[c].delivery = "CLAIMED" /\ sends[c] = 0
  BY <1>1 DEF Seen, Once
<1>3. TypeOK /\ Busy /\ TypeOK'
  BY DEF Seen, Flight
<1>4. \A d \in Child : child'[d].delivery = child[d].delivery
  <2>1. CASE WsSend(w)
    BY <2>1 DEF WsSend
  <2>2. CASE PollRespond(w)
    <3>1. row' \in [Child -> Rows] /\ ProjectOldest
      BY <1>3, <2>2 DEF PollRespond, TypeOK
    <3>2. \/ child' = child
          \/ \E d \in Child : child' = [child EXCEPT ![d] = Projected(child[d], row'[d], row'[d].status)]
      BY <1>3, <3>1, ProjectOldestMoves
    <3> QED
      BY <1>3, <3>2, ProjectionRefines DEF TypeOK
  <2> QED
    BY <2>1, <2>2
<1>5. Contract!Learned
  BY <1>4, LearnedStep
<1>6. FateMap[c] \notin {"ABSENT", "PENDING"}
  <2>1. child[c].outcome \in Outcomes
    BY <1>3 DEF TypeOK, Children
  <2> QED
    BY <1>2, <2>1 DEF FateMap, FateOf, Outcomes
<1>7. sends' = [sends EXCEPT ![c] = 1]
  BY <1>1, <1>2
<1> QED
  BY <1>1, <1>2, <1>5, <1>6, <1>7 DEF Contract!Leave, FateMap

LEMMA SealImplements ==
    ASSUME NEW plan \in SUBSET Child, Seal(plan)
    PROVE  Contract!Seal(plan)
<1>1. FateMap' = [c \in Child |-> IF c \in plan THEN "PENDING" ELSE "ABSENT"]
  BY DEF Seal, FateMap, FateOf, AbsentChild
<1> QED
  BY <1>1 DEF Seal, Contract!Seal, FateMap

LEMMA SteerImplements ==
    ASSUME Pause \/ Resume
    PROVE  Contract!Steer
BY DEF Pause, Resume, Contract!Steer

\* Everything else learns something of the children, or nothing: only a tick of
\* the coordinator may block the request meanwhile.
LEMMA ObserveImplements ==
    ASSUME Seen, Seen', [Next]_vars,
           \A w \in Worker : ~CommitClaim(w) /\ ~WsSend(w) /\ ~PollRespond(w),
           \A plan \in SUBSET Child : ~Seal(plan),
           ~Pause, ~Resume
    PROVE  Contract!Observe
<1>0. TypeOK /\ Busy
  BY DEF Seen, Flight
<1>1. sends' = sends
  BY CopiesMove
<1>2. \/ control' = control
      \/ \E k \in Coordinator : ScanWrite(k) /\ MustBlock /\ control' = "BLOCKED"
  BY DEF Next, vars, parentVars, Pick, LockClaim, PollSignFails, AbortJob, HandleResult, ScanRead,
         ScanWrite, AbortScan, Revoke, Sweep, Tick
<1>3. control' = "RUNNING" => control = "RUNNING"
  BY <1>2 DEF MustBlock
<1>4. \A c \in Child : child'[c].delivery = child[c].delivery
  <2>1. \A w \in Worker, c \in Child : ~Claims(w, c)
    BY DEF Claims
  <2> QED
    BY <1>0, <1>3, <2>1, ChildMoves
<1>5. Contract!Learned
  BY <1>4, LearnedStep
<1>6. MustBlock => control = "RUNNING" /\ \E c \in Child : FateMap[c] = "PENDING"
  BY DEF MustBlock, Pending, FateMap, FateOf
<1> QED
  BY <1>1, <1>2, <1>5, <1>6 DEF Contract!Observe, FateMap

\* create_bulk_retry_request to reconcile_command_outcomes: what replicas, polls
\* and coordinators do together is what one of them would do that claims in one
\* step, sends once and only ever learns more.
THEOREM BulkImplementsContract == Spec => ImplementsContract
<1>1. Init => Contract!Init
  <2>1. Init => FateMap = [c \in Child |-> "ABSENT"]
    BY DEF Init, FateMap, FateOf, AbsentChild
  <2> QED
    BY <2>1 DEF Init, Contract!Init, FateMap
<1>2. ASSUME Seen, Seen', [Next]_vars PROVE [Contract!Next]_(Contract!contractVars)
  <2>1. CASE \E w \in Worker : CommitClaim(w)
    <3>1. \A w \in Worker : CommitClaim(w) => job[w].child \in Child
      BY <1>2 DEF Seen, Flight, Busy, CommitClaim
    <3> QED
      BY <1>2, <2>1, <3>1, ClaimImplements DEF Contract!Next
  <2>2. CASE \E w \in Worker : WsSend(w) \/ PollRespond(w)
    <3>1. \A w \in Worker : WsSend(w) \/ PollRespond(w) => job[w].child \in Child
      BY <1>2 DEF Seen, Flight, Busy, WsSend, PollRespond
    <3> QED
      BY <1>2, <2>2, <3>1, LeaveImplements DEF Contract!Next
  <2>3. CASE \E plan \in SUBSET Child : Seal(plan)
    BY <2>3, SealImplements DEF Contract!Next
  <2>4. CASE Pause \/ Resume
    BY <2>4, SteerImplements DEF Contract!Next
  <2> QED
    BY <1>2, <2>1, <2>2, <2>3, <2>4, ObserveImplements DEF Contract!Next
<1>3. (Init => Seen) /\ (Seen /\ [Next]_vars => Seen')
  BY SeenInductive
<1>4. Seen /\ Seen' /\ [Next]_vars => [Contract!Next]_(Contract!contractVars)
  BY <1>2
<1> QED
  BY <1>1, <1>3, <1>4, PTL DEF Spec, ImplementsContract, Contract!Spec
===============================================================================
