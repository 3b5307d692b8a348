-------------------------- MODULE CadenceSweepProofs --------------------------
(***************************************************************************)
(* What CadenceControl guarantees, it guarantees under the ticks of the    *)
(* timeout worker too: they list without a lock and expire from the list.  *)
(***************************************************************************)
EXTENDS CadenceSweep, CadenceContractProofs

\* A tick touches a schedule only by the expiries of its list.
LEMMA WorkerStep ==
  ASSUME WorkerNext
  PROVE  UNCHANGED vars \/ \E k \in Key : k \in todo /\ Expire(k)
BY DEF WorkerNext, ListOverdue, SweepOrdinary, Crash, PassOver, ExpireListed, Raise

LEMMA SweepStep ==
  ASSUME [SweepNext]_sweepVars
  PROVE  [Next]_vars
<1>1. CASE WorkerNext
  BY <1>1, WorkerStep DEF Next
<1>2. CASE OrdinaryNext \/ UNCHANGED sweepVars
  BY <1>2 DEF OrdinaryNext, sweepVars
<1>3. CASE OthersNext
  BY <1>3 DEF Next
<1> QED
  BY <1>1, <1>2, <1>3 DEF SweepNext

\* The worker adds no transition of its own to a schedule: whatever it lists, and
\* wherever it raises or dies, a schedule takes the steps CadenceControl gives it.
THEOREM SweepIsControl == SweepSpec => Spec
<1>1. SweepInit => Init
  BY DEF SweepInit
<1>2. [SweepNext]_sweepVars => [Next]_vars
  BY SweepStep
<1> QED
  BY <1>1, <1>2, PTL DEF SweepSpec, Spec

\* So the contract of the occurrences of a schedule holds under the worker.
THEOREM SweepKeepsContract == SweepSpec => ImplementsContract
BY SweepIsControl, ScheduleImplementsContract

-----------------------------------------------------------------------------
(* The tick *)

\* Where a tick is and what it has still to do agree: it never carries
\* candidates from one tick to the next, though it may raise or die in between.
THEOREM SweepTypeCorrect == SweepSpec => []SweepTypeOK
<1>1. SweepInit => SweepTypeOK
  BY DEF SweepInit, SweepTypeOK
<1>2. SweepTypeOK /\ [SweepNext]_sweepVars => SweepTypeOK'
  <2> SUFFICES ASSUME SweepTypeOK, [SweepNext]_sweepVars PROVE SweepTypeOK'
    OBVIOUS
  <2>1. CASE WorkerNext
    BY <2>1 DEF WorkerNext, ListOverdue, SweepOrdinary, Crash, PassOver, ExpireListed, Raise,
                SweepTypeOK
  <2>2. CASE OrdinaryNext
    BY <2>2 DEF OrdinaryNext, SweepTypeOK
  <2>3. CASE OthersNext /\ UNCHANGED <<stage, todo, ordinary>>
    BY <2>3 DEF SweepTypeOK
  <2>4. CASE UNCHANGED sweepVars
    BY <2>4 DEF SweepTypeOK, sweepVars
  <2> QED
    BY <2>1, <2>2, <2>3, <2>4 DEF SweepNext
<1> QED
  BY <1>1, <1>2, PTL DEF SweepSpec

-----------------------------------------------------------------------------
(* Holds *)

\* An open hold is of a failed occurrence, which is the latest for as long as
\* the receipt it was opened under is in force.
HoldInv ==
    \A h \in OpenHolds :
        /\ command[h] \in Unsuccessful
        /\ row.present
        /\ h.token <= row.token
        /\ h.token = row.token => Latest(h)

\* Steps that open no hold and accept nothing keep it.
LEMMA HoldsStay ==
  ASSUME IInv, HoldInv, Framed \/ Reminted,
         \A h \in Key : hold'[h] = "open" =>
            /\ hold[h] = "open"
            /\ command'[h] = command[h] /\ fire'[h].revision = fire[h].revision
  PROVE  HoldInv'
<1> SUFFICES ASSUME NEW h \in Key, hold'[h] = "open"
             PROVE  /\ command'[h] \in Unsuccessful
                    /\ row'.present
                    /\ h.token <= row'.token
                    /\ h.token = row'.token => Latest(h)'
  BY DEF HoldInv, OpenHolds
<1>1. /\ command[h] \in Unsuccessful /\ row.present /\ h.token <= row.token
      /\ h.token = row.token => Latest(h)
  BY DEF HoldInv, OpenHolds
<1>2. row.token \in Nat /\ h.token \in Nat
  BY KeyOf, RowFields DEF IInv
<1>3. CASE Framed
  BY <1>1, <1>3 DEF Framed, Latest
<1>4. CASE Reminted
  BY <1>1, <1>2, <1>4 DEF Reminted
<1> QED
  BY <1>3, <1>4

\* A schedule is disabled under the receipt of an open hold, so an acceptance
\* comes after a rotation.
LEMMA HoldsAccept ==
  ASSUME IInv, HoldInv, NEW s \in Scheduler, NEW slot \in Slots, Accept(s, slot)
  PROVE  HoldInv'
<1>1. /\ EffectivelyEnabled /\ row'.present = row.present /\ row'.token = row.token
      /\ \A l \in Key : command'[l] # command[l] => l.token = row.token
  BY AcceptStep
<1>2. hold' = hold
  BY DEF Accept
<1>3. \A h \in OpenHolds : h.token # row.token
  BY <1>1 DEF HoldInv, IInv, FailureStops, EffectivelyEnabled, OpenHolds
<1> QED
  BY <1>1, <1>2, <1>3 DEF HoldInv, OpenHolds

LEMMA HoldsFail ==
  ASSUME IInv, HoldInv, NEW k \in Key, ReportFailure(k) \/ Expire(k)
  PROVE  HoldInv'
<1>1. PICK status \in Unsuccessful : Fail(k, status)
  BY DEF ReportFailure, Expire, Unsuccessful
<1>2. command[k] \in Outstanding
  BY DEF ReportFailure, Expire, Overdue, Outstanding
<1>3. Framed /\ TypeOK
  BY OutcomeStep DEF IInv
<1>4. /\ command'[k] = status
      /\ \A l \in Key : l # k => command'[l] = command[l]
      /\ \A l \in Key : fire'[l].revision = fire[l].revision
  BY <1>1, <1>3 DEF Fail, TypeOK
<1>5. \A h \in OpenHolds : h # k
  BY <1>2 DEF HoldInv, Outstanding, Unsuccessful
<1>6. CASE Latest(k)
  <2>1. \A h \in Key : hold'[h] = "open" => h = k
    BY <1>1, <1>3, <1>6 DEF Fail, Stop, Blocked, OpenHolds, TypeOK
  <2>2. Latest(k)' /\ row'.present /\ row'.token = k.token
    BY <1>3, <1>4, <1>6 DEF Latest, Framed
  <2>3. k.token <= row'.token
    BY <2>2, KeyOf
  <2> QED
    BY <1>1, <1>4, <2>1, <2>2, <2>3 DEF HoldInv, OpenHolds
<1>7. CASE ~Latest(k)
  <2>1. hold' = hold
    BY <1>1, <1>7 DEF Fail, Stop
  <2> QED
    BY <1>3, <1>4, <1>5, <2>1, HoldsStay DEF OpenHolds
<1> QED
  BY <1>6, <1>7

\* Of the work of an occurrence that is delivered, answered or dropped none failed.
LEMMA HoldsWork ==
  ASSUME IInv, HoldInv, NEW k \in Key,
         \/ Claim(k) \/ ReportSuccess(k)
         \/ Replay(k) \/ DropStale(k) \/ DropExpired(k)
  PROVE  HoldInv'
<1>1. TypeOK /\ OracleInv
  BY DEF IInv
<1>2. command[k] \notin Unsuccessful
  BY <1>1 DEF Claim, ReportSuccess, Replay, DropStale, DropExpired, OracleInv, Unsuccessful
<1>3. /\ UNCHANGED <<row, hold>>
      /\ \A l \in Key : l # k => command'[l] = command[l]
      /\ \A l \in Key : fire'[l].revision = fire[l].revision
  BY <1>1 DEF Claim, ReportSuccess, Replay, DropStale, DropExpired, TypeOK
<1>4. Framed
  BY <1>3 DEF Framed
<1>5. \A h \in OpenHolds : h # k
  BY <1>2 DEF HoldInv
<1> QED
  BY <1>3, <1>4, <1>5, HoldsStay DEF OpenHolds

LEMMA HoldsNext ==
  ASSUME IInv, HoldInv, [Next]_vars
  PROVE  HoldInv'
<1>0. TypeOK
  BY DEF IInv
<1>1. ASSUME UNCHANGED <<command, fire, hold>>, Framed \/ Reminted PROVE HoldInv'
  BY <1>1, HoldsStay
<1>2. CASE UNCHANGED vars \/ TimeNext \/ \E s \in Scheduler : Refresh(s)
  BY <1>1, <1>2 DEF vars, TimeNext, Tick, Elapse, Refresh, workVars, Framed
<1>3. CASE \E s \in Scheduler, slot \in Slots : Accept(s, slot)
  BY <1>3, HoldsAccept
<1>4. CASE \E s \in Scheduler, slot \in Slots : Skip(s, slot)
  BY <1>1, <1>4, SkipStep DEF Skip, workVars
<1>5. CASE (\E s \in Scheduler : Quarantine(s)) \/ (\E b \in BOOLEAN : SetPaused(b))
  <2>1. UNCHANGED <<command, fire, hold>>
    BY <1>5 DEF Quarantine, SetPaused, workVars
  <2> QED
    BY <1>1, <1>5, <2>1, QuarantineOrPauseStep
<1>6. CASE \E en \in BOOLEAN, c \in Cadence : Update(en, c)
  BY <1>1, <1>6, UpdateStep DEF Update, workVars
<1>7. ASSUME NEW k \in Key, NEW en \in BOOLEAN, Resolve(k, en) PROVE HoldInv'
  <2>1. UNCHANGED <<command, fire>> /\ \A h \in Key : hold'[h] = "open" => hold[h] = "open"
    BY <1>0, <1>7 DEF Resolve, TypeOK
  <2> QED
    BY <1>7, <2>1, ResolveStep, HoldsStay
<1>8. CASE Delete
  BY <1>8 DEF Delete, HoldInv, OpenHolds
<1>9. CASE DeliveryNext \/ BufferNext \/ \E k \in Key : Expire(k)
  BY <1>9, HoldsWork, HoldsFail DEF DeliveryNext, BufferNext
<1> QED
  BY <1>2, <1>3, <1>4, <1>5, <1>6, <1>7, <1>8, <1>9
  DEF Next, OthersNext, SchedulerNext, OperatorNext

LEMMA AlwaysHold == Spec => [](IInv /\ HoldInv)
<1>1. Init => IInv /\ HoldInv
  BY InitInv DEF Init, HoldInv, OpenHolds
<1>2. IInv /\ HoldInv /\ [Next]_vars => (IInv /\ HoldInv)'
  BY NextInv, StutterInv, HoldsNext
<1> QED
  BY <1>1, <1>2, PTL DEF Spec

\* A tick of the worker can be bound to raise only if an operator has gone on
\* past an open hold: the receipt it was opened under is no longer in force.
THEOREM OnlyOperatorWedges == SweepSpec => []WedgedByOperator
<1>1. IInv /\ HoldInv => WedgedByOperator
  <2> SUFFICES ASSUME IInv, HoldInv, NEW k \in Key, Overdue(k), Blocked(k), NEW h \in OpenHolds
               PROVE  h # k /\ h.token < row.token
    BY DEF WedgedByOperator
  <2>1. h # k
    BY DEF HoldInv, Overdue, Outstanding, Unsuccessful
  <2>2. Latest(k) /\ h \in Key
    BY DEF Blocked, OpenHolds
  <2>3. h.token # row.token
    <3> SUFFICES ASSUME h.token = row.token PROVE FALSE
      OBVIOUS
    <3>1. Latest(h)
      BY DEF HoldInv
    <3>2. h.slot = k.slot /\ h.token = k.token
      BY <2>2, <3>1 DEF Latest
    <3> QED
      BY <2>1, <2>2, <3>2, KeyOf
  <2>4. h.token \in Nat /\ row.token \in Nat /\ h.token <= row.token
    BY <2>2, KeyOf, RowFields DEF HoldInv, IInv
  <2> QED
    BY <2>1, <2>3, <2>4
<1> QED
  BY <1>1, SweepIsControl, AlwaysHold, PTL
=============================================================================
