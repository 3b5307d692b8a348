------------------------ MODULE CadenceContractProofs -------------------------
(***************************************************************************)
(* CadenceControl implements ScheduleContract, for any schedulers,         *)
(* cadences and bounds.                                                    *)
(***************************************************************************)
EXTENDS CadenceControlProofs

FateMap == [s \in Slots |-> Fate(s)]

-----------------------------------------------------------------------------
(* What the mapping needs of a state, beyond IInv *)

\* A slot is accepted under one receipt, so its fate is the one key's.
OneKey == \A k, l \in Key : Accepted(k) /\ Accepted(l) /\ k.slot = l.slot => k = l

\* The row's acceptance is that of an accepted occurrence.
AcceptanceKnown ==
    row.acceptance.token = None
    \/ \E k \in Key :
          /\ Accepted(k)
          /\ row.acceptance = [slot |-> k.slot, token |-> k.token, revision |-> fire[k].revision]

\* Only an accepted occurrence is held.
HoldsAccepted == \A k \in OpenHolds : Accepted(k)

Mapped == OneKey /\ AcceptanceKnown /\ HoldsAccepted

LEMMA InitMapped == Init => Mapped
BY DEF Init, Mapped, OneKey, AcceptanceKnown, HoldsAccepted, OpenHolds, Accepted, NoAcceptance

\* Steps that accept nothing keep it.
LEMMA StaysMapped ==
  ASSUME Mapped, row'.acceptance = row.acceptance,
         \A k \in Key : /\ Accepted(k)' <=> Accepted(k)
                        /\ fire'[k].revision = fire[k].revision
                        /\ hold'[k] = "open" => hold[k] = "open" \/ Accepted(k)
  PROVE  Mapped'
<1>1. OneKey'
  BY DEF Mapped, OneKey
<1>2. AcceptanceKnown'
  BY DEF Mapped, AcceptanceKnown
<1>3. HoldsAccepted'
  BY DEF Mapped, HoldsAccepted, OpenHolds
<1> QED
  BY <1>1, <1>2, <1>3 DEF Mapped

-----------------------------------------------------------------------------
(* The fate of a slot *)

\* A slot has the fate of the one key it was accepted under.
LEMMA FateAt == OneKey => \A k \in Key : Accepted(k) => Fate(k.slot) = FateOf(k)
<1> SUFFICES ASSUME OneKey, NEW k \in Key, Accepted(k) PROVE Fate(k.slot) = FateOf(k)
  OBVIOUS
<1>1. KeysAt(k.slot) = {k}
  BY DEF KeysAt, OneKey
<1>2. (CHOOSE l \in {k} : TRUE) = k
  OBVIOUS
<1> QED
  BY <1>1, <1>2 DEF Fate

LEMMA FateNext == OneKey' => \A k \in Key : Accepted(k)' => Fate(k.slot)' = FateOf(k)'
<1> SUFFICES ASSUME OneKey', NEW k \in Key, Accepted(k)' PROVE Fate(k.slot)' = FateOf(k)'
  OBVIOUS
<1>1. KeysAt(k.slot)' = {k}
  BY DEF KeysAt, OneKey
<1>2. (CHOOSE l \in {k} : TRUE) = k
  OBVIOUS
<1> QED
  BY <1>1, <1>2 DEF Fate

LEMMA FateNone == \A s \in Slots : (\A k \in Key : Accepted(k) => k.slot # s) => Fate(s) = "none"
BY DEF Fate, KeysAt

\* What the fate of an accepted occurrence says of its command and buffer.
LEMMA FateValues == IInv => \A k \in Key :
    /\ command[k] = "pending" \/ k \in pending => FateOf(k) = "held"
    /\ command[k] = "dispatched" => FateOf(k) = "sent"
    /\ command[k] = "completed" => FateOf(k) = "done"
    /\ command[k] \in Unsuccessful <=> FateOf(k) = "failed"
    /\ command[k] = "none" /\ k \notin pending => FateOf(k) = "dropped"
<1> SUFFICES ASSUME IInv, NEW k \in Key
             PROVE  /\ command[k] = "pending" \/ k \in pending => FateOf(k) = "held"
                    /\ command[k] = "dispatched" => FateOf(k) = "sent"
                    /\ command[k] = "completed" => FateOf(k) = "done"
                    /\ command[k] \in Unsuccessful <=> FateOf(k) = "failed"
                    /\ command[k] = "none" /\ k \notin pending => FateOf(k) = "dropped"
  OBVIOUS
<1>1. command[k] \in CommandStates /\ (k \in pending => command[k] = "none")
  BY DEF IInv, TypeOK, OracleInv
<1>2. CASE k \in pending
  BY <1>1, <1>2 DEF FateOf, Unsuccessful
<1>3. CASE k \notin pending
  BY <1>1, <1>3 DEF FateOf, CommandStates, Outstanding, Terminal, Unsuccessful
<1> QED
  BY <1>2, <1>3

LEMMA FateValuesNext == IInv' => \A k \in Key :
    /\ command'[k] = "pending" \/ k \in pending' => FateOf(k)' = "held"
    /\ command'[k] = "dispatched" => FateOf(k)' = "sent"
    /\ command'[k] = "completed" => FateOf(k)' = "done"
    /\ command'[k] \in Unsuccessful <=> FateOf(k)' = "failed"
    /\ command'[k] = "none" /\ k \notin pending' => FateOf(k)' = "dropped"
<1> SUFFICES ASSUME IInv', NEW k \in Key
             PROVE  /\ command'[k] = "pending" \/ k \in pending' => FateOf(k)' = "held"
                    /\ command'[k] = "dispatched" => FateOf(k)' = "sent"
                    /\ command'[k] = "completed" => FateOf(k)' = "done"
                    /\ command'[k] \in Unsuccessful <=> FateOf(k)' = "failed"
                    /\ command'[k] = "none" /\ k \notin pending' => FateOf(k)' = "dropped"
  OBVIOUS
<1>1. command'[k] \in CommandStates /\ (k \in pending' => command'[k] = "none")
  BY DEF IInv, TypeOK, OracleInv
<1>2. CASE k \in pending'
  BY <1>1, <1>2 DEF FateOf, Unsuccessful
<1>3. CASE k \notin pending'
  BY <1>1, <1>3 DEF FateOf, CommandStates, Outstanding, Terminal, Unsuccessful
<1> QED
  BY <1>2, <1>3

\* A step moves the fate of at most one slot.
LEMMA FateMoves ==
  ASSUME OneKey, OneKey', NEW k \in Key, Accepted(k)',
         \A l \in Key : l # k => /\ Accepted(l)' <=> Accepted(l)
                                 /\ Accepted(l) => FateOf(l)' = FateOf(l)
  PROVE  FateMap' = [FateMap EXCEPT ![k.slot] = FateOf(k)']
<1>1. \A l \in Key : Accepted(l) => Fate(l.slot) = FateOf(l)
  BY FateAt
<1>2. \A l \in Key : Accepted(l)' => Fate(l.slot)' = FateOf(l)'
  BY FateNext
<1>3. \A s \in Slots : (\A l \in Key : Accepted(l)' => l.slot # s) => Fate(s)' = "none"
  BY DEF Fate, KeysAt
<1>4. Fate(k.slot)' = FateOf(k)'
  BY <1>2
<1>5. ASSUME NEW s \in Slots, s # k.slot PROVE Fate(s)' = Fate(s)
  <2>1. CASE \E l \in Key : l.slot = s /\ Accepted(l)
    BY <1>1, <1>2, <1>5, <2>1
  <2>2. CASE \A l \in Key : Accepted(l) => l.slot # s
    BY <1>3, <1>5, <2>2, FateNone
  <2> QED
    BY <2>1, <2>2
<1> QED
  BY <1>4, <1>5, KeyOf DEF FateMap

LEMMA FateStays ==
  ASSUME OneKey, OneKey',
         \A l \in Key : /\ Accepted(l)' <=> Accepted(l)
                        /\ Accepted(l) => FateOf(l)' = FateOf(l)
  PROVE  FateMap' = FateMap
<1>1. \A l \in Key : Accepted(l) => Fate(l.slot) = FateOf(l)
  BY FateAt
<1>2. \A l \in Key : Accepted(l)' => Fate(l.slot)' = FateOf(l)'
  BY FateNext
<1>3. \A s \in Slots : (\A l \in Key : Accepted(l)' => l.slot # s) => Fate(s)' = "none"
  BY DEF Fate, KeysAt
<1>4. ASSUME NEW s \in Slots PROVE Fate(s)' = Fate(s)
  <2>1. CASE \E l \in Key : l.slot = s /\ Accepted(l)
    BY <1>1, <1>2, <2>1
  <2>2. CASE \A l \in Key : Accepted(l) => l.slot # s
    BY <1>3, <2>2, FateNone
  <2> QED
    BY <2>1, <2>2
<1> QED
  BY <1>4 DEF FateMap

\* While the schedule is enabled, its latest occurrence has not failed.
LEMMA NotStopped ==
  ASSUME IInv, Mapped, EffectivelyEnabled
  PROVE  ~Contract!Stopped
<1> SUFFICES ASSUME LatestSlot \in Slots, Fate(LatestSlot) = "failed" PROVE FALSE
  BY DEF Contract!Stopped
<1>1. row.acceptance.token = row.token /\ row.acceptance.slot = LatestSlot /\ row.present
  BY BoundAssumption DEF LatestSlot, Slots, None
<1>2. row.token # None
  BY BoundAssumption DEF IInv, CursorInv, Tokens, None
<1>3. PICK k \in Key :
         /\ Accepted(k)
         /\ row.acceptance = [slot |-> k.slot, token |-> k.token, revision |-> fire[k].revision]
  BY <1>1, <1>2 DEF Mapped, AcceptanceKnown
<1>4. Latest(k) /\ k.slot = LatestSlot
  BY <1>1, <1>3 DEF Latest
<1>5. Fate(k.slot) = FateOf(k)
  BY <1>3, FateAt DEF Mapped
<1>6. command[k] \in Unsuccessful
  BY <1>4, <1>5, FateValues
<1> QED
  BY <1>4, <1>6 DEF IInv, FailureStops, EffectivelyEnabled

-----------------------------------------------------------------------------
(* Steps of the schedule *)

LEMMA LatestStays ==
  ASSUME Framed
  PROVE  LatestSlot' = LatestSlot
BY DEF Framed, LatestSlot

LEMMA LatestForgotten ==
  ASSUME IInv, Reminted \/ ~row'.present
  PROVE  LatestSlot' = None
BY RowFields DEF Reminted, LatestSlot, IInv, HistoryInv

\* Time, a refresh, a pause or a quarantine are invisible.
LEMMA Invisible ==
  ASSUME Mapped, Framed, row'.last = row.last, UNCHANGED <<command, pending, fire, hold>>
  PROVE  Mapped' /\ UNCHANGED Contract!contractVars
<1>1. Mapped'
  BY StaysMapped DEF Framed, Accepted
<1>2. FateMap' = FateMap
  BY <1>1, FateStays DEF Mapped, Accepted, FateOf
<1> QED
  BY <1>1, <1>2, LatestStays DEF Contract!contractVars, FateMap, Framed

LEMMA SkipMaps ==
  ASSUME IInv, Mapped, NEW s \in Scheduler, NEW slot \in Slots, Skip(s, slot)
  PROVE  Mapped' /\ Contract!PassOver(slot)
<1>1. Framed /\ row'.last = slot /\ slot > row.last
  BY SkipStep
<1>2. EffectivelyEnabled /\ UNCHANGED <<command, pending, fire, hold>>
  BY DEF Skip, workVars
<1>3. Mapped'
  BY <1>1, <1>2, StaysMapped DEF Framed, Accepted
<1>4. FateMap' = FateMap
  BY <1>2, <1>3, FateStays DEF Mapped, Accepted, FateOf
<1>5. ~Contract!Stopped
  BY <1>2, NotStopped
<1> QED
  BY <1>1, <1>2, <1>3, <1>4, <1>5, LatestStays
  DEF Contract!PassOver, FateMap, Framed, EffectivelyEnabled

LEMMA DecideMaps ==
  ASSUME IInv, Mapped,
         \/ \E en \in BOOLEAN, c \in Cadence : Update(en, c)
         \/ \E k \in Key, en \in BOOLEAN : Resolve(k, en)
  PROVE  Mapped' /\ Contract!Decide
<1>1. Reminted /\ row.present /\ row'.last = row.last
  <2>1. CASE \E en \in BOOLEAN, c \in Cadence : Update(en, c)
    BY <2>1, UpdateStep DEF Update, CanRotate, CanRevise
  <2>2. ASSUME NEW k \in Key, NEW en \in BOOLEAN, Resolve(k, en)
        PROVE  Reminted /\ row.present /\ row'.last = row.last
    <3>1. Reminted /\ row'.last >= row.last /\ (row'.last = row.last \/ row'.last = k.slot)
      BY <2>2, ResolveStep
    <3>2. row.present /\ Accepted(k)
      BY <2>2 DEF Resolve, CanRotate, CanRevise, Mapped, HoldsAccepted, OpenHolds
    <3>3. k.slot <= row.last /\ k.slot \in Nat /\ row.last \in Nat
      BY <3>2, KeyOf, RowFields DEF IInv, HistoryInv, Accepted
    <3> QED
      BY <3>1, <3>2, <3>3
  <2> QED
    BY <2>1, <2>2
<1>2. UNCHANGED <<command, pending, fire>> /\ \A k \in Key : hold'[k] = "open" => hold[k] = "open"
  BY DEF Update, Resolve, workVars, IInv, TypeOK
<1>3. Mapped'
  BY <1>1, <1>2, StaysMapped DEF Reminted, Accepted
<1>4. FateMap' = FateMap
  BY <1>2, <1>3, FateStays DEF Mapped, Accepted, FateOf
<1> QED
  BY <1>1, <1>3, <1>4, LatestForgotten DEF Contract!Decide, FateMap, Reminted, None

LEMMA AcceptMaps ==
  ASSUME IInv, IInv', Mapped, NEW s \in Scheduler, NEW slot \in Slots, Accept(s, slot)
  PROVE  Mapped' /\ Contract!Accept(slot)
<1>1. /\ EffectivelyEnabled /\ slot > row.last /\ [slot |-> slot, token |-> row.token] \in Key
      /\ row'.last = slot /\ row'.present = row.present /\ row'.token = row.token
      /\ row'.acceptance = [slot |-> slot, token |-> row.token, revision |-> row.revision + 1]
  BY AcceptStep
<1> PICK k \in Key : k = [slot |-> slot, token |-> row.token]
  BY <1>1
<1>2. \A l \in Key : Accepted(l) => l.slot <= row.last /\ l.slot # slot
  BY <1>1, KeyOf, RowFields DEF IInv, HistoryInv, Accepted
<1>3. /\ hold' = hold
      /\ \/ /\ command' = [command EXCEPT ![k] = "pending"]
            /\ fire' = [fire EXCEPT ![k] = [status |-> "accepted", revision |-> row.revision + 1]]
            /\ pending' = pending
         \/ /\ pending' = pending \cup {k}
            /\ fire' = [fire EXCEPT ![k] = [status |-> "buffered", revision |-> row.revision + 1]]
            /\ command' = command
  BY DEF Accept, Current
<1>4. /\ Accepted(k)' /\ fire'[k].revision = row.revision + 1
      /\ command'[k] = "pending" \/ k \in pending'
      /\ \A l \in Key : l # k => /\ Accepted(l)' <=> Accepted(l)
                                 /\ fire'[l] = fire[l] /\ command'[l] = command[l]
                                 /\ (l \in pending' <=> l \in pending)
  BY <1>1, <1>3 DEF Accepted, IInv, TypeOK
<1>5. OneKey'
  BY <1>1, <1>2, <1>4 DEF Mapped, OneKey
<1>6. AcceptanceKnown'
  BY <1>1, <1>4 DEF AcceptanceKnown
<1>7. HoldsAccepted'
  BY <1>3, <1>4 DEF Mapped, HoldsAccepted, OpenHolds
<1>8. FateMap' = [FateMap EXCEPT ![slot] = "held"]
  <2>0. \A l \in Key : l # k => FateOf(l)' = FateOf(l)
    BY <1>4 DEF FateOf
  <2>1. FateMap' = [FateMap EXCEPT ![k.slot] = FateOf(k)']
    <3>1. /\ OneKey /\ OneKey' /\ Accepted(k)'
          /\ \A l \in Key : l # k => /\ Accepted(l)' <=> Accepted(l)
                                     /\ Accepted(l) => FateOf(l)' = FateOf(l)
      BY <1>4, <1>5, <2>0 DEF Mapped
    <3> QED
      BY <3>1, FateMoves
  <2>2. FateOf(k)' = "held"
    BY <1>4, FateValuesNext
  <2> QED
    BY <2>1, <2>2
<1>9. LatestSlot' = slot
  BY <1>1 DEF LatestSlot, EffectivelyEnabled
<1>10. ~Contract!Stopped
  BY <1>1, NotStopped
<1> QED
  BY <1>1, <1>5, <1>6, <1>7, <1>8, <1>9, <1>10
  DEF Contract!Accept, FateMap, Mapped, EffectivelyEnabled

-----------------------------------------------------------------------------
(* Steps on the work of one accepted occurrence *)

\* Nothing but the occurrence k changes, and it was accepted before.
Touches(k) ==
    /\ Framed /\ row'.last = row.last
    /\ Accepted(k) /\ Accepted(k)'
    /\ \A l \in Key : /\ fire'[l].revision = fire[l].revision
                      /\ hold'[l] = "open" => hold[l] = "open" \/ l = k
                      /\ l # k => /\ fire'[l] = fire[l] /\ command'[l] = command[l]
                                  /\ (l \in pending' <=> l \in pending)

LEMMA WorkMaps ==
  ASSUME Mapped, NEW k \in Key, Touches(k)
  PROVE  /\ Mapped'
         /\ UNCHANGED <<row.last, row.present, LatestSlot>>
         /\ FateMap[k.slot] = FateOf(k)
         /\ FateMap' = [FateMap EXCEPT ![k.slot] = FateOf(k)']
<1>1. \A l \in Key : Accepted(l)' <=> Accepted(l)
  BY DEF Touches, Accepted
<1>2. Mapped'
  BY <1>1, StaysMapped DEF Touches, Framed
<1>3. \A l \in Key : l # k => FateOf(l)' = FateOf(l)
  BY DEF Touches, FateOf
<1>4. FateMap' = [FateMap EXCEPT ![k.slot] = FateOf(k)']
  BY <1>1, <1>2, <1>3, FateMoves DEF Mapped, Touches
<1>5. FateMap[k.slot] = FateOf(k)
  BY FateAt, KeyOf DEF FateMap, Mapped, Touches
<1> QED
  BY <1>2, <1>4, <1>5, LatestStays DEF Touches, Framed

LEMMA DeliveryMaps ==
  ASSUME IInv, IInv', Mapped, NEW k \in Key, Claim(k) \/ ReportSuccess(k)
  PROVE  Mapped' /\ [Contract!Next]_(Contract!contractVars)
<1>1. TypeOK /\ OracleInv
  BY DEF IInv
<1>2. Accepted(k)
  BY <1>1 DEF Claim, ReportSuccess, OracleInv, Accepted, Outstanding
<1>3. Touches(k)
  BY <1>1, <1>2 DEF Claim, ReportSuccess, Touches, Framed, Accepted, TypeOK
<1>4. k.slot \in Slots
  BY KeyOf
<1>5. CASE Claim(k)
  <2>1. command[k] = "pending" /\ command'[k] = "dispatched"
    BY <1>1, <1>5 DEF Claim, TypeOK
  <2>2. FateOf(k) = "held" /\ FateOf(k)' = "sent"
    BY <2>1, FateValues, FateValuesNext
  <2>3. Contract!Send(k.slot)
    BY <1>3, <2>2, WorkMaps DEF Contract!Send, FateMap
  <2> QED
    BY <1>3, <1>4, <2>3, WorkMaps DEF Contract!Next
<1>6. CASE ReportSuccess(k)
  <2>1. command[k] = "dispatched" /\ command'[k] = "completed"
    BY <1>1, <1>6 DEF ReportSuccess, TypeOK
  <2>2. FateOf(k) = "sent" /\ FateOf(k)' = "done"
    BY <2>1, FateValues, FateValuesNext
  <2>3. Contract!Succeed(k.slot)
    BY <1>3, <2>2, WorkMaps DEF Contract!Succeed, FateMap
  <2> QED
    BY <1>3, <1>4, <2>3, WorkMaps DEF Contract!Next
<1> QED
  BY <1>5, <1>6

LEMMA FailMaps ==
  ASSUME IInv, IInv', Mapped, NEW k \in Key, ReportFailure(k) \/ Expire(k)
  PROVE  Mapped' /\ [Contract!Next]_(Contract!contractVars)
<1>1. TypeOK /\ OracleInv
  BY DEF IInv
<1>2. PICK status \in Unsuccessful : Fail(k, status) /\ command[k] \in Outstanding
  BY DEF ReportFailure, Expire, Overdue, Outstanding, Unsuccessful
<1>3. Accepted(k)
  BY <1>1, <1>2 DEF OracleInv, Accepted, Outstanding
<1>4. Framed /\ row'.last = row.last
  BY OutcomeStep
<1>5. /\ command' = [command EXCEPT ![k] = status] /\ pending' = pending
      /\ fire' = [fire EXCEPT ![k].status = "terminal"]
      /\ hold' = hold \/ hold' = [hold EXCEPT ![k] = "open"]
  BY <1>2 DEF Fail, Stop
<1>6. Touches(k)
  BY <1>1, <1>3, <1>4, <1>5 DEF Touches, Accepted, TypeOK
<1>7. FateOf(k) \in {"held", "sent"} /\ FateOf(k)' = "failed"
  <2>1. FateOf(k) \in {"held", "sent"}
    BY <1>2, FateValues DEF Outstanding
  <2>2. command'[k] \in Unsuccessful
    BY <1>1, <1>5 DEF TypeOK
  <2> QED
    BY <2>1, <2>2, FateValuesNext
<1>8. Contract!Fail(k.slot)
  BY <1>6, <1>7, WorkMaps DEF Contract!Fail, FateMap
<1> QED
  BY <1>6, <1>8, KeyOf, WorkMaps DEF Contract!Next

\* A replay is invisible; a dropped buffer ends its occurrence.
LEMMA BufferMaps ==
  ASSUME IInv, IInv', Mapped, NEW k \in Key, Replay(k) \/ DropStale(k) \/ DropExpired(k)
  PROVE  Mapped' /\ [Contract!Next]_(Contract!contractVars)
<1>1. TypeOK /\ OracleInv
  BY DEF IInv
<1>2. k \in pending /\ command[k] = "none" /\ fire[k].status = "buffered" /\ Accepted(k)
  BY <1>1 DEF Replay, DropStale, DropExpired, OracleInv, Accepted
<1>3. Touches(k)
  BY <1>1, <1>2 DEF Replay, DropStale, DropExpired, Touches, Framed, Accepted, TypeOK
<1>4. FateOf(k) = "held"
  BY <1>2, FateValues
<1>5. CASE Replay(k)
  <2>1. command'[k] = "pending"
    BY <1>1, <1>5 DEF Replay, TypeOK
  <2>2. FateOf(k)' = "held"
    BY <2>1, FateValuesNext
  <2>3. FateMap' = FateMap
    BY <1>3, <1>4, <2>2, WorkMaps DEF FateMap
  <2> QED
    BY <1>3, <2>3, WorkMaps DEF Contract!contractVars, FateMap
<1>6. CASE DropStale(k) \/ DropExpired(k)
  <2>1. command'[k] = "none" /\ k \notin pending'
    BY <1>2, <1>6 DEF DropStale, DropExpired
  <2>2. FateOf(k)' = "dropped"
    BY <2>1, FateValuesNext
  <2>3. Contract!Drop(k.slot)
    BY <1>3, <1>4, <2>2, WorkMaps DEF Contract!Drop, FateMap
  <2> QED
    BY <1>3, <2>3, KeyOf, WorkMaps DEF Contract!Next
<1> QED
  BY <1>5, <1>6

LEMMA DeleteMaps ==
  ASSUME IInv, IInv', Mapped, Delete
  PROVE  Mapped' /\ Contract!Delete
<1>1. row'.last = row.last /\ ~row'.present /\ row.present
  BY DeleteStep DEF Delete, CanRevise
<1>2. /\ pending' = {} /\ UNCHANGED <<command, fire>>
      /\ \A k \in Key : hold'[k] = "open" => FALSE
      /\ row'.acceptance = row.acceptance
  BY RowFields DEF Delete, Revised, Rows, IInv
<1>3. Mapped'
  BY <1>2, StaysMapped DEF Accepted
<1> DEFINE D == {k \in Key : Accepted(k) /\ k \in pending}
           S == {k.slot : k \in D}
<1>4. S \in SUBSET {s \in Slots : FateMap[s] = "held"}
  <2> SUFFICES ASSUME NEW k \in D PROVE k.slot \in Slots /\ FateMap[k.slot] = "held"
    OBVIOUS
  <2>1. FateOf(k) = "held"
    BY FateValues
  <2> QED
    BY <2>1, FateAt, KeyOf DEF Mapped, FateMap
<1>5. FateMap' = [s \in Slots |-> IF s \in S THEN "dropped" ELSE FateMap[s]]
  <2>1. ASSUME NEW k \in Key, Accepted(k)
        PROVE  Fate(k.slot)' = IF k \in pending THEN "dropped" ELSE Fate(k.slot)
    <3>1. Fate(k.slot)' = FateOf(k)' /\ Fate(k.slot) = FateOf(k)
      BY <1>2, <1>3, <2>1, FateAt, FateNext DEF Mapped, Accepted
    <3>2. CASE k \in pending
      <4>1. command'[k] = "none" /\ k \notin pending'
        BY <1>2, <3>2 DEF IInv, OracleInv
      <4> QED
        BY <3>1, <3>2, <4>1, FateValuesNext
    <3>3. CASE k \notin pending
      BY <1>2, <3>1, <3>3 DEF FateOf
    <3> QED
      BY <3>2, <3>3
  <2>2. ASSUME NEW s \in Slots, \A k \in Key : Accepted(k) => k.slot # s
        PROVE  Fate(s)' = Fate(s)
    BY <1>2, <2>2 DEF Fate, KeysAt, Accepted
  <2>3. ASSUME NEW k \in Key, Accepted(k) PROVE k.slot \in S <=> k \in pending
    BY <2>3 DEF Mapped, OneKey
  <2>4. ASSUME NEW s \in Slots PROVE Fate(s)' = IF s \in S THEN "dropped" ELSE FateMap[s]
    <3>1. CASE \E k \in Key : Accepted(k) /\ k.slot = s
      <4> PICK k \in Key : Accepted(k) /\ k.slot = s
        BY <3>1
      <4> HIDE DEF S
      <4> QED
        BY <2>1, <2>3 DEF FateMap
    <3>2. CASE \A k \in Key : Accepted(k) => k.slot # s
      <4>1. s \notin S
        BY <3>2
      <4> QED
        BY <2>2, <3>2, <4>1 DEF FateMap
    <3> QED
      BY <3>1, <3>2
  <2> HIDE DEF S
  <2> QED
    BY <2>4 DEF FateMap
<1>6. LatestSlot' = 0
  BY <1>1, LatestForgotten DEF None
<1> HIDE DEF S
<1> QED
  BY <1>1, <1>3, <1>4, <1>5, <1>6 DEF Contract!Delete, FateMap

-----------------------------------------------------------------------------
(* Every step *)

LEMMA StepMaps ==
  ASSUME IInv, IInv', Mapped, [Next]_vars
  PROVE  Mapped' /\ [Contract!Next]_(Contract!contractVars)
<1>1. ASSUME UNCHANGED <<command, pending, fire, hold>>, Framed, row'.last = row.last
      PROVE  Mapped' /\ [Contract!Next]_(Contract!contractVars)
  BY <1>1, Invisible
<1>2. CASE UNCHANGED vars \/ TimeNext \/ \E s \in Scheduler : Refresh(s)
  BY <1>1, <1>2 DEF vars, TimeNext, Tick, Elapse, Refresh, workVars, Framed
<1>3. CASE (\E s \in Scheduler : Quarantine(s)) \/ (\E b \in BOOLEAN : SetPaused(b))
  <2>1. UNCHANGED <<command, pending, fire, hold>>
    BY <1>3 DEF Quarantine, SetPaused, workVars
  <2> QED
    BY <1>1, <1>3, <2>1, QuarantineOrPauseStep
<1>4. ASSUME NEW s \in Scheduler, NEW slot \in Slots, Accept(s, slot) \/ Skip(s, slot)
      PROVE  Mapped' /\ [Contract!Next]_(Contract!contractVars)
  BY <1>4, AcceptMaps, SkipMaps DEF Contract!Next
<1>5. CASE DeliveryNext \/ \E k \in Key : Expire(k)
  BY <1>5, DeliveryMaps, FailMaps DEF DeliveryNext
<1>6. CASE BufferNext
  BY <1>6, BufferMaps DEF BufferNext
<1>7. CASE Delete
  BY <1>7, DeleteMaps DEF Contract!Next
<1>8. CASE \/ \E en \in BOOLEAN, c \in Cadence : Update(en, c)
           \/ \E k \in Key, en \in BOOLEAN : Resolve(k, en)
  BY <1>8, DecideMaps DEF Contract!Next
<1> QED
  BY <1>2, <1>3, <1>4, <1>5, <1>6, <1>7, <1>8
  DEF Next, OthersNext, SchedulerNext, OperatorNext

LEMMA AlwaysMapped == Spec => [](IInv /\ Mapped)
<1>1. Init => IInv /\ Mapped
  BY InitInv, InitMapped
<1>2. IInv /\ Mapped /\ [Next]_vars => (IInv /\ Mapped)'
  BY NextInv, StutterInv, StepMaps
<1> QED
  BY <1>1, <1>2, PTL DEF Spec

\* The receipts, snapshots, commands and buffers of a schedule are invisible
\* behind the contract: every transaction of accept_fire, advance_cursor, a
\* replay, a result, a deadline or an operator is a step of the contract of its
\* occurrences, or changes nothing the contract speaks of.
THEOREM ScheduleImplementsContract == Spec => ImplementsContract
<1>1. Init => Contract!Init
  <2> SUFFICES ASSUME Init PROVE Contract!Init
    OBVIOUS
  <2>1. \A s \in Slots : Fate(s) = "none"
    BY FateNone DEF Init, Accepted
  <2>2. row.last = 0 /\ row.present /\ LatestSlot = 0
    BY DEF Init, LatestSlot, NoAcceptance, None
  <2> QED
    BY <2>1, <2>2 DEF Contract!Init
<1>2. IInv /\ IInv' /\ Mapped /\ [Next]_vars => [Contract!Next]_(Contract!contractVars)
  BY StepMaps
<1> QED
  BY <1>1, <1>2, AlwaysMapped, PTL DEF Spec, ImplementsContract, Contract!Spec
=============================================================================
