------------------------- MODULE CadenceControlProofs -------------------------
(***************************************************************************)
(* The safety properties of CadenceControl, for any schedulers, cadences   *)
(* and bounds.                                                             *)
(***************************************************************************)
EXTENDS CadenceControl, TLAPS, WellFoundedInduction

(***************************************************************************)
(* A cadence has a first occurrence after a slot, if it has any: Successor *)
(* chooses something.                                                      *)
(***************************************************************************)
Less == {ss \in Nat \X Nat : ss[1] < ss[2]}

LEMMA LessWellFounded == IsWellFoundedOn(Less, Nat)
  BY NatLessThanWellFounded DEF OpToRel, Less

LEMMA LeastExists ==
  ASSUME NEW T \in SUBSET Nat, T # {}
  PROVE  \E o \in T : \A p \in T : o <= p
<1>1. PICK o \in T : \A p \in T : ~(<<p, o>> \in Less)
  BY LessWellFounded, WFMin
<1>2. \A p \in T : ~(p < o)
  BY <1>1 DEF Less
<1> QED
  BY <1>2

LEMMA SuccessorLater ==
  ASSUME NEW c \in Cadence, NEW s \in Nat
  PROVE  /\ Successor(c, s) \in Slots \cup {None}
         /\ Successor(c, s) = None \/ Successor(c, s) > s
<1>1. Later(c, s) \in SUBSET Nat /\ Later(c, s) \subseteq Slots
  <2>1. c \subseteq Slots /\ Slots \subseteq Nat
    BY CadenceAssumption, BoundAssumption DEF Slots
  <2> QED
    BY <2>1 DEF Later
<1>2. CASE Later(c, s) = {}
  BY <1>2 DEF Successor, None
<1>3. CASE Later(c, s) # {}
  <2>1. Successor(c, s) \in Later(c, s)
    BY <1>1, <1>3, LeastExists DEF Successor
  <2> QED
    BY <2>1, <1>1 DEF Later, Slots
<1> QED
  BY <1>2, <1>3

-----------------------------------------------------------------------------
(* The inductive invariant *)

\* The next slot lies behind the last one, and the token in force was minted.
CursorInv ==
    /\ row.token \in Tokens
    /\ row.next = None \/ row.next > row.last

\* Everything accepted lies at or before the last slot; the latest acceptance
\* is not under a token still to come.
HistoryInv ==
    /\ \A a \in envelopes : a.slot <= row.last
    /\ \A k \in Key : fire[k].status # "none" => k.slot <= row.last
    /\ row.acceptance.token <= row.token
    /\ pending # {} => row.present
    /\ row.quarantined => ~row.enabled

\* OneOracle, and a fire history for every command.
OracleInv ==
    \A k \in Key :
       /\ k \in pending => command[k] = "none" /\ fire[k].status = "buffered"
       /\ fire[k].status = "buffered" /\ row.present => k \in pending
       /\ fire[k].status = "accepted" <=> command[k] \in Outstanding
       /\ fire[k].status = "terminal" <=> command[k] \in Terminal

IInv == TypeOK /\ CursorInv /\ HistoryInv /\ OracleInv /\ AcceptedOnce /\ FailureStops /\ OneOpenHold

\* What an occurrence looks like, before a slot is accepted.
LEMMA Fresh ==
  ASSUME IInv, NEW k \in Key, k.slot > row.last
  PROVE  fire[k].status = "none" /\ command[k] = "none" /\ k \notin pending
<1>1. fire[k].status = "none"
  BY BoundAssumption DEF IInv, HistoryInv, TypeOK, Rows, Key, Slots
<1>2. command[k] \in CommandStates
  BY DEF IInv, TypeOK
<1> QED
  BY <1>1, <1>2 DEF IInv, OracleInv, CommandStates

LEMMA KeyOf ==
  ASSUME NEW k \in Key
  PROVE  /\ k = [slot |-> k.slot, token |-> k.token]
         /\ k.slot \in Slots /\ k.token \in Tokens /\ k.slot \in Nat /\ k.slot > 0 /\ k.token \in Nat /\ k.token > 0
BY BoundAssumption DEF Key, Slots, Tokens

LEMMA RowFields ==
  ASSUME TypeOK
  PROVE  /\ row.present \in BOOLEAN /\ row.enabled \in BOOLEAN /\ row.paused \in BOOLEAN
         /\ row.quarantined \in BOOLEAN /\ row.token \in Nat /\ row.revision \in Nat
         /\ row.cadence \in Cadence /\ row.last \in Nat /\ row.next \in Nat
         /\ row.acceptance \in Acceptances
         /\ row.acceptance.token \in Nat
         /\ row \in Rows
BY BoundAssumption DEF TypeOK, Rows, Acceptances, Tokens, None

\* What a transition leaves of the row.
Same(q, r) ==
    /\ q.present = r.present /\ q.paused = r.paused /\ q.cadence = r.cadence
    /\ q.acceptance = r.acceptance

LEMMA RevisedRow ==
  ASSUME NEW r \in Rows
  PROVE  /\ Revised(r) \in Rows /\ Same(Revised(r), r)
         /\ Revised(r).enabled = r.enabled /\ Revised(r).quarantined = r.quarantined
         /\ Revised(r).token = r.token
         /\ Revised(r).last = r.last /\ Revised(r).next = r.next
BY DEF Rows, Revised, Same

LEMMA RotatedRow ==
  ASSUME NEW r \in Rows
  PROVE  /\ Rotated(r) \in Rows /\ Same(Rotated(r), r)
         /\ Rotated(r).enabled = r.enabled /\ ~Rotated(r).quarantined
         /\ Rotated(r).token = r.token + 1
         /\ Rotated(r).last = r.last /\ Rotated(r).next = r.next
<1> DEFINE q == Revised(r)
<1>1. q \in Rows /\ Same(q, r) /\ q.enabled = r.enabled /\ q.token = r.token
      /\ q.last = r.last /\ q.next = r.next
  BY RevisedRow
<1>2. Rotated(r) = [q EXCEPT !.token = @ + 1, !.quarantined = FALSE]
  BY DEF Rotated
<1> DEFINE w == Rotated(r)
<1>3. /\ w.present = q.present /\ w.paused = q.paused /\ w.cadence = q.cadence
      /\ w.acceptance = q.acceptance /\ w.enabled = q.enabled /\ w.quarantined = FALSE
      /\ w.token = q.token + 1 /\ w.last = q.last /\ w.next = q.next
  <2> HIDE DEF q
  <2> QED
    BY <1>1, <1>2 DEF Rows
<1>4. w \in Rows
  <2> HIDE DEF q
  <2>1. q.token + 1 \in Nat
    BY <1>1 DEF Rows
  <2>2. w = [q EXCEPT !.token = q.token + 1, !.quarantined = FALSE]
    BY <1>1, <1>2 DEF Rows
  <2> HIDE DEF w
  <2> QED
    BY <1>1, <2>1, <2>2 DEF Rows
<1> HIDE DEF q, w
<1>5. w \in Rows /\ Same(w, r) /\ w.enabled = r.enabled /\ ~w.quarantined
      /\ w.token = r.token + 1 /\ w.last = r.last /\ w.next = r.next
  BY <1>1, <1>3, <1>4 DEF Same
<1> QED
  BY <1>5 DEF w

LEMMA InitInv == Init => IInv
<1> SUFFICES ASSUME Init PROVE IInv
  OBVIOUS
<1> PICK c \in Cadence, en \in BOOLEAN :
          row = [present |-> TRUE, enabled |-> en, paused |-> FALSE, quarantined |-> FALSE,
                 token |-> 1, revision |-> 1, cadence |-> c, last |-> None,
                 next |-> IF en THEN Successor(c, 0) ELSE None, acceptance |-> NoAcceptance]
  BY DEF Init
<1>1. Successor(c, 0) \in Nat /\ (Successor(c, 0) = None \/ Successor(c, 0) > 0)
  BY SuccessorLater, BoundAssumption DEF Slots, None
<1>2. row \in Rows
  BY <1>1 DEF Rows, None, NoAcceptance, Acceptances
<1>3. view \in [Scheduler -> Views]
  BY <1>2 DEF Init, Views, Snapshot, Rows
<1>4. TypeOK
  <2>1. /\ command \in [Key -> CommandStates]
        /\ fire \in [Key -> [status : FireStates, revision : Nat]]
        /\ hold \in [Key -> {"none", "open", "skipped", "deleted"}]
    BY DEF Init, CommandStates, FireStates, None
  <2>2. pending = {} /\ envelopes = {} /\ due = {} /\ now \in 0 .. MaxSlot
    BY BoundAssumption DEF Init
  <2> QED
    BY <1>2, <1>3, <2>1, <2>2 DEF TypeOK
<1>5. CursorInv
  BY <1>1, BoundAssumption DEF CursorInv, Tokens, None
<1>6. HistoryInv
  BY DEF HistoryInv, Init, NoAcceptance, None
<1>7. OracleInv
  BY DEF OracleInv, Init, Outstanding, Terminal, Unsuccessful
<1>8. AcceptedOnce /\ OneOpenHold
  BY DEF AcceptedOnce, OneOpenHold, OpenHolds, Init
<1>9. FailureStops
  BY DEF FailureStops, Init, Unsuccessful
<1> QED
  BY <1>4, <1>5, <1>6, <1>7, <1>8, <1>9 DEF IInv

-----------------------------------------------------------------------------
(* Steps that leave the work alone *)

LEMMA IdleSteps ==
  ASSUME IInv, UNCHANGED <<row, command, pending, fire, hold, envelopes>>,
         view' \in [Scheduler -> Views], due' \subseteq Key, now' \in 0 .. MaxSlot
  PROVE  IInv'
<1>1. TypeOK'
  BY DEF IInv, TypeOK
<1>2. CursorInv' /\ HistoryInv' /\ OracleInv'
  BY DEF IInv, CursorInv, HistoryInv, OracleInv
<1>3. AcceptedOnce' /\ OneOpenHold' /\ FailureStops'
  BY DEF IInv, AcceptedOnce, OneOpenHold, OpenHolds, FailureStops, Latest
<1> QED
  BY <1>1, <1>2, <1>3 DEF IInv

LEMMA SnapshotType ==
  ASSUME NEW r \in Rows
  PROVE  Snapshot(r) \in Views
BY DEF Snapshot, Views, Rows

LEMMA TimeAndRefresh ==
  ASSUME IInv, Tick \/ (\E k \in Key : Elapse(k)) \/ (\E s \in Scheduler : Refresh(s))
  PROVE  IInv'
<1>1. CASE Tick
  <2>1. now' \in 0 .. MaxSlot
    BY <1>1, BoundAssumption DEF Tick, IInv, TypeOK
  <2> QED
    BY <1>1, <2>1, IdleSteps DEF Tick, workVars, IInv, TypeOK
<1>2. CASE \E k \in Key : Elapse(k)
  BY <1>2, IdleSteps DEF Elapse, IInv, TypeOK
<1>3. CASE \E s \in Scheduler : Refresh(s)
  <2> PICK s \in Scheduler : Refresh(s)
    BY <1>3
  <2>1. view' \in [Scheduler -> Views]
    BY SnapshotType DEF Refresh, IInv, TypeOK
  <2> QED
    BY <2>1, IdleSteps DEF Refresh, workVars, IInv, TypeOK
<1> QED
  BY <1>1, <1>2, <1>3

\* A step that changes the row and no work: no occurrence becomes the latest, and
\* the schedule is not enabled under a token in force.
LEMMA RowSteps ==
  ASSUME IInv, UNCHANGED <<command, pending, fire, envelopes, now>>,
         hold' \in [Key -> {"none", "open", "skipped", "deleted"}],
         \A k \in Key : hold'[k] = "open" => hold[k] = "open",
         due' \subseteq Key,
         row' \in Rows, view' \in [Scheduler -> Views],
         CursorInv',
         row'.present = row.present, row'.last >= row.last, row'.acceptance = row.acceptance,
         row'.quarantined => ~row'.enabled,
         \/ row'.token = row.token /\ hold' = hold /\ (row'.enabled => row.enabled)
         \/ row'.token = row.token + 1
  PROVE  IInv'
<1> USE RowFields, BoundAssumption DEF IInv
<1>1. TypeOK'
  BY DEF TypeOK
<1>2. HistoryInv'
  <2>1. row'.last \in Nat /\ \A a \in envelopes : a.slot \in Nat
    BY DEF TypeOK, Rows, Acceptances, Slots, None
  <2>2. \A k \in Key : k.slot \in Nat
    BY KeyOf
  <2>3. row'.acceptance.token <= row'.token
    BY DEF HistoryInv
  <2> QED
    BY <2>1, <2>2, <2>3 DEF HistoryInv
<1>3. OracleInv'
  BY DEF OracleInv
<1>4. AcceptedOnce'
  BY DEF AcceptedOnce
<1>5. OneOpenHold'
  BY DEF OneOpenHold, OpenHolds
<1>6. FailureStops'
  <2> SUFFICES ASSUME NEW k \in Key, Latest(k)', command'[k] \in Unsuccessful
               PROVE  hold'[k] = "open" /\ ~row'.enabled
    BY DEF FailureStops
  <2>1. row'.token = row.token
    BY KeyOf DEF Latest, HistoryInv
  <2>2. Latest(k)
    BY <2>1 DEF Latest
  <2> QED
    BY <2>1, <2>2 DEF FailureStops, TypeOK, Rows
<1> QED
  BY <1>1, <1>2, <1>3, <1>4, <1>5, <1>6

LEMMA AnsweredType ==
  ASSUME IInv, NEW s \in Scheduler, NEW r \in Rows, Answered(s, r)
  PROVE  view' \in [Scheduler -> Views]
BY SnapshotType DEF Answered, IInv, TypeOK

\* What Skip, Quarantine, a pause and a failure leave of the row.
Framed ==
    /\ row'.present = row.present
    /\ row'.acceptance = row.acceptance
    /\ row'.token = row.token

\* What a rotation leaves.
Reminted ==
    /\ row'.present = row.present
    /\ row'.acceptance = row.acceptance
    /\ row'.token = row.token + 1

LEMMA SkipStep ==
  ASSUME IInv, NEW s \in Scheduler, NEW slot \in Slots, Skip(s, slot)
  PROVE  IInv' /\ row'.last >= row.last /\ row'.last = slot /\ slot > row.last /\ Framed
<1> USE RowFields, BoundAssumption DEF IInv
<1> DEFINE v == view[s]
           r == [Revised(row) EXCEPT !.last = slot, !.next = Prepared(v, slot)]
<1>1. row' = r /\ Answered(s, r) /\ CanRevise /\ Current(v) /\ slot >= v.next /\ v.next # None
      /\ UNCHANGED <<workVars, now>>
  BY DEF Skip
<1>2. Prepared(v, slot) \in Nat /\ (Prepared(v, slot) = None \/ Prepared(v, slot) > slot)
  BY SuccessorLater DEF Prepared, TypeOK, Views, Slots, None
<1>3. /\ row' \in Rows /\ row'.last = slot /\ row'.next = Prepared(v, slot)
      /\ row'.present = row.present /\ row'.acceptance = row.acceptance
      /\ row'.token = row.token /\ row'.enabled = row.enabled
      /\ row'.quarantined = row.quarantined
  <2> DEFINE q == Revised(row)
  <2>1. q \in Rows /\ Same(q, row) /\ q.token = row.token /\ q.enabled = row.enabled
        /\ q.quarantined = row.quarantined
    BY RevisedRow
  <2>2. row' = [q EXCEPT !.last = slot, !.next = Prepared(v, slot)] /\ slot \in Nat
    BY <1>1 DEF Slots
  <2> HIDE DEF q
  <2> QED
    BY <1>2, <2>1, <2>2 DEF Rows, Same
<1>4. row'.last \in Nat
  BY <1>3 DEF Rows
<1>5. row.next > row.last /\ slot >= row.next /\ slot \in Nat
  BY <1>1 DEF Current, CursorInv, Slots
<1>6. CursorInv'
  BY <1>2, <1>3 DEF CursorInv
<1>7. view' \in [Scheduler -> Views]
  BY <1>1, <1>3, AnsweredType
<1>8. row'.last >= row.last /\ slot > row.last /\ Framed
  BY <1>3, <1>5 DEF Framed
<1> HIDE DEF r
<1> QED
  BY <1>1, <1>3, <1>6, <1>7, <1>8, RowSteps DEF workVars, HistoryInv, TypeOK

LEMMA QuarantineOrPauseStep ==
  ASSUME IInv, (\E s \in Scheduler : Quarantine(s)) \/ (\E b \in BOOLEAN : SetPaused(b))
  PROVE  IInv' /\ row'.last = row.last /\ Framed
<1> USE RowFields DEF IInv
<1>1. /\ row' \in Rows /\ row'.last = row.last /\ row'.next = row.next
      /\ row'.present = row.present /\ row'.acceptance = row.acceptance
      /\ row'.token = row.token
      /\ row'.enabled => row.enabled
      /\ row'.quarantined => ~row'.enabled
      /\ UNCHANGED <<view, workVars, now>>
  <2> DEFINE q == Revised(row)
  <2>0. q \in Rows /\ Same(q, row) /\ q.token = row.token /\ q.enabled = row.enabled
        /\ q.quarantined = row.quarantined /\ q.last = row.last /\ q.next = row.next
    BY RevisedRow
  <2>1. CASE \E s \in Scheduler : Quarantine(s)
    <3>1. row' = [q EXCEPT !.enabled = FALSE, !.quarantined = TRUE]
          /\ UNCHANGED <<view, workVars, now>>
      BY <2>1 DEF Quarantine
    <3> HIDE DEF q
    <3> QED
      BY <2>0, <3>1 DEF Rows, Same
  <2>2. CASE \E b \in BOOLEAN : SetPaused(b)
    <3>1. PICK b \in BOOLEAN : row' = [q EXCEPT !.paused = b] /\ UNCHANGED <<view, workVars, now>>
      BY <2>2 DEF SetPaused
    <3>2. row.quarantined => ~row.enabled
      BY DEF HistoryInv
    <3> HIDE DEF q
    <3> QED
      BY <2>0, <3>1, <3>2 DEF Rows, Same
  <2> QED
    BY <2>1, <2>2
<1>2. CursorInv'
  BY <1>1 DEF CursorInv
<1> QED
  BY <1>1, <1>2, RowSteps DEF workVars, TypeOK, Framed

\* A rotation may leave any next slot behind the last one.
LEMMA UpdateStep ==
  ASSUME IInv, NEW en \in BOOLEAN, NEW c \in Cadence, Update(en, c)
  PROVE  IInv' /\ row'.last = row.last /\ Reminted
<1> USE RowFields, BoundAssumption DEF IInv
<1> DEFINE replanned == en /\ (c # row.cadence \/ ~row.enabled)
           next == IF replanned THEN Anchored(c, row.last) ELSE row.next
<1>1. next \in Nat /\ (next = None \/ next > row.last)
  <2>1. Anchored(c, row.last) \in Nat
        /\ (Anchored(c, row.last) = None \/ Anchored(c, row.last) > row.last)
    BY SuccessorLater DEF Anchored, TypeOK, Slots, None
  <2> QED
    BY <2>1 DEF CursorInv
<1>2. CanRotate /\ UNCHANGED <<view, workVars, now>>
  BY DEF Update
<1>3. row' = [Rotated(row) EXCEPT !.enabled = en, !.cadence = c, !.next = next]
  BY DEF Update, Rotated, Revised, TypeOK, Rows
<1> HIDE DEF next
<1>4. /\ row' \in Rows
      /\ row'.token = row.token + 1 /\ row'.token \in Tokens
      /\ row'.last = row.last /\ row'.next = next
      /\ row'.present = row.present /\ row'.acceptance = row.acceptance
      /\ ~row'.quarantined
  <2> DEFINE q == Rotated(row)
  <2>1. q \in Rows /\ Same(q, row) /\ q.token = row.token + 1 /\ ~q.quarantined
        /\ q.last = row.last
    BY RotatedRow
  <2>2. row' = [q EXCEPT !.enabled = en, !.cadence = c, !.next = next]
    BY <1>3
  <2>3. row.token + 1 \in Tokens
    BY <1>2, <1>3 DEF CanRotate, CursorInv, Tokens
  <2> HIDE DEF q
  <2> QED
    BY <1>1, <1>2, <2>1, <2>2, <2>3 DEF Rows, Same
<1>5. CursorInv'
  BY <1>1, <1>4 DEF CursorInv
<1> QED
  BY <1>2, <1>4, <1>5, RowSteps DEF workVars, TypeOK, Reminted

LEMMA ResolveStep ==
  ASSUME IInv, NEW k \in Key, NEW en \in BOOLEAN, Resolve(k, en)
  PROVE  /\ IInv' /\ row'.last >= row.last /\ Reminted
         /\ row'.last = row.last \/ row'.last = k.slot
<1> USE RowFields, BoundAssumption, KeyOf DEF IInv
<1> DEFINE advances == row.token = k.token
           last == IF advances THEN ResolvedLast(k) ELSE row.last
           next == IF advances THEN Successor(row.cadence, last) ELSE row.next
<1>1. last \in Nat /\ last >= row.last /\ (last = row.last \/ last = k.slot)
  BY DEF ResolvedLast
<1>2. next \in Nat /\ (next = None \/ next > last)
  <2>1. Successor(row.cadence, last) \in Nat
        /\ (Successor(row.cadence, last) = None \/ Successor(row.cadence, last) > last)
    BY <1>1, SuccessorLater DEF Slots, None
  <2> QED
    BY <2>1 DEF CursorInv
<1>3. /\ CanRotate /\ UNCHANGED <<view, command, pending, fire, envelopes, due, now>>
      /\ hold' = [hold EXCEPT ![k] = "skipped"]
      /\ row' = [Rotated(row) EXCEPT !.enabled = en, !.last = last, !.next = next]
  BY DEF Resolve, Rotated, Revised, TypeOK, Rows
<1> HIDE DEF last, next
<1>4. /\ row' \in Rows
      /\ row'.token = row.token + 1 /\ row'.token \in Tokens
      /\ row'.last = last /\ row'.next = next
      /\ row'.present = row.present /\ row'.acceptance = row.acceptance
      /\ ~row'.quarantined
  <2> DEFINE q == Rotated(row)
  <2>1. q \in Rows /\ Same(q, row) /\ q.token = row.token + 1 /\ ~q.quarantined
        /\ q.last = row.last
    BY RotatedRow
  <2>2. row' = [q EXCEPT !.enabled = en, !.last = last, !.next = next]
    BY <1>3
  <2>3. row.token + 1 \in Tokens
    BY <1>2, <1>3 DEF CanRotate, CursorInv, Tokens
  <2> HIDE DEF q
  <2> QED
    BY <1>1, <1>2, <2>1, <2>2, <2>3 DEF Rows, Same
<1>5. CursorInv'
  BY <1>2, <1>4 DEF CursorInv
<1>6. /\ hold' \in [Key -> {"none", "open", "skipped", "deleted"}]
      /\ \A l \in Key : hold'[l] = "open" => hold[l] = "open"
  BY <1>3 DEF TypeOK
<1> QED
  BY <1>1, <1>3, <1>4, <1>5, <1>6, RowSteps DEF TypeOK, Reminted

-----------------------------------------------------------------------------
(* Acceptance *)

LEMMA AcceptStep ==
  ASSUME IInv, NEW s \in Scheduler, NEW slot \in Slots, Accept(s, slot)
  PROVE  /\ IInv'
         /\ row'.last >= row.last
         /\ EffectivelyEnabled /\ slot > row.last /\ [slot |-> slot, token |-> row.token] \in Key
         /\ row'.last = slot /\ row'.present = row.present /\ row'.token = row.token
         /\ row'.acceptance = [slot |-> slot, token |-> row.token, revision |-> row.revision + 1]
         /\ \A l \in Key : command'[l] # command[l] \/ fire'[l] # fire[l] => l.token = row.token
<1> USE RowFields, BoundAssumption DEF IInv
<1> DEFINE v == view[s]
           k == [slot |-> slot, token |-> v.token]
           a == [slot |-> slot, token |-> v.token, revision |-> row.revision + 1]
           r == [Revised(row) EXCEPT !.last = slot, !.next = Prepared(v, slot), !.acceptance = a]
           Direct == /\ command' = [command EXCEPT ![k] = "pending"]
                     /\ fire' = [fire EXCEPT ![k] = [status |-> "accepted", revision |-> a.revision]]
                     /\ UNCHANGED pending
           Buffered == /\ pending' = pending \cup {k}
                       /\ fire' = [fire EXCEPT ![k] = [status |-> "buffered", revision |-> a.revision]]
                       /\ UNCHANGED command
<1>1. /\ CanRevise /\ Current(v) /\ EffectivelyEnabled /\ v.next # None
      /\ slot \in Reachable(row.cadence, v.next)
      /\ row' = r /\ envelopes' = envelopes \cup {a} /\ Answered(s, r)
      /\ UNCHANGED <<hold, due, now>>
      /\ Direct \/ Buffered
  BY DEF Accept
<1>2. v \in Views /\ slot \in Nat /\ slot \in Slots
  BY DEF TypeOK, Slots
<1>3. v.token = row.token /\ v.next = row.next /\ row.token \in Tokens /\ row.present
  BY <1>1 DEF Current, CursorInv
<1>4. k \in Key /\ k.slot = slot /\ k.token = row.token
  BY <1>2, <1>3 DEF Key
<1>5. slot > row.last
  <2>1. row.next > row.last
    BY <1>1, <1>3 DEF CursorInv
  <2>2. slot >= row.next
    BY <1>1, <1>2, <1>3 DEF Reachable, Later
  <2> QED
    BY <2>1, <2>2, <1>2
<1>6. fire[k].status = "none" /\ command[k] = "none" /\ k \notin pending
  <2> HIDE DEF k
  <2> QED
    BY <1>4, <1>5, Fresh
<1>7. a \in Acceptances /\ a.slot = slot /\ a.token = row.token /\ a.revision \in Nat
      /\ a = [slot |-> slot, token |-> row.token, revision |-> row.revision + 1]
      /\ [slot |-> slot, token |-> row.token] \in Key
  BY <1>2, <1>3 DEF Acceptances, Key
<1>8. Prepared(v, slot) \in Nat /\ (Prepared(v, slot) = None \/ Prepared(v, slot) > slot)
  BY <1>2, SuccessorLater DEF Prepared, Views, Slots, None
<1> HIDE DEF v, a
<1>9. /\ row' \in Rows /\ row'.last = slot /\ row'.next = Prepared(v, slot)
      /\ row'.acceptance = a /\ row'.present = row.present /\ row'.enabled = row.enabled
      /\ row'.quarantined = row.quarantined /\ row'.token = row.token
  <2> DEFINE q == Revised(row)
  <2>1. q \in Rows /\ Same(q, row) /\ q.token = row.token /\ q.enabled = row.enabled
        /\ q.quarantined = row.quarantined
    BY RevisedRow
  <2>2. row' = [q EXCEPT !.last = slot, !.next = Prepared(v, slot), !.acceptance = a]
    BY <1>1
  <2> HIDE DEF q
  <2> QED
    BY <1>2, <1>7, <1>8, <2>1, <2>2 DEF Rows, Same
<1>10. view' \in [Scheduler -> Views]
  BY <1>1, <1>9, AnsweredType
<1> HIDE DEF r, k
<1>11. /\ command' \in [Key -> CommandStates] /\ pending' \subseteq Key
       /\ fire' \in [Key -> [status : FireStates, revision : Nat]]
       /\ \A l \in Key : l # k => command'[l] = command[l] /\ fire'[l] = fire[l]
                                 /\ (l \in pending' <=> l \in pending)
       /\ \/ command'[k] = "pending" /\ fire'[k].status = "accepted" /\ k \notin pending'
          \/ command'[k] = "none" /\ fire'[k].status = "buffered" /\ k \in pending'
  <2>1. CASE Direct
    BY <2>1, <1>4, <1>6, <1>7 DEF TypeOK, CommandStates, Outstanding, FireStates
  <2>2. CASE Buffered
    BY <2>2, <1>4, <1>6, <1>7 DEF TypeOK, CommandStates, FireStates
  <2> QED
    BY <1>1, <2>1, <2>2
<1> HIDE DEF Direct, Buffered
<1>12. TypeOK'
  BY <1>1, <1>7, <1>9, <1>10, <1>11 DEF TypeOK
<1>13. CursorInv'
  BY <1>3, <1>8, <1>9 DEF CursorInv
<1>14. HistoryInv'
  <2>1. \A b \in envelopes' : b.slot <= row'.last
    <3> SUFFICES ASSUME NEW b \in envelopes' PROVE b.slot <= row'.last
      OBVIOUS
    <3>1. CASE b = a
      BY <3>1, <1>2, <1>7, <1>9
    <3>2. CASE b \in envelopes
      <4>1. b.slot \in Nat /\ b.slot <= row.last
        BY <3>2 DEF HistoryInv, TypeOK, Acceptances, Slots, None
      <4> QED
        BY <4>1, <1>2, <1>5, <1>9
    <3> QED
      BY <3>1, <3>2, <1>1
  <2>2. \A l \in Key : fire'[l].status # "none" => l.slot <= row'.last
    <3> SUFFICES ASSUME NEW l \in Key, fire'[l].status # "none" PROVE l.slot <= row'.last
      OBVIOUS
    <3>1. CASE l = k
      BY <3>1, <1>2, <1>4, <1>9
    <3>2. CASE l # k
      BY <3>2, <1>2, <1>5, <1>9, <1>11, KeyOf DEF HistoryInv
    <3> QED
      BY <3>1, <3>2
  <2> QED
    BY <2>1, <2>2, <1>1, <1>3, <1>7, <1>9 DEF HistoryInv, EffectivelyEnabled
<1>15. OracleInv'
  <2> SUFFICES ASSUME NEW l \in Key
               PROVE  /\ l \in pending' => command'[l] = "none" /\ fire'[l].status = "buffered"
                      /\ fire'[l].status = "buffered" /\ row'.present => l \in pending'
                      /\ fire'[l].status = "accepted" <=> command'[l] \in Outstanding
                      /\ fire'[l].status = "terminal" <=> command'[l] \in Terminal
    BY DEF OracleInv
  <2>1. CASE l = k
    BY <2>1, <1>11 DEF Outstanding, Terminal, Unsuccessful
  <2>2. CASE l # k
    BY <2>2, <1>9, <1>11 DEF OracleInv
  <2> QED
    BY <2>1, <2>2
<1>16. AcceptedOnce'
  <2>1. \A b \in envelopes : b.slot # slot
    BY <1>2, <1>5 DEF HistoryInv, TypeOK, Acceptances, Slots, None
  <2> QED
    BY <2>1, <1>1, <1>7 DEF AcceptedOnce
<1>17. OneOpenHold'
  BY <1>1 DEF OneOpenHold, OpenHolds
<1>18. FailureStops'
  <2> SUFFICES ASSUME NEW l \in Key, Latest(l)', command'[l] \in Unsuccessful PROVE FALSE
    BY DEF FailureStops
  <2>1. l.slot = slot /\ l.token = row.token
    BY <1>7, <1>9 DEF Latest
  <2>2. l = k
    BY <2>1, <1>4 DEF Key
  <2> QED
    BY <2>2, <1>11 DEF Unsuccessful
<1>19. row'.last >= row.last
  BY <1>2, <1>5, <1>9
<1> QED
  BY <1>1, <1>4, <1>5, <1>7, <1>9, <1>11, <1>12, <1>13, <1>14, <1>15, <1>16, <1>17, <1>18, <1>19

-----------------------------------------------------------------------------
(* Delivery, outcome and buffer *)

\* A step on the work of one accepted occurrence that does not fail it.
LEMMA WorkSteps ==
  ASSUME IInv, NEW k \in Key, UNCHANGED <<row, view, hold, envelopes, now>>,
         due' \subseteq Key, pending' \subseteq pending,
         command' \in [Key -> CommandStates],
         fire' \in [Key -> [status : FireStates, revision : Nat]],
         \A l \in Key : l # k => command'[l] = command[l] /\ fire'[l] = fire[l]
                                /\ (l \in pending' <=> l \in pending),
         fire[k].status # "none",
         k \in pending' => command'[k] = "none" /\ fire'[k].status = "buffered",
         fire'[k].status = "buffered" /\ row.present => k \in pending',
         fire'[k].status = "accepted" <=> command'[k] \in Outstanding,
         fire'[k].status = "terminal" <=> command'[k] \in Terminal,
         command'[k] \notin Unsuccessful
  PROVE  IInv'
<1>1. TypeOK'
  BY DEF IInv, TypeOK
<1>2. CursorInv' /\ AcceptedOnce' /\ OneOpenHold'
  BY DEF IInv, CursorInv, AcceptedOnce, OneOpenHold, OpenHolds
<1>3. HistoryInv'
  BY DEF IInv, HistoryInv
<1>4. OracleInv'
  BY DEF IInv, OracleInv
<1>5. FailureStops'
  BY DEF IInv, FailureStops, Latest
<1> QED
  BY <1>1, <1>2, <1>3, <1>4, <1>5 DEF IInv

LEMMA DeliveryStep ==
  ASSUME IInv, NEW k \in Key, Claim(k) \/ ReportSuccess(k)
  PROVE  IInv'
<1> USE DEF IInv
<1>1. CASE Claim(k)
  <2>1. fire[k].status = "accepted" /\ k \notin pending
    BY <1>1 DEF Claim, OracleInv, Outstanding
  <2>2. command'[k] = "dispatched" /\ command' \in [Key -> CommandStates]
        /\ \A l \in Key : l # k => command'[l] = command[l]
    BY <1>1 DEF Claim, TypeOK, CommandStates, Outstanding
  <2>3. UNCHANGED <<row, view, pending, fire, hold, envelopes, due, now>>
    BY <1>1 DEF Claim
  <2> QED
    BY <2>1, <2>2, <2>3, WorkSteps DEF TypeOK, Outstanding, Terminal, Unsuccessful
<1>2. CASE ReportSuccess(k)
  <2>1. fire[k].status = "accepted" /\ k \notin pending
    BY <1>2 DEF ReportSuccess, OracleInv, Outstanding
  <2>2. command'[k] = "completed" /\ command' \in [Key -> CommandStates]
        /\ \A l \in Key : l # k => command'[l] = command[l]
    BY <1>2 DEF ReportSuccess, TypeOK, CommandStates, Terminal
  <2>3. fire'[k].status = "terminal" /\ fire' \in [Key -> [status : FireStates, revision : Nat]]
        /\ \A l \in Key : l # k => fire'[l] = fire[l]
    BY <1>2 DEF ReportSuccess, TypeOK, FireStates
  <2>4. UNCHANGED <<row, view, pending, hold, envelopes, now>> /\ due' \subseteq Key
    BY <1>2 DEF ReportSuccess, TypeOK
  <2> QED
    BY <2>1, <2>2, <2>3, <2>4, WorkSteps DEF Outstanding, Terminal, Unsuccessful
<1> QED
  BY <1>1, <1>2

LEMMA BufferStep ==
  ASSUME IInv, NEW k \in Key, Replay(k) \/ DropStale(k) \/ DropExpired(k)
  PROVE  IInv'
<1> USE DEF IInv
<1>1. k \in pending /\ command[k] = "none" /\ fire[k].status = "buffered"
  BY DEF Replay, DropStale, DropExpired, OracleInv
<1>2. /\ UNCHANGED <<row, view, hold, envelopes, now>>
      /\ due' \subseteq Key
      /\ pending' = pending \ {k}
  BY DEF Replay, DropStale, DropExpired, TypeOK
<1>3. CASE Replay(k)
  <2>1. command'[k] = "pending" /\ command' \in [Key -> CommandStates]
        /\ \A l \in Key : l # k => command'[l] = command[l]
    BY <1>3 DEF Replay, TypeOK, CommandStates, Outstanding
  <2>2. fire'[k].status = "accepted" /\ fire' \in [Key -> [status : FireStates, revision : Nat]]
        /\ \A l \in Key : l # k => fire'[l] = fire[l]
    BY <1>3 DEF Replay, TypeOK, FireStates
  <2> QED
    BY <1>1, <1>2, <2>1, <2>2, WorkSteps DEF Outstanding, Terminal, Unsuccessful
<1>4. CASE DropStale(k) \/ DropExpired(k)
  <2>1. command' = command
    BY <1>4 DEF DropStale, DropExpired
  <2>2. fire'[k].status \in {"buffer_stale", "buffer_expired"}
        /\ fire' \in [Key -> [status : FireStates, revision : Nat]]
        /\ \A l \in Key : l # k => fire'[l] = fire[l]
    BY <1>4 DEF DropStale, DropExpired, TypeOK, FireStates
  <2> QED
    BY <1>1, <1>2, <2>1, <2>2, WorkSteps DEF TypeOK, Outstanding, Terminal, Unsuccessful
<1> QED
  BY <1>3, <1>4

LEMMA FailStep ==
  ASSUME IInv, NEW k \in Key, NEW status \in Unsuccessful,
         command[k] \in Outstanding, Fail(k, status)
  PROVE  IInv' /\ row'.last = row.last /\ Framed
<1> USE RowFields DEF IInv
<1>1. fire[k].status = "accepted" /\ k \notin pending
  BY DEF OracleInv, Outstanding
<1>2. command'[k] = status /\ command' \in [Key -> CommandStates]
      /\ \A l \in Key : l # k => command'[l] = command[l]
  BY DEF Fail, TypeOK, CommandStates, Terminal
<1>3. /\ fire'[k].status = "terminal" /\ fire' \in [Key -> [status : FireStates, revision : Nat]]
      /\ \A l \in Key : l # k => fire'[l] = fire[l]
      /\ \A l \in Key : fire'[l].revision = fire[l].revision
  BY DEF Fail, TypeOK, FireStates
<1>4. UNCHANGED <<view, pending, envelopes, now>> /\ due' \subseteq Key
  BY DEF Fail, TypeOK
<1>5. \/ /\ Latest(k) /\ OpenHolds = {}
         /\ hold' = [hold EXCEPT ![k] = "open"]
         /\ row' = [Revised(row) EXCEPT !.enabled = FALSE]
      \/ ~Latest(k) /\ UNCHANGED <<hold, row>>
  BY DEF Fail, Stop, Blocked
<1>6. /\ row' \in Rows /\ row'.last = row.last /\ row'.next = row.next
      /\ row'.token = row.token /\ row'.present = row.present
      /\ row'.acceptance = row.acceptance /\ row'.quarantined = row.quarantined
      /\ row'.enabled => row.enabled
      /\ Latest(k) => ~row'.enabled
  <2> DEFINE q == Revised(row)
  <2>1. q \in Rows /\ Same(q, row) /\ q.token = row.token /\ q.enabled = row.enabled
        /\ q.quarantined = row.quarantined /\ q.last = row.last /\ q.next = row.next
    BY RevisedRow
  <2>2. \/ row' = [q EXCEPT !.enabled = FALSE]
        \/ ~Latest(k) /\ row' = row
    BY <1>5
  <2> HIDE DEF q
  <2> QED
    BY <2>1, <2>2 DEF Rows, Same
<1>7. hold' \in [Key -> {"none", "open", "skipped", "deleted"}]
      /\ (Latest(k) => hold'[k] = "open" /\ \A l \in Key : l # k => hold'[l] # "open")
  BY <1>5 DEF TypeOK, OpenHolds
<1>8. TypeOK'
  BY <1>2, <1>3, <1>4, <1>6, <1>7 DEF TypeOK
<1>9. CursorInv' /\ AcceptedOnce'
  BY <1>4, <1>6 DEF CursorInv, AcceptedOnce
<1>10. HistoryInv'
  BY <1>1, <1>3, <1>4, <1>6 DEF HistoryInv
<1>11. OracleInv'
  BY <1>1, <1>2, <1>3, <1>4, <1>6 DEF OracleInv, Outstanding, Terminal, Unsuccessful
<1>12. OneOpenHold'
  BY <1>5, <1>7 DEF OneOpenHold, OpenHolds
<1>13. FailureStops'
  <2> SUFFICES ASSUME NEW l \in Key, Latest(l)', command'[l] \in Unsuccessful
               PROVE  hold'[l] = "open" /\ ~row'.enabled
    BY DEF FailureStops
  <2>1. Latest(l)
    BY <1>3, <1>6 DEF Latest
  <2>2. CASE Latest(k)
    <3>1. l.slot = k.slot /\ l.token = k.token
      BY <2>1, <2>2 DEF Latest
    <3>2. l = k
      BY <3>1, KeyOf
    <3> QED
      BY <3>2, <2>2, <1>6, <1>7
  <2>3. CASE ~Latest(k)
    BY <2>1, <2>3, <1>2, <1>5 DEF FailureStops
  <2> QED
    BY <2>2, <2>3
<1> QED
  BY <1>6, <1>8, <1>9, <1>10, <1>11, <1>12, <1>13 DEF Framed

LEMMA OutcomeStep ==
  ASSUME IInv, NEW k \in Key, ReportFailure(k) \/ Expire(k)
  PROVE  IInv' /\ row'.last = row.last /\ Framed
<1>1. CASE ReportFailure(k)
  BY <1>1, FailStep DEF ReportFailure, Outstanding, Unsuccessful
<1>2. CASE Expire(k)
  BY <1>2, FailStep DEF Expire, Overdue, Unsuccessful
<1> QED
  BY <1>1, <1>2

LEMMA DeleteStep ==
  ASSUME IInv, Delete
  PROVE  IInv' /\ row'.last = row.last /\ ~row'.present
<1> USE RowFields DEF IInv
<1>1. /\ row' \in Rows /\ row'.last = row.last /\ row'.next = row.next
      /\ row'.token = row.token /\ ~row'.present /\ row'.enabled = row.enabled
      /\ row'.acceptance = row.acceptance /\ row'.quarantined = row.quarantined
  <2> DEFINE q == Revised(row)
  <2>1. q \in Rows /\ Same(q, row) /\ q.token = row.token /\ q.enabled = row.enabled
        /\ q.quarantined = row.quarantined /\ q.last = row.last /\ q.next = row.next
    BY RevisedRow
  <2>2. row' = [q EXCEPT !.present = FALSE]
    BY DEF Delete
  <2> HIDE DEF q
  <2> QED
    BY <2>1, <2>2 DEF Rows, Same
<1>2. /\ hold' \in [Key -> {"none", "open", "skipped", "deleted"}]
      /\ \A l \in Key : hold'[l] # "open"
      /\ pending' = {} /\ due' \subseteq Key
      /\ UNCHANGED <<view, command, fire, envelopes, now>>
  BY DEF Delete, TypeOK
<1>3. TypeOK'
  BY <1>1, <1>2 DEF TypeOK
<1>4. CursorInv' /\ HistoryInv' /\ AcceptedOnce'
  BY <1>1, <1>2 DEF CursorInv, HistoryInv, AcceptedOnce
<1>5. OracleInv'
  BY <1>1, <1>2 DEF OracleInv
<1>6. OneOpenHold' /\ FailureStops'
  BY <1>1, <1>2 DEF OneOpenHold, OpenHolds, FailureStops, Latest
<1> QED
  BY <1>1, <1>3, <1>4, <1>5, <1>6

-----------------------------------------------------------------------------
(* Every step *)

LEMMA NextInv ==
  ASSUME IInv, Next
  PROVE  IInv' /\ row'.last >= row.last
<1> USE RowFields
<1>0. TypeOK
  BY DEF IInv
<1>1. CASE Tick \/ (\E k \in Key : Elapse(k)) \/ (\E s \in Scheduler : Refresh(s))
  <2>1. row' = row
    BY <1>1 DEF Tick, Elapse, Refresh
  <2> QED
    BY <1>0, <1>1, <2>1, TimeAndRefresh
<1>2. CASE \E s \in Scheduler, slot \in Slots : Accept(s, slot)
  BY <1>2, AcceptStep
<1>3. CASE \E s \in Scheduler, slot \in Slots : Skip(s, slot)
  BY <1>3, SkipStep
<1>4. CASE (\E s \in Scheduler : Quarantine(s)) \/ (\E b \in BOOLEAN : SetPaused(b))
  BY <1>0, <1>4, QuarantineOrPauseStep
<1>5. CASE \E en \in BOOLEAN, c \in Cadence : Update(en, c)
  BY <1>0, <1>5, UpdateStep
<1>6. CASE \E k \in Key, en \in BOOLEAN : Resolve(k, en)
  BY <1>6, ResolveStep
<1>7. CASE Delete
  BY <1>0, <1>7, DeleteStep
<1>8. CASE \E k \in Key : Claim(k) \/ ReportSuccess(k)
  <2>1. row' = row
    BY <1>8 DEF Claim, ReportSuccess
  <2> QED
    BY <1>0, <1>8, <2>1, DeliveryStep
<1>9. CASE \E k \in Key : Replay(k) \/ DropStale(k) \/ DropExpired(k)
  <2>1. row' = row
    BY <1>9 DEF Replay, DropStale, DropExpired
  <2> QED
    BY <1>0, <1>9, <2>1, BufferStep
<1>10. CASE \E k \in Key : ReportFailure(k) \/ Expire(k)
  BY <1>0, <1>10, OutcomeStep
<1> QED
  BY <1>1, <1>2, <1>3, <1>4, <1>5, <1>6, <1>7, <1>8, <1>9, <1>10
  DEF Next, OthersNext, SchedulerNext, DeliveryNext, BufferNext, OperatorNext, TimeNext

LEMMA StutterInv ==
  ASSUME IInv, UNCHANGED vars
  PROVE  IInv' /\ row'.last >= row.last
BY IdleSteps, RowFields DEF vars, IInv, TypeOK

LEMMA Inductive == Spec => []IInv
<1>1. IInv /\ [Next]_vars => IInv'
  BY NextInv, StutterInv
<1> QED
  BY InitInv, <1>1, PTL DEF Spec

-----------------------------------------------------------------------------
(* The theorems *)

\* Every step keeps the state well formed (ScheduleControlRepository,
\* PendingFiresRepository).
THEOREM TypeCorrect == Spec => []TypeOK
<1>1. IInv => TypeOK
  BY DEF IInv
<1> QED
  BY Inductive, <1>1, PTL

\* The change log never holds two acceptances of one slot, whatever snapshots
\* the replicas fire from and however the token rotates (accept_fire).
THEOREM NeverAcceptedTwice == Spec => []AcceptedOnce
<1>1. IInv => AcceptedOnce
  BY DEF IInv
<1> QED
  BY Inductive, <1>1, PTL

\* An accepted occurrence is a command or a buffered fire, never both, and its
\* fire row says which (accept_fire, replay and drop of pending fires).
THEOREM OracleIsUnique == Spec => []OneOracle
<1>1. IInv => OneOracle
  BY DEF IInv, OracleInv, OneOracle
<1> QED
  BY Inductive, <1>1, PTL

\* The failure of the latest occurrence leaves an open hold and a disabled
\* schedule (the terminal transaction of a cadence command).
THEOREM FailureAlwaysStops == Spec => []FailureStops
<1>1. IInv => FailureStops
  BY DEF IInv
<1> QED
  BY Inductive, <1>1, PTL

\* The unique index on unresolved holds is never met (_lock_exact_terminal_hold).
THEOREM HoldIsUnique == Spec => []OneOpenHold
<1>1. IInv => OneOpenHold
  BY DEF IInv
<1> QED
  BY Inductive, <1>1, PTL

\* No transition moves the last slot back: not a stale snapshot's, nor a
\* resolution of an occurrence the cursor has passed (resolve_terminal_occurrence).
THEOREM CursorNeverMovesBack == Spec => CursorForward
<1>1. IInv /\ [Next]_vars => [row'.last >= row.last]_vars
  BY NextInv, StutterInv
<1> QED
  BY Inductive, <1>1, PTL DEF Spec, CursorForward

\* Only an acceptance or a replay makes work, and only under the token in force
\* and an enabled, unpaused schedule (accept_fire, replay of pending fires).
THEOREM WorkOnlyWhenEnabled == Spec => NoWorkUnderHold
<1> DEFINE Fine(k) ==
      /\ command[k] = "none" /\ command'[k] # "none" => EffectivelyEnabled /\ k.token = row.token
      /\ fire[k].status = "none" /\ fire'[k].status # "none"
            => EffectivelyEnabled /\ k.token = row.token
<1>1. ASSUME IInv, Next, NEW k \in Key PROVE Fine(k)
  <2>0. TypeOK /\ HistoryInv /\ OracleInv
    BY <1>1 DEF IInv
  <2>1. CASE \E s \in Scheduler, slot \in Slots : Accept(s, slot)
    BY <1>1, <2>1, AcceptStep
  <2>2. ASSUME NEW l \in Key, Replay(l) PROVE Fine(k)
    <3>1. EffectivelyEnabled /\ l.token = row.token
      BY <2>0, <2>2 DEF Replay, HistoryInv, EffectivelyEnabled
    <3>2. fire[l].status = "buffered"
      BY <2>0, <2>2 DEF Replay, OracleInv
    <3>3. k # l => command'[k] = command[k] /\ fire'[k] = fire[k]
      BY <2>0, <2>2 DEF Replay, TypeOK
    <3> QED
      BY <3>1, <3>2, <3>3
  <2>3. ASSUME NEW l \in Key, Claim(l) PROVE Fine(k)
    BY <2>0, <2>3 DEF Claim, TypeOK
  <2>4. ASSUME NEW l \in Key, ReportSuccess(l) \/ ReportFailure(l) \/ Expire(l) PROVE Fine(k)
    <3>1. command[l] \in Outstanding
      BY <2>4 DEF ReportSuccess, ReportFailure, Expire, Overdue, Outstanding
    <3>2. fire[l].status = "accepted"
      BY <2>0, <3>1 DEF OracleInv
    <3>3. k # l => command'[k] = command[k] /\ fire'[k] = fire[k]
      BY <2>0, <2>4 DEF ReportSuccess, ReportFailure, Expire, Fail, TypeOK
    <3> QED
      BY <3>1, <3>2, <3>3 DEF Outstanding
  <2>5. ASSUME NEW l \in Key, DropStale(l) \/ DropExpired(l) PROVE Fine(k)
    <3>1. fire[l].status = "buffered" /\ command' = command
      BY <2>0, <2>5 DEF DropStale, DropExpired, OracleInv
    <3>2. k # l => fire'[k] = fire[k]
      BY <2>0, <2>5 DEF DropStale, DropExpired, TypeOK
    <3> QED
      BY <3>1, <3>2
  <2>6. CASE UNCHANGED <<command, fire>>
    BY <2>6
  <2>7. CASE SchedulerNext \/ OperatorNext \/ TimeNext
    BY <2>1, <2>6, <2>7 DEF SchedulerNext, OperatorNext, TimeNext, Refresh, Quarantine, Skip,
       Delete, SetPaused, Update, Resolve, Tick, Elapse, workVars
  <2> QED
    BY <1>1, <2>2, <2>3, <2>4, <2>5, <2>7 DEF Next, OthersNext, DeliveryNext, BufferNext
<1>2. IInv /\ [Next]_vars => [\A k \in Key : Fine(k)]_vars
  BY <1>1
<1> QED
  BY Inductive, <1>2, PTL DEF Spec, NoWorkUnderHold
=============================================================================
