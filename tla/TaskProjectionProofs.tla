------------------------- MODULE TaskProjectionProofs -------------------------
(***************************************************************************)
(* The safety properties of TaskProjection, for any agents, probes,        *)
(* histories and clock.                                                    *)
(***************************************************************************)
EXTENDS TaskProjection, TLAPS, WellFoundedInduction

(***************************************************************************)
(* A set of times has a latest one: what the engine says is defined.       *)
(***************************************************************************)
Less == {ss \in Nat \X Nat : ss[1] < ss[2]}

LEMMA LessWellFounded == IsWellFoundedOn(Less, Nat)
  BY NatLessThanWellFounded DEF OpToRel, Less

LEMMA LatestExists ==
  ASSUME NEW T \in SUBSET Event, T # {}
  PROVE  \E e \in T : \A f \in T : f.at <= e.at
<1> DEFINE Left == {MaxTime - e.at : e \in T}
<1>1. \A e \in T : e.at \in Nat /\ e.at <= MaxTime
  BY TaskAssumption DEF Event, Time
<1>2. Left \in SUBSET Nat /\ Left # {}
  BY <1>1, TaskAssumption
<1>3. PICK m \in Left : \A n \in Left : ~(<<n, m>> \in Less)
  <2> HIDE DEF Left
  <2> QED
    BY <1>2, LessWellFounded, WFMin
<1>4. \A n \in Left : ~(n < m)
  BY <1>2, <1>3 DEF Less
<1>5. PICK e \in T : m = MaxTime - e.at
  BY <1>3
<1>6. ASSUME NEW f \in T PROVE f.at <= e.at
  <2>1. MaxTime - f.at \in Left
    OBVIOUS
  <2>2. ~(MaxTime - f.at < m)
    BY <1>4, <2>1
  <2> HIDE DEF Left
  <2> QED
    BY <1>1, <1>5, <2>2, TaskAssumption
<1> QED
  BY <1>6

LEMMA StateNames ==
  ASSUME NEW k \in Kind
  PROVE  /\ StateFor[k] \in {"received", "started", "retry", "success", "failure", "revoked"}
         /\ StateFor[k] \in States
         /\ StateFor[k] = "success" <=> k = "succeeded"
         /\ StateFor[k] = "failure" <=> k = "failed"
BY DEF Kind, StateFor, States

LEMMA StatesAre ==
  States = {"received", "started", "retry", "success", "failure", "revoked", "pending"}
BY DEF Kind, StateFor, States

LEMMA EngineStateType ==
  ASSUME history \subseteq Event, NEW t
  PROVE  /\ EngineState(t) \in Answers
         /\ Finishes(t) \subseteq Stamps
<1>1. CASE Happened(t) = {}
  BY <1>1, TaskAssumption DEF EngineState, Answers, TerminalStates, Finishes, Stamps
<1>2. CASE Happened(t) # {}
  <2>1. Happened(t) \in SUBSET Event /\ \A e \in Happened(t) : e.kind # "received"
    BY DEF Happened
  <2>2. Last(t) \in Happened(t)
    BY <1>2, <2>1, LatestExists DEF Last
  <2>3. Last(t).kind \in Kind /\ Last(t).kind # "received" /\ Last(t).stamps \subseteq Stamps
    BY <2>1, <2>2 DEF Event
  <2>4. Last(t).kind \in {"started", "retried", "succeeded", "failed", "revoked"}
    BY <2>3 DEF Kind, StateFor
  <2>5. EngineState(t) \in Answers
    BY <1>2, <2>4 DEF EngineState, Answers, StateFor
  <2>6. 0 \in Stamps
    BY TaskAssumption DEF Stamps
  <2> QED
    BY <2>3, <2>5, <2>6 DEF Finishes
<1> QED
  BY <1>1, <1>2

-----------------------------------------------------------------------------
(* The inductive invariant *)

\* An event being ingested had happened; once its row is inserted that row is not
\* in the log, is of one agent, and is judged by a clock reading no earlier.
CallInv ==
    /\ \A a \in Agent : call[a] # Idle => call[a].event \in history /\ call[a].event.at <= now
    /\ \A a \in Agent : Holds(a) =>
          call[a].event.at <= call[a].guard /\ \A x \in log : Id(x) # Id(Entry(a))
    /\ \A a, b \in Agent : a # b /\ Holds(a) /\ Holds(b) => Id(Entry(a)) # Id(Entry(b))

\* The order of a probe's three clock readings.
ProbeInv ==
    \A p \in Probe :
       /\ probe[p] # Home => probe[p].issued <= now
       /\ probe[p].at \in {"answered", "read"} => probe[p].issued <= probe[p].asked
       /\ probe[p].at = "read" =>
             probe[p].issued <= probe[p].begun /\ probe[p].answer # "unknown"

\* No correction was made of an open task to an outcome, and it was written no
\* earlier than every event in it happened.
RowInv ==
    /\ row.state = "absent" => row.updated = 0
    /\ ~Ended => \A x \in log \ refused : x.event.at <= row.updated
    /\ orphaned # 0 => Ended

IInv == TypeOK /\ CallInv /\ ProbeInv /\ RowInv /\ DetailsAgree /\ OutcomeKept

\* What every step respects.
Respected ==
    /\ Ended => row'.state \in TerminalStates
    /\ Ended /\ row.finished <= row.updated => row'.finished >= row.finished

LEMMA Types ==
  ASSUME TypeOK
  PROVE  /\ history \subseteq Event
         /\ row.state \in States \cup {"absent"}
         /\ row.received \in Nat /\ row.started \in Nat
         /\ row.finished \in Nat /\ row.updated \in Nat
         /\ row.result \in BOOLEAN /\ row.error \in BOOLEAN
         /\ now \in Nat /\ MaxTime \in Nat /\ now \in Time
BY TaskAssumption DEF TypeOK, Row, Time, Stamps

LEMMA EventTypes ==
  ASSUME NEW e \in Event
  PROVE  /\ e.kind \in Kind /\ e.at \in Nat /\ e.stamps \subseteq Stamps
         /\ StateFor[e.kind] \in States
BY TaskAssumption, StateNames DEF Event, Time

LEMMA CallTypes ==
  ASSUME TypeOK, NEW a \in Agent, call[a] # Idle
  PROVE  /\ call[a] \in Calls /\ call[a].event \in Event
         /\ call[a].guard \in 0 .. MaxTime /\ call[a].guard \in Nat
         /\ call[a].occurred \in Nat
         /\ Entry(a) \in Entries /\ Entry(a).event = call[a].event
         /\ ProjectedAt(a) \in 0 .. MaxTime /\ ProjectedAt(a) \in Nat
         /\ ProjectedAt(a) <= call[a].guard
<1> USE TaskAssumption
<1>1. /\ call[a] \in Calls /\ call[a].event \in Event
      /\ call[a].guard \in 0 .. MaxTime /\ call[a].occurred \in 1 .. MaxTime + 1
  BY DEF TypeOK, Calls
<1>2. Entry(a) \in Entries
  BY <1>1 DEF Entry, Entries, Seconds
<1>3. ProjectedAt(a) \in 0 .. MaxTime /\ ProjectedAt(a) <= call[a].guard
  BY <1>1 DEF ProjectedAt
<1> QED
  BY <1>1, <1>2, <1>3 DEF Entry

LEMMA Busy ==
  ASSUME NEW a \in Agent, Holds(a)
  PROVE  call[a] # Idle
BY DEF Holds, Idle

\* A call that stays as it is holds what it held.
LEMMA SameCall ==
  ASSUME NEW a \in Agent, call'[a] = call[a]
  PROVE  (Holds(a)' <=> Holds(a)) /\ Entry(a)' = Entry(a)
BY DEF Holds, Entry

LEMMA InitInv == Init => IInv
<1> SUFFICES ASSUME Init PROVE IInv
  OBVIOUS
<1>1. row \in Row
  <2>1. 0 \in Stamps /\ 0 \in 0 .. MaxTime
    BY TaskAssumption DEF Stamps
  <2> QED
    BY <2>1 DEF Init, Absent, Row
<1>2. TypeOK
  BY <1>1, TaskAssumption DEF Init, TypeOK, Time
<1>3. CallInv
  BY DEF Init, CallInv, Holds, Idle
<1>4. ProbeInv
  BY DEF Init, ProbeInv, Home
<1>5. RowInv /\ DetailsAgree /\ OutcomeKept
  BY DEF Init, RowInv, DetailsAgree, OutcomeKept, Absent, Ended
<1> QED
  BY <1>2, <1>3, <1>4, <1>5 DEF IInv

-----------------------------------------------------------------------------
(* The events *)

\* What a projection leaves in the row.
LEMMA WrittenRow ==
  ASSUME TypeOK, NEW e \in Event, NEW t \in 0 .. MaxTime, NEW g \in 0 .. MaxTime
  PROVE  LET r == Written(row, e, t, g) IN
         /\ r \in Row
         /\ r.state = StateFor[e.kind] /\ r.updated = g
         /\ IsTerminal(e) => /\ r.finished = t
                             /\ r.result <=> e.kind = "succeeded"
                             /\ r.error <=> e.kind = "failed"
         /\ ~IsTerminal(e) => /\ r.finished = row.finished
                              /\ r.result <=> row.result
                              /\ r.error <=> row.error
<1> USE TaskAssumption
<1>1. t \in Stamps
  BY DEF Stamps
<1>2. e.kind \in Kind /\ StateFor[e.kind] \in States
  BY EventTypes
<1>3. e.kind \in {"succeeded", "failed"} => IsTerminal(e)
  BY DEF IsTerminal, StateFor, TerminalStates
<1> DEFINE terminal == IsTerminal(e)
           state == StateFor[e.kind]
           r == Written(row, e, t, g)
<1>4. row \in Row
  BY DEF TypeOK
<1>5. r = [row EXCEPT !.state = state,
                      !.updated = g,
                      !.received = IF e.kind = "received" THEN t ELSE row.received,
                      !.started = IF e.kind = "started" THEN t ELSE row.started,
                      !.finished = IF terminal THEN t ELSE row.finished,
                      !.result = e.kind = "succeeded" \/ (row.result /\ ~terminal),
                      !.error = e.kind = "failed" \/ (row.error /\ ~terminal)]
  BY <1>4 DEF Written, Row
<1> HIDE DEF terminal, state, r
<1>6. /\ r.state = state /\ r.updated = g
      /\ r.finished = IF terminal THEN t ELSE row.finished
      /\ r.result = (e.kind = "succeeded" \/ (row.result /\ ~terminal))
      /\ r.error = (e.kind = "failed" \/ (row.error /\ ~terminal))
  BY <1>4, <1>5 DEF Row
<1>7. r \in Row
  <2>1. PICK received, started, finished :
          /\ received = IF e.kind = "received" THEN t ELSE row.received
          /\ started = IF e.kind = "started" THEN t ELSE row.started
          /\ finished = IF terminal THEN t ELSE row.finished
    OBVIOUS
  <2>2. PICK result \in BOOLEAN, error \in BOOLEAN :
          /\ result = (e.kind = "succeeded" \/ (row.result /\ ~terminal))
          /\ error = (e.kind = "failed" \/ (row.error /\ ~terminal))
    OBVIOUS
  <2>3. received \in 0 .. MaxTime /\ started \in 0 .. MaxTime /\ finished \in Stamps
    BY <1>1, <1>4, <2>1 DEF Row
  <2>4. r = [row EXCEPT !.state = state, !.updated = g, !.received = received,
                        !.started = started, !.finished = finished,
                        !.result = result, !.error = error]
    BY <1>5, <2>1, <2>2
  <2>5. state \in States \cup {"absent"}
    BY <1>2 DEF state
  <2> DEFINE S == States \cup {"absent"}
             T == 0 .. MaxTime
             B == BOOLEAN
  <2>6. Row = [state : S, received : T, started : T, finished : Stamps,
               result : B, error : B, updated : T]
    BY DEF Row
  <2>7. /\ state \in S /\ g \in T /\ received \in T /\ started \in T
        /\ finished \in Stamps /\ result \in B /\ error \in B
    BY <2>3, <2>5
  <2> HIDE DEF S, T, B
  <2>8. row \in [state : S, received : T, started : T, finished : Stamps,
                 result : B, error : B, updated : T]
    BY <1>4, <2>6
  <2>9. r \in [state : S, received : T, started : T, finished : Stamps,
               result : B, error : B, updated : T]
    BY <2>4, <2>7, <2>8
  <2> QED
    BY <2>6, <2>9
<1> QED
  BY <1>3, <1>6, <1>7, <1>4 DEF Row, state, terminal, r

\* The call that ends puts its row into the log: what the others hold is not it.
LEMMA EndedCall ==
  ASSUME TypeOK, CallInv, NEW a \in Agent, Holds(a),
         call' = [call EXCEPT ![a] = Idle], log' = log \cup {Entry(a)},
         UNCHANGED <<history, now>>
  PROVE  CallInv' /\ call' \in [Agent -> Calls \cup {Idle}]
<1> PICK x : x = Entry(a)
  OBVIOUS
<1>1. \A b \in Agent : b # a => call'[b] = call[b]
  BY DEF TypeOK
<1>2. call'[a] = Idle /\ ~Holds(a)'
  BY DEF TypeOK, Holds, Idle
<1>3. \A b \in Agent : b # a => (Holds(b)' <=> Holds(b)) /\ Entry(b)' = Entry(b)
  BY <1>1, SameCall
<1>4. \A b \in Agent : b # a /\ Holds(b) => Id(Entry(b)) # Id(x)
  BY DEF CallInv
<1>5. \A y : Id(y)' = Id(y)
  BY DEF Id
<1>6. log' = log \cup {x}
  OBVIOUS
<1>7. \A b \in Agent : call'[b] # Idle => call'[b].event \in history' /\ call'[b].event.at <= now'
  BY <1>1, <1>2 DEF CallInv
<1>8. ASSUME NEW b \in Agent, Holds(b)'
      PROVE  call'[b].event.at <= call'[b].guard /\ \A y \in log' : Id(y) # Id(Entry(b)')
  <2>1. b # a /\ Holds(b) /\ Entry(b)' = Entry(b) /\ call'[b] = call[b]
    BY <1>1, <1>2, <1>3, <1>8
  <2> QED
    BY <2>1, <1>4, <1>6 DEF CallInv
<1>9. ASSUME NEW b \in Agent, NEW c \in Agent, b # c, Holds(b)', Holds(c)'
      PROVE  Id(Entry(b)') # Id(Entry(c)')
  BY <1>9, <1>2, <1>3 DEF CallInv
<1>10. call' \in [Agent -> Calls \cup {Idle}]
  BY DEF TypeOK
<1> QED
  BY <1>7, <1>8, <1>9, <1>10 DEF CallInv, Id

LEMMA ApplyStep ==
  ASSUME IInv, NEW a \in Agent, Holds(a), Apply(a),
         row.state = "absent" \/ Eligible(call[a].event, ProjectedAt(a), call[a].guard)
  PROVE  IInv' /\ Respected
<1> USE Types, TaskAssumption DEF IInv
<1> PICK e, g, t, x : e = call[a].event /\ g = call[a].guard /\ t = ProjectedAt(a) /\ x = Entry(a)
  OBVIOUS
<1>1. /\ e \in Event /\ e.at <= g /\ e.at \in Nat /\ g \in 0 .. MaxTime /\ g \in Nat
      /\ t \in 0 .. MaxTime /\ t \in Nat /\ t <= g
      /\ x \in Entries /\ x.event = e
  BY Busy, CallTypes, EventTypes DEF CallInv
<1>2. /\ row' = Written(row, e, t, g) /\ log' = log \cup {x}
      /\ call' = [call EXCEPT ![a] = Idle]
      /\ UNCHANGED <<history, now, refused, probe, orphaned>>
  BY DEF Apply
<1>3. row.state = "absent" \/ Eligible(e, t, g)
  OBVIOUS
<1>4. /\ row' \in Row
      /\ row'.state = StateFor[e.kind] /\ row'.updated = g
      /\ IsTerminal(e) => /\ row'.finished = t
                          /\ row'.result <=> e.kind = "succeeded"
                          /\ row'.error <=> e.kind = "failed"
      /\ ~IsTerminal(e) => /\ row'.finished = row.finished
                           /\ row'.result <=> row.result
                           /\ row'.error <=> row.error
  BY <1>1, <1>2, WrittenRow
<1>5. row.updated <= g /\ (~IsTerminal(e) => ~Ended)
  BY <1>1, <1>3 DEF Eligible, RowInv, Ended, TerminalStates
<1>6. e.kind \in Kind /\ (IsTerminal(e) <=> row'.state \in TerminalStates)
  BY <1>1, <1>4, EventTypes DEF IsTerminal
<1>7. /\ row'.state # "absent"
      /\ row'.state = "success" <=> e.kind = "succeeded"
      /\ row'.state = "failure" <=> e.kind = "failed"
  BY <1>4, <1>6, StateNames
<1>8. CallInv' /\ call' \in [Agent -> Calls \cup {Idle}]
  BY <1>2, EndedCall
<1>9. TypeOK'
  BY <1>1, <1>2, <1>4, <1>8 DEF TypeOK
<1>10. ProbeInv'
  BY <1>2 DEF ProbeInv
<1>11. Ended' <=> IsTerminal(e)
  BY <1>6 DEF Ended
<1>12. RowInv'
  <2>2. ASSUME ~Ended', NEW y \in log' \ refused' PROVE y.event.at <= row'.updated
    <3>1. CASE y = x
      BY <3>1, <1>1, <1>4
    <3>2. CASE y \in log \ refused
      <4>1. y.event.at <= row.updated
        BY <2>2, <3>2, <1>5, <1>11 DEF RowInv
      <4>2. y.event.at \in Nat
        BY <3>2, EventTypes DEF TypeOK, Entries
      <4> QED
        BY <4>1, <4>2, <1>1, <1>4, <1>5
    <3> QED
      BY <2>2, <3>1, <3>2, <1>2
  <2>3. orphaned' # 0 => Ended'
    BY <1>2, <1>5, <1>11 DEF RowInv
  <2> QED
    BY <2>2, <2>3, <1>7 DEF RowInv
<1>13. DetailsAgree'
  <2>1. CASE IsTerminal(e)
    BY <2>1, <1>4, <1>7 DEF DetailsAgree
  <2>2. CASE ~IsTerminal(e)
    <3>1. ~row'.result
      BY <2>2, <1>4, <1>5 DEF DetailsAgree, Ended, TerminalStates
    <3>2. row'.state # "revoked"
      BY <2>2, <1>6 DEF TerminalStates
    <3> QED
      BY <3>1, <3>2 DEF DetailsAgree
  <2> QED
    BY <2>1, <2>2
<1>14. Ended => Ended'
  BY <1>5, <1>11
<1>15. OutcomeKept'
  <2>1. ASSUME NEW y \in log', IsTerminal(y.event) PROVE Ended' \/ y \in refused'
    <3>1. CASE y = x
      BY <2>1, <3>1, <1>1, <1>11
    <3>2. CASE y \in log
      BY <2>1, <3>2, <1>2, <1>14 DEF OutcomeKept
    <3> QED
      BY <2>1, <3>1, <3>2, <1>2
  <2> QED
    BY <2>1 DEF OutcomeKept, IsTerminal
<1>16. ASSUME Ended, row.finished <= row.updated PROVE row'.finished >= row.finished
  <2>1. IsTerminal(e) /\ Eligible(e, t, g)
    BY <1>16, <1>5, <1>3 DEF Ended, TerminalStates
  <2>2. row.finished > g \/ row.finished <= t
    BY <1>16, <2>1 DEF Eligible, NotNewer, Ended
  <2> QED
    BY <1>16, <2>1, <2>2, <1>1, <1>4, <1>5
<1> QED
  BY <1>8, <1>9, <1>10, <1>12, <1>13, <1>14, <1>15, <1>16 DEF Respected, Ended

LEMMA RefuseStep ==
  ASSUME IInv, NEW a \in Agent, Holds(a), Refuse(a)
  PROVE  IInv' /\ Respected
<1> USE Types DEF IInv
<1> PICK x : x = Entry(a)
  OBVIOUS
<1>1. x \in Entries
  BY Busy, CallTypes
<1>2. /\ log' = log \cup {x} /\ refused' = refused \cup {x}
      /\ call' = [call EXCEPT ![a] = Idle]
      /\ UNCHANGED <<history, now, row, probe, orphaned>>
  BY DEF Refuse
<1>3. CallInv' /\ call' \in [Agent -> Calls \cup {Idle}]
  BY <1>2, EndedCall
<1>4. TypeOK'
  BY <1>1, <1>2, <1>3 DEF TypeOK
<1>6. ProbeInv' /\ RowInv'
  BY <1>2 DEF ProbeInv, RowInv, Ended
<1>7. DetailsAgree' /\ OutcomeKept'
  BY <1>2 DEF DetailsAgree, OutcomeKept, Ended, IsTerminal
<1> QED
  BY <1>2, <1>3, <1>4, <1>6, <1>7 DEF Respected, Ended

\* A step on the calls alone: each stays, ends, or holds what no other call holds
\* and the log does not have.
LEMMA CallSteps ==
  ASSUME IInv, UNCHANGED <<history, now, row, log, refused, probe, orphaned>>,
         call' \in [Agent -> Calls \cup {Idle}],
         NEW a \in Agent,
         \A b \in Agent : b # a => call'[b] = call[b],
         call'[a] # Idle => call'[a].event \in history /\ call'[a].event.at <= now,
         Holds(a)' =>
            /\ call'[a].event.at <= call'[a].guard
            /\ \A x \in log : Id(x) # Id(Entry(a)')
            /\ \A b \in Agent : b # a /\ Holds(b) => Id(Entry(b)) # Id(Entry(a)')
  PROVE  IInv' /\ Respected
<1> USE Types DEF IInv
<1>1. TypeOK'
  BY DEF TypeOK
<1>2. CallInv'
  <2>1. \A b \in Agent : b # a => (Holds(b)' <=> Holds(b)) /\ Entry(b)' = Entry(b)
    BY SameCall
  <2>2. \A b \in Agent : call'[b] # Idle => call'[b].event \in history' /\ call'[b].event.at <= now'
    BY DEF CallInv
  <2>3. ASSUME NEW b \in Agent, Holds(b)'
        PROVE  call'[b].event.at <= call'[b].guard /\ \A x \in log' : Id(x) # Id(Entry(b)')
    <3>1. CASE b = a
      BY <2>3, <3>1
    <3>2. CASE b # a
      BY <2>1, <2>3, <3>2 DEF CallInv
    <3> QED
      BY <3>1, <3>2
  <2>4. ASSUME NEW b \in Agent, NEW c \in Agent, b # c, Holds(b)', Holds(c)'
        PROVE  Id(Entry(b)') # Id(Entry(c)')
    <3>1. CASE b # a /\ c # a
      BY <2>1, <2>4, <3>1 DEF CallInv
    <3>2. CASE b = a \/ c = a
      BY <2>1, <2>4, <3>2
    <3> QED
      BY <3>1, <3>2
  <2> QED
    BY <2>2, <2>3, <2>4 DEF CallInv, Id
<1>3. ProbeInv' /\ RowInv'
  BY DEF ProbeInv, RowInv, Ended
<1>4. DetailsAgree' /\ OutcomeKept'
  BY DEF DetailsAgree, OutcomeKept, Ended, IsTerminal
<1> QED
  BY <1>1, <1>2, <1>3, <1>4 DEF Respected, Ended

LEMMA ProceedStep ==
  ASSUME IInv, NEW a \in Agent, Holds(a), NEW at \in {"exists", "insert"}, Proceed(a, at)
  PROVE  IInv' /\ Respected
<1> USE DEF IInv
<1>0. call[a] # Idle
  BY Busy
<1>1. call[a] \in Calls
  BY <1>0, CallTypes
<1>2. /\ call' = [call EXCEPT ![a].at = at]
      /\ UNCHANGED <<history, now, row, log, refused, probe, orphaned>>
  BY DEF Proceed
<1>3. /\ call'[a] \in Calls /\ call'[a].event = call[a].event /\ call'[a].guard = call[a].guard
      /\ call'[a].occurred = call[a].occurred
  BY <1>1, <1>2 DEF TypeOK, Calls
<1>4. call' \in [Agent -> Calls \cup {Idle}] /\ \A b \in Agent : b # a => call'[b] = call[b]
  BY <1>2, <1>3 DEF TypeOK
<1>5. Entry(a)' = Entry(a)
  BY <1>3 DEF Entry
<1>6. /\ call[a].event \in history /\ call[a].event.at <= now
      /\ call[a].event.at <= call[a].guard
      /\ \A x \in log : Id(x) # Id(Entry(a))
      /\ \A b \in Agent : b # a /\ Holds(b) => Id(Entry(b)) # Id(Entry(a))
  BY <1>0 DEF CallInv
<1> QED
  BY <1>2, <1>3, <1>4, <1>5, <1>6, CallSteps

\* A report is stamped with a time of the clock.
LEMMA OccurredType ==
  ASSUME TypeOK, NEW s \in Stamps
  PROVE  Occurred(s) \in 1 .. MaxTime + 1
BY Types, TaskAssumption DEF Occurred, Stamps, Time

LEMMA IngestStep ==
  ASSUME IInv, NEW a \in Agent, NEW e \in history, NEW s \in e.stamps, Ingest(a, e, s)
  PROVE  IInv' /\ Respected
<1> USE Types DEF IInv
<1> PICK t : t = Occurred(s)
  OBVIOUS
<1> PICK n : n = now
  OBVIOUS
<1> DEFINE id == [kind |-> e.kind, second |-> Second(t)]
           held == [at |-> "update", event |-> e, occurred |-> t, guard |-> n]
           waiting == [at |-> "wait", event |-> e, occurred |-> t, guard |-> 0]
           c == IF Free(id) THEN held ELSE waiting
<1>1. /\ call[a] = Idle /\ e.at <= n
      /\ \A x \in log : Id(x) # id
      /\ call' = [call EXCEPT ![a] = c]
      /\ UNCHANGED <<history, now, row, log, refused, probe, orphaned>>
  BY DEF Ingest
<1>2. e \in Event /\ t \in 1 .. MaxTime + 1 /\ n \in 0 .. MaxTime /\ 0 \in 0 .. MaxTime
  BY EventTypes, OccurredType, TaskAssumption DEF Time
<1>3. held \in Calls /\ waiting \in Calls
  BY <1>2 DEF Calls
<1>4. c \in Calls /\ c.event = e /\ c.occurred = t /\ (c = waiting \/ (c = held /\ Free(id)))
  BY <1>3
<1>5. c.at = "update" => c = held /\ Free(id)
  BY <1>4
<1>6. c.at \notin {"exists", "insert"}
  OBVIOUS
<1>7. held.guard = n
  OBVIOUS
<1> HIDE DEF c, held, waiting
<1>8. call' \in [Agent -> Calls \cup {Idle}] /\ call'[a] = c
      /\ \A b \in Agent : b # a => call'[b] = call[b]
  BY <1>1, <1>4 DEF TypeOK
<1>9. Id(Entry(a)') = id
  BY <1>4, <1>8 DEF Entry, Id
<1>10. Holds(a)' => c = held /\ Free(id)
  BY <1>5, <1>6, <1>8 DEF Holds
<1>11. Holds(a)' =>
          /\ call'[a].event.at <= call'[a].guard
          /\ \A x \in log : Id(x) # Id(Entry(a)')
          /\ \A b \in Agent : b # a /\ Holds(b) => Id(Entry(b)) # Id(Entry(a)')
  BY <1>1, <1>4, <1>7, <1>8, <1>9, <1>10 DEF Free
<1>12. call'[a].event \in history /\ call'[a].event.at <= now
  BY <1>1, <1>4, <1>8
<1> QED
  BY <1>1, <1>8, <1>11, <1>12, CallSteps

LEMMA AwaitedStep ==
  ASSUME IInv, NEW a \in Agent, Awaited(a)
  PROVE  IInv' /\ Respected
<1> USE Types DEF IInv
<1> PICK n : n = now
  OBVIOUS
<1> DEFINE c == [call[a] EXCEPT !.at = "update", !.guard = n]
<1>1. /\ call[a].at = "wait" /\ Free(Id(Entry(a)))
      /\ UNCHANGED <<history, now, row, log, refused, probe, orphaned>>
      /\ \/ call' = [call EXCEPT ![a] = Idle]
         \/ Id(Entry(a)) \notin {Id(x) : x \in log} /\ call' = [call EXCEPT ![a] = c]
  BY DEF Awaited, TypeOK
<1>2. call[a] # Idle
  BY <1>1 DEF Idle
<1>3. call[a] \in Calls /\ n \in 0 .. MaxTime
  BY <1>2, CallTypes, TaskAssumption DEF Time
<1>4. c \in Calls /\ c.event = call[a].event /\ c.occurred = call[a].occurred /\ c.guard = n
  BY <1>3 DEF Calls
<1> HIDE DEF c
<1>5. CASE call' = [call EXCEPT ![a] = Idle]
  <2>1. call' \in [Agent -> Calls \cup {Idle}] /\ call'[a] = Idle /\ ~Holds(a)'
        /\ \A b \in Agent : b # a => call'[b] = call[b]
    BY <1>5 DEF TypeOK, Holds, Idle
  <2> QED
    BY <1>1, <2>1, CallSteps
<1>6. CASE Id(Entry(a)) \notin {Id(x) : x \in log} /\ call' = [call EXCEPT ![a] = c]
  <2>1. call' \in [Agent -> Calls \cup {Idle}] /\ call'[a] = c
        /\ \A b \in Agent : b # a => call'[b] = call[b]
    BY <1>4, <1>6 DEF TypeOK
  <2>2. Entry(a)' = Entry(a)
    BY <1>4, <2>1 DEF Entry
  <2>3. call[a].event \in history /\ call[a].event.at <= n
    BY <1>2 DEF CallInv
  <2>4. \A b \in Agent : b # a /\ Holds(b) => Id(Entry(b)) # Id(Entry(a))
    BY <1>1 DEF Free
  <2> QED
    BY <1>1, <1>4, <1>6, <2>1, <2>2, <2>3, <2>4, CallSteps
<1> QED
  BY <1>1, <1>5, <1>6

LEMMA EventStep ==
  ASSUME IInv, EventNext
  PROVE  IInv' /\ Respected
<1>1. ASSUME NEW a \in Agent, NEW e \in history, NEW s \in e.stamps, Ingest(a, e, s)
      PROVE  IInv' /\ Respected
  BY <1>1, IngestStep
<1>0. ASSUME NEW a \in Agent, Awaited(a) PROVE IInv' /\ Respected
  BY <1>0, AwaitedStep
<1>2. ASSUME NEW a \in Agent, Update(a) PROVE IInv' /\ Respected
  <2>1. Holds(a)
    BY <1>2 DEF Update, Holds
  <2>2. \/ Proceed(a, "exists") \/ Refuse(a)
        \/ Eligible(call[a].event, ProjectedAt(a), call[a].guard) /\ Apply(a)
    BY <1>2 DEF Update
  <2> QED
    BY <2>1, <2>2, ProceedStep, RefuseStep, ApplyStep
<1>3. ASSUME NEW a \in Agent, Look(a) PROVE IInv' /\ Respected
  <2>1. Holds(a)
    BY <1>3 DEF Look, Holds
  <2>2. Proceed(a, "insert") \/ Refuse(a)
    BY <1>3 DEF Look
  <2> QED
    BY <2>1, <2>2, ProceedStep, RefuseStep
<1>4. ASSUME NEW a \in Agent, Insert(a) PROVE IInv' /\ Respected
  <2>1. Holds(a)
    BY <1>4 DEF Insert, Holds
  <2>2. \/ Refuse(a)
        \/ (row.state = "absent" \/ Eligible(call[a].event, ProjectedAt(a), call[a].guard)) /\ Apply(a)
    BY <1>4 DEF Insert
  <2> QED
    BY <2>1, <2>2, RefuseStep, ApplyStep
<1>5. ASSUME NEW a \in Agent, Abort(a) PROVE IInv' /\ Respected
  <2>1. /\ call' = [call EXCEPT ![a] = Idle]
        /\ UNCHANGED <<history, now, row, log, refused, probe, orphaned>>
    BY <1>5 DEF Abort
  <2>2. call' \in [Agent -> Calls \cup {Idle}] /\ call'[a] = Idle /\ ~Holds(a)'
        /\ \A b \in Agent : b # a => call'[b] = call[b]
    BY <2>1 DEF IInv, TypeOK, Holds, Idle
  <2> QED
    BY <2>1, <2>2, CallSteps
<1> QED
  BY <1>0, <1>1, <1>2, <1>3, <1>4, <1>5 DEF EventNext

-----------------------------------------------------------------------------
(* Time and the probes *)

\* A step on the clock and the probes alone.
LEMMA ProbeSteps ==
  ASSUME IInv, UNCHANGED <<history, row, log, refused, call, orphaned>>,
         now' \in Time, now' >= now, probe' \in [Probe -> Probes \cup {Home}],
         ProbeInv'
  PROVE  IInv' /\ Respected
<1> USE Types DEF IInv
<1>1. TypeOK'
  BY DEF TypeOK
<1>2. RowInv'
  BY DEF RowInv, Ended
<1>4. CallInv'
  <2>1. \A a \in Agent : call[a] # Idle => call[a].event.at \in Nat
    BY CallTypes, EventTypes
  <2>2. now' \in Nat
    BY TaskAssumption DEF Time
  <2>3. \A a \in Agent : (Holds(a)' <=> Holds(a)) /\ Entry(a)' = Entry(a)
    BY SameCall
  <2> QED
    BY <2>1, <2>2, <2>3 DEF CallInv, Id
<1>3. DetailsAgree' /\ OutcomeKept'
  BY DEF DetailsAgree, OutcomeKept, Ended, IsTerminal
<1> QED
  BY <1>1, <1>2, <1>3, <1>4 DEF Respected, Ended

LEMMA TickStep ==
  ASSUME IInv, Tick
  PROVE  IInv' /\ Respected
<1> USE Types DEF IInv
<1>1. now' = now + 1 /\ now' \in Time
      /\ UNCHANGED <<history, row, log, refused, call, probe, orphaned>>
  BY TaskAssumption DEF Tick, Time
<1>2. \A p \in Probe : probe[p] # Home => probe[p].issued \in Nat
  BY TaskAssumption DEF TypeOK, Probes, Time
<1>3. ProbeInv'
  BY <1>1, <1>2 DEF ProbeInv
<1> QED
  BY <1>1, <1>3, ProbeSteps DEF TypeOK

\* The probe that is out, by its stage.
LEMMA ProbeTypes ==
  ASSUME TypeOK, NEW p \in Probe
  PROVE  /\ probe[p].at = "issued" => probe[p] # Home /\ probe[p].issued \in Time
         /\ probe[p].at = "answered" =>
               /\ probe[p] # Home /\ probe[p].issued \in Time /\ probe[p].asked \in Time
               /\ probe[p].answer \in Answers
         /\ probe[p].at = "read" =>
               /\ probe[p] # Home /\ probe[p].issued \in Time /\ probe[p].asked \in Time
               /\ probe[p].answer \in Answers
               /\ probe[p].seen \in States /\ probe[p].begun \in Time
BY DEF TypeOK, Probes, Home

\* One probe moves to a stage whose clock readings are in order.
LEMMA OneProbe ==
  ASSUME IInv, NEW p \in Probe, NEW q \in Probes \cup {Home},
         probe' = [probe EXCEPT ![p] = q],
         q # Home => q.issued <= now,
         q.at \in {"answered", "read"} => q.issued <= q.asked,
         q.at = "read" => q.issued <= q.begun /\ q.answer # "unknown",
         now' = now
  PROVE  probe' \in [Probe -> Probes \cup {Home}] /\ ProbeInv'
BY DEF IInv, TypeOK, ProbeInv

LEMMA IssueStep ==
  ASSUME IInv, NEW p \in Probe, Issue(p)
  PROVE  IInv' /\ Respected
<1> USE Types DEF IInv
<1> DEFINE q == [at |-> "issued", issued |-> now]
<1>1. probe' = [probe EXCEPT ![p] = q] /\ UNCHANGED <<history, now, row, log, refused, call, orphaned>>
  BY DEF Issue, UnchangedEvents
<1>2. q \in Probes /\ q.issued <= now /\ q.at = "issued"
  BY DEF Probes
<1> HIDE DEF q
<1>3. probe' \in [Probe -> Probes \cup {Home}] /\ ProbeInv'
  BY <1>1, <1>2, OneProbe
<1> QED
  BY <1>1, <1>3, ProbeSteps

LEMMA AnswerStep ==
  ASSUME IInv, NEW p \in Probe, Answer(p)
  PROVE  IInv' /\ Respected
<1> USE Types DEF IInv
<1> PICK answer : answer = EngineState(now)
  OBVIOUS
<1> DEFINE q == [at |-> "answered", issued |-> probe[p].issued, asked |-> now,
                 answer |-> answer]
<1>1. /\ probe' = [probe EXCEPT ![p] = q] /\ probe[p].at = "issued"
      /\ UNCHANGED <<history, now, row, log, refused, call, orphaned>>
  BY DEF Answer, UnchangedEvents
<1>2. probe[p].issued \in Time /\ probe[p].issued <= now
  BY <1>1, ProbeTypes DEF ProbeInv
<1>3. answer \in Answers
  BY EngineStateType
<1>4. q \in Probes /\ q.issued = probe[p].issued /\ q.asked = now /\ q.at = "answered"
  BY <1>2, <1>3 DEF Probes
<1> HIDE DEF q
<1>5. probe' \in [Probe -> Probes \cup {Home}] /\ ProbeInv'
  BY <1>1, <1>2, <1>4, OneProbe
<1> QED
  BY <1>1, <1>5, ProbeSteps

LEMMA DropStep ==
  ASSUME IInv, NEW p \in Probe, Drop(p)
  PROVE  IInv' /\ Respected
<1>1. probe' = [probe EXCEPT ![p] = Home] /\ UNCHANGED <<history, now, row, log, refused, call, orphaned>>
  BY DEF Drop, UnchangedEvents
<1>2. probe' \in [Probe -> Probes \cup {Home}] /\ ProbeInv'
  BY <1>1, OneProbe DEF Home
<1>3. now' \in Time /\ now' >= now
  BY <1>1, Types DEF IInv
<1> QED
  BY <1>1, <1>2, <1>3, ProbeSteps

LEMMA ReadStep ==
  ASSUME IInv, NEW p \in Probe, ReadRow(p)
  PROVE  IInv' /\ Respected
<1> USE Types DEF IInv
<1> DEFINE q == [at |-> "read", issued |-> probe[p].issued, asked |-> probe[p].asked,
                 answer |-> probe[p].answer,
                 seen |-> row.state, begun |-> now]
<1>1. \/ Drop(p)
      \/ /\ row.state # "absent" /\ probe[p].answer # "unknown"
         /\ probe' = [probe EXCEPT ![p] = q]
         /\ UNCHANGED <<history, now, row, log, refused, call, orphaned>>
  BY DEF ReadRow, UnchangedEvents
<1>2. CASE Drop(p)
  BY <1>2, DropStep
<1>3. CASE /\ row.state # "absent" /\ probe[p].answer # "unknown"
           /\ probe' = [probe EXCEPT ![p] = q]
           /\ UNCHANGED <<history, now, row, log, refused, call, orphaned>>
  <2>1. probe[p].at = "answered"
    BY DEF ReadRow
  <2>2. /\ probe[p].issued \in Time /\ probe[p].asked \in Time
        /\ probe[p].answer \in Answers
        /\ probe[p].issued <= now /\ probe[p].issued <= probe[p].asked
    BY <2>1, ProbeTypes DEF ProbeInv
  <2>3. q \in Probes /\ q.issued = probe[p].issued /\ q.asked = probe[p].asked
        /\ q.at = "read" /\ q.begun = now /\ q.answer = probe[p].answer
    BY <1>3, <2>2 DEF Probes
  <2> HIDE DEF q
  <2>4. probe' \in [Probe -> Probes \cup {Home}] /\ ProbeInv'
    BY <1>3, <2>2, <2>3, OneProbe
  <2> QED
    BY <1>3, <2>4, ProbeSteps
<1> QED
  BY <1>1, <1>2, <1>3

\* What a correction does, when it does anything.
Corrects(p) ==
    /\ \E finish \in Finishes(probe[p].asked), text \in BOOLEAN : row' = Corrected(p, finish, text)
    /\ orphaned' = IF probe[p].answer \in TerminalStates THEN orphaned + 1 ELSE orphaned
    /\ probe' = [probe EXCEPT ![p] = Home]
    /\ UNCHANGED <<history, now, log, refused, call>>

LEMMA CorrectCases ==
  ASSUME NEW p \in Probe, Correct(p)
  PROVE  probe[p].at = "read" /\ (Drop(p) \/ (Correctable(p) /\ Corrects(p)))
BY DEF Correct, Corrects, UnchangedEvents

\* What a correction leaves in the row.
LEMMA CorrectedRow ==
  ASSUME IInv, NEW p \in Probe, probe[p].at = "read", Corrects(p)
  PROVE  /\ row' \in Row /\ row'.state = probe[p].answer /\ row'.updated = probe[p].begun
         /\ row'.result = row.result
         /\ row'.error = row.error \/ row'.error = TRUE
<1> USE Types, TaskAssumption DEF IInv
<1> PICK finish \in Finishes(probe[p].asked), text \in BOOLEAN : row' = Corrected(p, finish, text)
  BY DEF Corrects
<1> DEFINE end == IF row.finished = 0 THEN finish ELSE row.finished
           error == row.error \/ text
<1> PICK answer, begun : answer = probe[p].answer /\ begun = probe[p].begun
  OBVIOUS
<1>1. row \in Row /\ answer \in Answers /\ begun \in 0 .. MaxTime /\ answer # "unknown"
  BY ProbeTypes DEF TypeOK, ProbeInv, Time
<1>2. answer \in States
  BY <1>1, StatesAre DEF Answers
<1>3. finish \in Stamps
  BY EngineStateType
<1>4. end \in Stamps /\ error \in BOOLEAN
  BY <1>1, <1>3 DEF Row
<1>5. row' = [row EXCEPT !.state = answer, !.finished = end, !.error = error, !.updated = begun]
  BY <1>1 DEF Corrected, Row
<1>6. text = TRUE \/ text = FALSE
  OBVIOUS
<1>7. error = row.error \/ error = TRUE
  BY <1>1, <1>6 DEF Row
<1> HIDE DEF end, error
<1>8. row' \in Row /\ row'.state = answer /\ row'.updated = begun /\ row'.error = error
      /\ row'.result = row.result
  BY <1>1, <1>2, <1>4, <1>5 DEF Row
<1> QED
  BY <1>7, <1>8

LEMMA CorrectStep ==
  ASSUME IInv, NEW p \in Probe, probe[p].at = "read", Correctable(p), Corrects(p)
  PROVE  IInv' /\ Respected
<1> USE Types, TaskAssumption DEF IInv
<1> PICK answer, begun : answer = probe[p].answer /\ begun = probe[p].begun
  OBVIOUS
<1>1. /\ answer \in {"pending", "started", "success", "failure"}
      /\ begun \in Nat /\ probe[p].issued \in Nat /\ probe[p].issued <= begun
  BY ProbeTypes DEF ProbeInv, Time, Answers
<1>2. ~Ended /\ ~row.result
  BY DEF Correctable, DetailsAgree, Ended, TerminalStates
<1>3. answer \in TerminalStates \/ row.updated <= begun
  BY <1>1 DEF Correctable, Fresh
<1>4. /\ UNCHANGED <<history, now, log, refused, call>>
      /\ orphaned' = (IF answer \in TerminalStates THEN orphaned + 1 ELSE orphaned)
      /\ probe' = [probe EXCEPT ![p] = Home]
  BY DEF Corrects
<1>6. row' \in Row /\ row'.state = answer /\ row'.updated = begun /\ ~row'.result
  BY <1>2, CorrectedRow
<1>7. probe' \in [Probe -> Probes \cup {Home}] /\ ProbeInv'
  BY <1>4, OneProbe DEF Home
<1>8. TypeOK'
  BY <1>4, <1>6, <1>7 DEF TypeOK
<1>9. CallInv'
  <2>1. \A a \in Agent : (Holds(a)' <=> Holds(a)) /\ Entry(a)' = Entry(a)
    BY <1>4, SameCall
  <2> QED
    BY <1>4, <2>1 DEF CallInv, Id
<1>10. Ended' <=> answer \in TerminalStates
  BY <1>6 DEF Ended
<1>11. RowInv'
  <2>2. ASSUME ~Ended', NEW x \in log' \ refused' PROVE x.event.at <= row'.updated
    <3>1. x.event.at <= row.updated
      BY <2>2, <1>2, <1>4 DEF RowInv
    <3>2. x.event.at \in Nat
      BY <2>2, <1>4, EventTypes DEF TypeOK, Entries
    <3> QED
      BY <2>2, <3>1, <3>2, <1>1, <1>3, <1>6, <1>10
  <2>3. orphaned' # 0 => Ended'
    BY <1>2, <1>4, <1>10 DEF RowInv
  <2> QED
    BY <2>2, <2>3, <1>1, <1>6 DEF RowInv
<1>12. DetailsAgree'
  BY <1>1, <1>6 DEF DetailsAgree
<1>13. OutcomeKept'
  BY <1>2, <1>4 DEF OutcomeKept, IsTerminal
<1> QED
  BY <1>2, <1>7, <1>8, <1>9, <1>11, <1>12, <1>13 DEF Respected, Ended

LEMMA ProbeStep ==
  ASSUME IInv, ProbeNext
  PROVE  IInv' /\ Respected
<1>1. ASSUME NEW p \in Probe, Issue(p) PROVE IInv' /\ Respected
  BY <1>1, IssueStep
<1>2. ASSUME NEW p \in Probe, Answer(p) PROVE IInv' /\ Respected
  BY <1>2, AnswerStep
<1>3. ASSUME NEW p \in Probe, ReadRow(p) PROVE IInv' /\ Respected
  BY <1>3, ReadStep
<1>4. ASSUME NEW p \in Probe, Correct(p) PROVE IInv' /\ Respected
  BY <1>4, CorrectCases, DropStep, CorrectStep
<1>5. ASSUME NEW p \in Probe, Lose(p) PROVE IInv' /\ Respected
  <2>1. Drop(p)
    BY <1>5 DEF Lose
  <2> QED
    BY <2>1, DropStep
<1> QED
  BY <1>1, <1>2, <1>3, <1>4, <1>5 DEF ProbeNext

-----------------------------------------------------------------------------
(* Every step *)

LEMMA NextInv ==
  ASSUME IInv, [Next]_vars
  PROVE  IInv' /\ [Respected]_vars
<1>1. CASE UNCHANGED vars
  <2>1. UNCHANGED <<history, now, row, log, refused, call, probe, orphaned>>
    BY <1>1 DEF vars
  <2>2. ProbeInv'
    BY <2>1 DEF IInv, ProbeInv
  <2>3. now' \in Time /\ now' >= now /\ probe' \in [Probe -> Probes \cup {Home}]
    BY <2>1, Types DEF IInv, TypeOK
  <2> QED
    BY <1>1, <2>1, <2>2, <2>3, ProbeSteps
<1>2. CASE Tick
  BY <1>2, TickStep
<1>3. CASE EventNext
  BY <1>3, EventStep
<1>4. CASE ProbeNext
  BY <1>4, ProbeStep
<1> QED
  BY <1>1, <1>2, <1>3, <1>4 DEF Next

LEMMA Inductive == Spec => []IInv
BY InitInv, NextInv, PTL DEF Spec

-----------------------------------------------------------------------------
(* The theorems *)

\* Every event, probe and clock reading keeps the projection well formed
\* (the tasks table and TaskRepository).
THEOREM TypeCorrect == Spec => []TypeOK
<1>1. IInv => TypeOK
  BY DEF IInv
<1> QED
  BY Inductive, <1>1, PTL

\* A task shown finished is never shown open again, in whatever order replicas
\* ingest events and answers arrive (upsert_from_event, apply_reconciled_state).
THEOREM TerminalNeverReopens == Spec => TerminalStays
<1>1. [Respected]_vars => [Ended => row'.state \in TerminalStates]_vars
  BY DEF Respected
<1> QED
  BY Inductive, NextInv, <1>1, PTL DEF Spec, TerminalStays

\* No older outcome overwrites a newer one (lifecycle_not_newer with the
\* processing-order fence).
THEOREM OutcomesGoForward == Spec => OutcomeForward
<1>1. [Respected]_vars =>
        [Ended /\ row.finished <= row.updated => row'.finished >= row.finished]_vars
  BY DEF Respected
<1> QED
  BY Inductive, NextInv, <1>1, PTL DEF Spec, OutcomeForward

\* A result is never shown beside an exception or without its success, and a
\* revoked task shows neither, whatever answers bring an exception to a row that
\* is open (upsert_from_event, apply_reconciled_state).
THEOREM DetailsAlwaysAgree == Spec => []DetailsAgree
<1>1. IInv => DetailsAgree
  BY DEF IInv
<1> QED
  BY Inductive, <1>1, PTL

\* An outcome that was acknowledged is shown, or was turned down on purpose.
THEOREM NoOutcomeLost == Spec => []OutcomeKept
<1>1. IInv => OutcomeKept
  BY DEF IInv
<1> QED
  BY Inductive, <1>1, PTL

\* A call keeps its event and the time it was given, from its first statement on.
LEMMA CallKeeps ==
  ASSUME IInv, [Next]_vars, NEW b \in Agent, call'[b] # Idle
  PROVE  \/ /\ call[b] # Idle /\ call'[b].event = call[b].event
            /\ call'[b].occurred = call[b].occurred
         \/ \E e \in history : \E s \in e.stamps :
               e.at <= now /\ call'[b].event = e /\ call'[b].occurred = Occurred(s)
<1> USE DEF IInv
<1>1. call \in [Agent -> Calls \cup {Idle}]
  BY DEF TypeOK
<1>2. CASE call' = call
  BY <1>2
<1>3. ASSUME NEW a \in Agent, call[a] # Idle, NEW at, Proceed(a, at)
      PROVE  /\ call[b] # Idle /\ call'[b].event = call[b].event
             /\ call'[b].occurred = call[b].occurred
  <2>1. CASE b = a
    <3>1. call[a] \in Calls
      BY <1>1, <1>3
    <3>2. call'[a] = [call[a] EXCEPT !.at = at]
      BY <1>1, <1>3 DEF Proceed
    <3> QED
      BY <1>3, <2>1, <3>1, <3>2 DEF Calls
  <2>2. CASE b # a
    BY <1>1, <1>3, <2>2 DEF Proceed
  <2> QED
    BY <2>1, <2>2
<1>4. ASSUME NEW a \in Agent, call' = [call EXCEPT ![a] = Idle]
      PROVE  call[b] # Idle /\ call'[b] = call[b]
  BY <1>1, <1>4
<1>5. ASSUME NEW a \in Agent, NEW e \in history, NEW s \in e.stamps, Ingest(a, e, s)
      PROVE  \/ call'[b] = call[b]
             \/ e.at <= now /\ call'[b].event = e /\ call'[b].occurred = Occurred(s)
  BY <1>1, <1>5 DEF Ingest
<1>6. ASSUME NEW a \in Agent, Awaited(a)
      PROVE  /\ call[b] # Idle /\ call'[b].event = call[b].event
             /\ call'[b].occurred = call[b].occurred
  <2>1. CASE call' = [call EXCEPT ![a] = Idle]
    BY <1>4, <2>1
  <2>2. CASE call' = [call EXCEPT ![a].at = "update", ![a].guard = now]
    <3>1. call[a] # Idle
      BY <1>6 DEF Awaited, Idle
    <3>2. call[a] \in Calls
      BY <1>1, <3>1
    <3>3. call' = [call EXCEPT ![a] = [call[a] EXCEPT !.at = "update", !.guard = now]]
      BY <1>1, <2>2, <3>2 DEF Calls
    <3>4. CASE b = a
      BY <1>1, <3>1, <3>2, <3>3, <3>4 DEF Calls
    <3>5. CASE b # a
      BY <1>1, <3>3, <3>5
    <3> QED
      BY <3>4, <3>5
  <2> QED
    BY <1>6, <2>1, <2>2 DEF Awaited
<1>7. CASE EventNext
  <2>1. PICK a \in Agent : \/ \E e \in history : \E s \in e.stamps : Ingest(a, e, s)
                           \/ Awaited(a) \/ Update(a) \/ Look(a) \/ Insert(a) \/ Abort(a)
    BY <1>7 DEF EventNext
  <2>2. Update(a) \/ Look(a) \/ Insert(a) => call[a] # Idle
    BY DEF Update, Look, Insert, Idle
  <2>3. \/ \E e \in history : \E s \in e.stamps : Ingest(a, e, s)
        \/ Awaited(a)
        \/ call' = [call EXCEPT ![a] = Idle]
        \/ call[a] # Idle /\ (Proceed(a, "exists") \/ Proceed(a, "insert"))
    BY <2>1, <2>2 DEF Update, Look, Insert, Abort, Apply, Refuse
  <2> QED
    BY <2>3, <1>2, <1>3, <1>4, <1>5, <1>6
<1>8. CASE Tick \/ ProbeNext \/ UNCHANGED vars
  BY <1>2, <1>8 DEF Tick, ProbeNext, Issue, Answer, ReadRow, Correct, Lose, Drop, UnchangedEvents, vars
<1> QED
  BY <1>7, <1>8 DEF Next

\* What is new in the log was held by a call.
LEMMA LogGrows ==
  ASSUME [Next]_vars, NEW x \in log'
  PROVE  x \in log \/ \E a \in Agent : call[a] # Idle /\ x = Entry(a)
<1>1. CASE EventNext
  <2>1. PICK a \in Agent : \/ log' = log
                           \/ (Update(a) \/ Look(a) \/ Insert(a)) /\ (Apply(a) \/ Refuse(a))
    BY <1>1 DEF EventNext, Ingest, Awaited, Update, Look, Insert, Abort, Proceed
  <2>2. Update(a) \/ Look(a) \/ Insert(a) => call[a] # Idle
    BY DEF Update, Look, Insert, Idle
  <2>3. Apply(a) \/ Refuse(a) => log' = log \cup {Entry(a)}
    BY DEF Apply, Refuse
  <2> QED
    BY <2>1, <2>2, <2>3
<1>2. CASE Tick \/ ProbeNext \/ UNCHANGED vars
  BY <1>2 DEF Tick, ProbeNext, Issue, Answer, ReadRow, Correct, Lose, Drop, UnchangedEvents, vars
<1> QED
  BY <1>1, <1>2 DEF Next

\* A steady event is known by one of the seconds that its reports carry.
SteadyInv ==
    /\ \A a \in Agent : call[a] # Idle /\ Steady(call[a].event) =>
          \E s \in call[a].event.stamps : Second(call[a].occurred) = Second(s)
    /\ \A x \in log : Steady(x.event) => \E s \in x.event.stamps : x.second = Second(s)

LEMMA SteadyStep ==
  ASSUME IInv, SteadyInv, [Next]_vars
  PROVE  SteadyInv'
<1> USE DEF IInv
<1>1. ASSUME NEW e \in history, NEW s \in e.stamps, e.at <= now, Steady(e)
      PROVE  Occurred(s) = s
  <2>1. e \in Event /\ e.at \in Nat /\ s \in Nat /\ now \in Nat /\ Ahead \in Nat
    BY <1>1, Types, EventTypes, TaskAssumption DEF Stamps
  <2>2. s # 0 /\ s <= e.at + Ahead
    BY <1>1 DEF Steady
  <2> QED
    BY <1>1, <2>1, <2>2 DEF Occurred
<1>2. ASSUME NEW b \in Agent, call'[b] # Idle, Steady(call'[b].event)
      PROVE  \E s \in call'[b].event.stamps : Second(call'[b].occurred) = Second(s)
  <2>1. CASE /\ call[b] # Idle /\ call'[b].event = call[b].event
             /\ call'[b].occurred = call[b].occurred
    BY <1>2, <2>1 DEF SteadyInv
  <2>2. CASE \E e \in history : \E s \in e.stamps :
               e.at <= now /\ call'[b].event = e /\ call'[b].occurred = Occurred(s)
    BY <1>1, <1>2, <2>2
  <2> QED
    BY <1>2, <2>1, <2>2, CallKeeps
<1>3. ASSUME NEW x \in log', Steady(x.event)
      PROVE  \E s \in x.event.stamps : x.second = Second(s)
  <2>1. CASE x \in log
    BY <1>3, <2>1 DEF SteadyInv
  <2>2. ASSUME NEW a \in Agent, call[a] # Idle, x = Entry(a)
        PROVE  \E s \in x.event.stamps : x.second = Second(s)
    <3>1. x.event = call[a].event /\ x.second = Second(call[a].occurred)
      BY <2>2 DEF Entry
    <3> QED
      BY <1>3, <2>2, <3>1 DEF SteadyInv
  <2> QED
    BY <2>1, <2>2, LogGrows
<1>4. \A e : Steady(e)' = Steady(e)
  BY DEF Steady, Second
<1> QED
  BY <1>2, <1>3, <1>4 DEF SteadyInv, Second

\* An event whose reports agree on its second, however many there are and however
\* often they are sent, is projected once at most: a report of it that still waits
\* or comes later bears the id of the one in flight or in the log
\* (EventIngestor._ingest_one, EventRepository.insert).
THEOREM EventsProjectedOnce == Spec => ProjectedOnce
<1>1. Init => SteadyInv
  BY DEF Init, SteadyInv, Idle
<1>2. IInv /\ SteadyInv /\ [Next]_vars => SteadyInv'
  BY SteadyStep
<1>3. ASSUME IInv, SteadyInv, NEW a \in Agent, Holds(a), Steady(call[a].event), NEW x \in log
      PROVE  x.event # call[a].event
  <2>1. SUFFICES ASSUME x.event = call[a].event
                 PROVE  FALSE
    OBVIOUS
  <2>2. PICK s \in call[a].event.stamps : Second(call[a].occurred) = Second(s)
    BY <1>3, Busy DEF SteadyInv
  <2>3. PICK t \in call[a].event.stamps : x.second = Second(t)
    BY <1>3, <2>1 DEF SteadyInv
  <2>4. Second(s) = Second(t)
    BY <1>3 DEF Steady
  <2>5. Id(x) = Id(Entry(a))
    BY <2>1, <2>2, <2>3, <2>4 DEF Id, Entry
  <2> QED
    BY <1>3, <2>5 DEF IInv, CallInv
<1>4. IInv /\ SteadyInv /\ [Next]_vars =>
        [\A a \in Agent :
            Holds(a) /\ call'[a] = Idle /\ row' # row /\ Steady(call[a].event)
            => \A x \in log : x.event # call[a].event]_vars
  BY <1>3
<1> QED
  BY Inductive, <1>1, <1>2, <1>4, PTL DEF Spec, ProjectedOnce

\* task.orphaned fires at most once for a task, and never for one that is shown
\* finished (apply_reconciled_state).
THEOREM OrphanedAtMostOnce == Spec => OrphanedOnce
<1>1. ASSUME IInv, Next, orphaned' # orphaned PROVE ~Ended /\ orphaned = 0
  <2>1. CASE Tick
    BY <1>1, <2>1 DEF Tick
  <2>2. CASE EventNext
    BY <1>1, <2>2 DEF EventNext, Ingest, Awaited, Update, Look, Insert, Abort, Apply, Refuse,
                          Proceed
  <2>3. CASE \E p \in Probe : Issue(p) \/ Answer(p) \/ ReadRow(p) \/ Lose(p)
    BY <1>1, <2>3 DEF Issue, Answer, ReadRow, Lose, Drop
  <2>4. ASSUME NEW p \in Probe, Correct(p) PROVE ~Ended /\ orphaned = 0
    <3>1. Correctable(p)
      BY <1>1, <2>4, CorrectCases DEF Drop
    <3>2. ~Ended
      BY <3>1 DEF Correctable, Ended
    <3> QED
      BY <1>1, <3>2 DEF IInv, RowInv
  <2> QED
    BY <1>1, <2>1, <2>2, <2>3, <2>4 DEF Next, ProbeNext
<1>2. IInv /\ [Next]_vars => [orphaned' # orphaned => ~Ended /\ orphaned = 0]_vars
  BY <1>1
<1> QED
  BY Inductive, <1>2, PTL DEF Spec, OrphanedOnce

\* A non-terminal answer never overrules an event that happened after the engine
\* was asked (the compare-and-set of apply_reconciled_state).
THEOREM LaterEventsKept == Spec => LaterEventKept
<1> DEFINE Fine(p) ==
      /\ probe[p].at = "read"
      /\ probe[p].answer \notin TerminalStates
      /\ row' # row /\ probe'[p] = Home
      => \A x \in log \ refused : x.event.at <= probe[p].asked
<1>1. ASSUME IInv, Next, NEW p \in Probe, probe[p].at = "read",
             probe[p].answer \notin TerminalStates, row' # row, probe'[p] = Home,
             NEW x \in log \ refused
      PROVE  x.event.at <= probe[p].asked
  <2>0. TypeOK /\ ProbeInv /\ RowInv
    BY <1>1 DEF IInv
  <2>1. probe[p] # Home /\ probe[p].issued \in Nat /\ probe[p].asked \in Nat
        /\ probe[p].issued <= probe[p].asked
    BY <2>0, <1>1, ProbeTypes, TaskAssumption DEF ProbeInv, Time
  <2>2. probe' # probe
    BY <1>1, <2>1
  <2>3. ~Tick /\ ~EventNext
    BY <2>2 DEF Tick, EventNext, Ingest, Awaited, Update, Look, Insert, Abort, Apply, Refuse,
                 Proceed
  <2>4. PICK q \in Probe : Correct(q)
    BY <1>1, <2>3 DEF Next, ProbeNext, Issue, Answer, ReadRow, Lose, Drop
  <2>5. Correctable(q) /\ Corrects(q)
    BY <1>1, <2>4, CorrectCases DEF Drop
  <2>6. q = p
    BY <2>0, <2>1, <2>5, <1>1 DEF Corrects, TypeOK
  <2>7. ~Ended /\ row.updated <= probe[p].issued
    BY <2>5, <2>6, <1>1 DEF Correctable, Fresh, Ended
  <2>8. x.event.at <= row.updated /\ x.event.at \in Nat /\ row.updated \in Nat
    BY <2>0, <2>7, Types, EventTypes DEF RowInv, TypeOK, Entries
  <2> QED
    BY <2>1, <2>7, <2>8
<1>2. IInv /\ [Next]_vars => [\A p \in Probe : Fine(p)]_vars
  BY <1>1
<1> QED
  BY Inductive, <1>2, PTL DEF Spec, LaterEventKept

-----------------------------------------------------------------------------
(* How an outcome can lose *)

\* upsert_from_event: an outcome is turned down by a finished row, by a write
\* judged by a later clock reading, or by the look at a row that was inserted
\* after the UPDATE had found none.
OutcomeLosesOnlyOnLook ==
    [][\A a \in Agent :
          Holds(a) /\ Entry(a) \in refused' \ refused /\ IsTerminal(call[a].event)
          => Ended \/ row.updated > call[a].guard \/ call[a].at = "exists"]_vars

\* "terminal always wins" holds for the UPDATE and for the insert, however many
\* replicas race: the look between them is the one statement that breaks it
\* (TerminalWins).
THEOREM OutcomesLoseOnlyOnLook == Spec => OutcomeLosesOnlyOnLook
<1> DEFINE Fine(a) ==
      Holds(a) /\ Entry(a) \in refused' \ refused /\ IsTerminal(call[a].event)
      => Ended \/ row.updated > call[a].guard \/ call[a].at = "exists"
<1>1. ASSUME IInv, Next, NEW a \in Agent, Holds(a), Entry(a) \in refused' \ refused,
             IsTerminal(call[a].event), ~Ended, call[a].at # "exists"
      PROVE  row.updated > call[a].guard
  <2>0. row.updated \in Nat /\ call[a].guard \in Nat
    BY <1>1, Types, Busy, CallTypes DEF IInv
  <2>1. refused' # refused
    BY <1>1
  <2>2. EventNext
    BY <2>1, <1>1 DEF Next, Tick, ProbeNext, Issue, Answer, ReadRow, Correct, Lose, Drop,
                      UnchangedEvents
  <2>3. ASSUME NEW b \in Agent, Refuse(b), Holds(b) PROVE b = a
    <3>1. refused' = refused \cup {Entry(b)}
      BY <2>3 DEF Refuse
    <3>2. Entry(a) = Entry(b)
      BY <1>1, <3>1
    <3> QED
      BY <1>1, <2>3, <3>2 DEF IInv, CallInv
  <2>4. PICK b \in Agent : Update(b) \/ Look(b) \/ Insert(b)
    BY <2>1, <2>2 DEF EventNext, Ingest, Awaited, Abort
  <2>5. Refuse(b)
    BY <2>1, <2>4 DEF Update, Look, Insert, Apply, Proceed
  <2>6. Holds(b)
    BY <2>4 DEF Update, Look, Insert, Holds
  <2>7. a = b
    BY <2>3, <2>5, <2>6
  <2>8. Update(a) \/ Insert(a)
    BY <1>1, <2>4, <2>7 DEF Look
  <2>9. ~Eligible(call[a].event, ProjectedAt(a), call[a].guard)
    <3>1. ~Apply(a) /\ ~Proceed(a, "exists")
      BY <2>1 DEF Apply, Proceed
    <3> QED
      BY <2>8, <3>1 DEF Update, Insert
  <2> QED
    BY <1>1, <2>0, <2>9 DEF Eligible, Ended
<1>2. IInv /\ [Next]_vars => [\A a \in Agent : Fine(a)]_vars
  BY <1>1
<1> QED
  BY Inductive, <1>2, PTL DEF Spec, OutcomeLosesOnlyOnLook

-----------------------------------------------------------------------------
(* The contract *)

\* A probe that has read the row has found one.
FoundInv == \A p \in Probe : probe[p].at = "read" => row.state # "absent"

\* What a step can do that the contract sees.
LEMMA Moves ==
  ASSUME IInv, Next
  PROVE  \/ \E a \in Agent :
               /\ Holds(a) /\ Apply(a)
               /\ row.state = "absent" \/ Eligible(call[a].event, ProjectedAt(a), call[a].guard)
         \/ \E a \in Agent : Holds(a) /\ row.state # "absent" /\ Refuse(a)
         \/ \E p \in Probe : probe[p].at = "read" /\ Correctable(p) /\ Corrects(p)
         \/ UNCHANGED <<history, row, log, refused, orphaned>>
<1>1. CASE Tick
  BY <1>1 DEF Tick
<1>2. CASE EventNext
  <2>1. ASSUME NEW a \in Agent, Update(a)
        PROVE  \/ Proceed(a, "exists")
               \/ Holds(a) /\ row.state # "absent" /\ Refuse(a)
               \/ Holds(a) /\ Eligible(call[a].event, ProjectedAt(a), call[a].guard) /\ Apply(a)
    BY <2>1 DEF Update, Holds
  <2>2. ASSUME NEW a \in Agent, Look(a)
        PROVE  Proceed(a, "insert") \/ (Holds(a) /\ row.state # "absent" /\ Refuse(a))
    BY <2>2 DEF Look, Holds
  <2>3. ASSUME NEW a \in Agent, Insert(a)
        PROVE  \/ Holds(a) /\ row.state # "absent" /\ Refuse(a)
               \/ /\ Holds(a) /\ Apply(a)
                  /\ row.state = "absent" \/ Eligible(call[a].event, ProjectedAt(a), call[a].guard)
    BY <2>3 DEF Insert, Holds
  <2>4. ASSUME NEW a \in Agent, NEW at, Proceed(a, at)
        PROVE  UNCHANGED <<history, row, log, refused, orphaned>>
    BY <2>4 DEF Proceed
  <2>5. ASSUME NEW a \in Agent, (\E e \in history : \E s \in e.stamps : Ingest(a, e, s)) \/ Awaited(a)
        PROVE  UNCHANGED <<history, row, log, refused, orphaned>>
    BY <2>5 DEF Ingest, Awaited
  <2>6. ASSUME NEW a \in Agent, Abort(a)
        PROVE  UNCHANGED <<history, row, log, refused, orphaned>>
    BY <2>6 DEF Abort
  <2> QED
    BY <1>2, <2>1, <2>2, <2>3, <2>4, <2>5, <2>6 DEF EventNext
<1>3. CASE ProbeNext
  <2>1. ASSUME NEW p \in Probe, Issue(p) \/ Answer(p) \/ ReadRow(p) \/ Lose(p) \/ Drop(p)
        PROVE  UNCHANGED <<history, row, log, refused, orphaned>>
    BY <2>1 DEF Issue, Answer, ReadRow, Lose, Drop, UnchangedEvents
  <2> QED
    BY <1>3, <2>1, CorrectCases DEF ProbeNext
<1> QED
  BY <1>1, <1>2, <1>3 DEF Next

\* The id of what a call holds, as the contract sees it.
LEMMA HeldId ==
  ASSUME IInv, NEW a \in Agent, Holds(a)
  PROVE  /\ Id(Entry(a)) \notin {Id(x) : x \in log}
         /\ call[a].event \in history /\ Second(call[a].occurred) \in Seconds
         /\ Id(Entry(a)) = [kind |-> call[a].event.kind, second |-> Second(call[a].occurred)]
<1> USE DEF IInv
<1>1. \A x \in log : Id(x) # Id(Entry(a))
  BY DEF CallInv
<1>2. call[a].event \in history /\ Entry(a) \in Entries
  BY Busy, CallTypes DEF CallInv
<1> QED
  BY <1>1, <1>2 DEF Id, Entry, Entries

LEMMA ApplyImplements ==
  ASSUME IInv, NEW a \in Agent, Holds(a), Apply(a),
         row.state = "absent" \/ Eligible(call[a].event, ProjectedAt(a), call[a].guard)
  PROVE  Contract!Project(Id(Entry(a))) /\ row'.state # "absent"
<1> USE Types DEF IInv
<1> PICK e, t, g, x : e = call[a].event /\ t = ProjectedAt(a) /\ g = call[a].guard /\ x = Entry(a)
  OBVIOUS
<1>1. /\ e \in Event /\ e.kind \in Kind /\ t \in 0 .. MaxTime /\ g \in 0 .. MaxTime
      /\ Id(x).kind = e.kind
  BY Busy, CallTypes, EventTypes, HeldId
<1>2. row' = Written(row, e, t, g) /\ log' = log \cup {x} /\ UNCHANGED <<history, refused, orphaned>>
  BY DEF Apply
<1>3. /\ row' \in Row /\ row'.state = StateFor[e.kind]
      /\ IsTerminal(e) => /\ row'.result <=> e.kind = "succeeded"
                          /\ row'.error <=> e.kind = "failed"
      /\ ~IsTerminal(e) => /\ row'.result <=> row.result
                           /\ row'.error <=> row.error
  BY <1>1, <1>2, WrittenRow
<1>4. row'.state # "absent"
  BY <1>1, <1>3, StateNames
<1>5. ~IsTerminal(e) => ~Ended
  BY DEF Eligible, Ended, TerminalStates
<1>6. Detail' = CASE e.kind = "succeeded" -> "result"
                  [] e.kind = "failed" -> "error"
                  [] e.kind = "revoked" -> "none"
                  [] OTHER -> Detail
  <2>1. IsTerminal(e) <=> e.kind \in {"succeeded", "failed", "revoked"}
    BY <1>1 DEF IsTerminal, Kind, StateFor, TerminalStates
  <2>2. CASE e.kind = "succeeded"
    BY <1>3, <2>1, <2>2 DEF Detail
  <2>3. CASE e.kind = "failed"
    BY <1>3, <2>1, <2>3 DEF Detail
  <2>4. CASE e.kind = "revoked"
    BY <1>3, <2>1, <2>4 DEF Detail
  <2>5. CASE ~IsTerminal(e)
    <3>1. Detail' = Detail
      BY <1>3, <2>5 DEF Detail
    <3> QED
      BY <2>1, <2>5, <3>1
  <2> QED
    BY <2>1, <2>2, <2>3, <2>4, <2>5
<1>7. Contract!Ended => StateFor[e.kind] \in TerminalStates
  BY <1>5 DEF Ended, Contract!Ended, IsTerminal
<1>8. {Id(y) : y \in log'} = {Id(y) : y \in log} \cup {Id(x)}
  BY <1>2
<1>9. Id(x) \notin {Id(y) : y \in log}
  BY HeldId
<1> QED
  BY <1>1, <1>2, <1>3, <1>4, <1>6, <1>7, <1>8, <1>9 DEF Contract!Project, Id

LEMMA CorrectImplements ==
  ASSUME IInv, FoundInv, NEW p \in Probe, probe[p].at = "read", Correctable(p), Corrects(p)
  PROVE  /\ probe[p].answer \in {"pending", "started", "success", "failure"}
         /\ Contract!Correct(probe[p].answer)
         /\ row'.state # "absent"
<1> USE Types DEF IInv
<1> PICK answer : answer = probe[p].answer
  OBVIOUS
<1>1. answer \in {"pending", "started", "success", "failure"}
  BY ProbeTypes DEF ProbeInv, Answers
<1>2. ~row.result
  BY DEF Correctable, DetailsAgree, TerminalStates
<1>3. /\ row'.state = answer /\ row'.result = row.result
      /\ row'.error = row.error \/ row'.error = TRUE
  BY CorrectedRow
<1>4. Detail' \in {Detail, "error"}
  BY <1>2, <1>3 DEF Detail
<1>5. row.state \notin TerminalStates \cup {"absent", answer}
  BY DEF Correctable, FoundInv
<1>6. orphaned' = (IF answer \in TerminalStates THEN orphaned + 1 ELSE orphaned)
      /\ UNCHANGED <<history, log, refused>>
  BY DEF Corrects
<1> QED
  BY <1>1, <1>3, <1>4, <1>5, <1>6 DEF Contract!Correct, Id

LEMMA RefuseImplements ==
  ASSUME IInv, NEW a \in Agent, Holds(a), row.state # "absent", Refuse(a)
  PROVE  Contract!Refuse(Id(Entry(a))) /\ row'.state # "absent"
<1> PICK x : x = Entry(a)
  OBVIOUS
<1>1. Id(x) \notin {Id(y) : y \in log}
  BY HeldId
<1>2. Detail' = Detail
  BY DEF Refuse, Detail
<1>3. /\ log' = log \cup {x} /\ refused' = refused \cup {x}
      /\ UNCHANGED <<history, row, orphaned>>
  BY DEF Refuse
<1>4. /\ {Id(y) : y \in log'} = {Id(y) : y \in log} \cup {Id(x)}
      /\ {Id(y) : y \in refused'} = {Id(y) : y \in refused} \cup {Id(x)}
  BY <1>3
<1> QED
  BY <1>1, <1>2, <1>3, <1>4 DEF Contract!Refuse, Id

LEMMA StepImplements ==
  ASSUME IInv, FoundInv, [Next]_vars
  PROVE  [Contract!Next]_(Contract!contractVars) /\ (row.state # "absent" => row'.state # "absent")
<1>1. CASE UNCHANGED <<history, row, log, refused, orphaned>>
  BY <1>1 DEF Detail, Contract!contractVars, Id
<1>2. ASSUME NEW a \in Agent, Holds(a), Apply(a),
             row.state = "absent" \/ Eligible(call[a].event, ProjectedAt(a), call[a].guard)
      PROVE  Contract!Next /\ row'.state # "absent"
  BY <1>2, ApplyImplements, HeldId DEF Contract!Next
<1>3. ASSUME NEW a \in Agent, Holds(a), row.state # "absent", Refuse(a)
      PROVE  Contract!Next /\ row'.state # "absent"
  BY <1>3, RefuseImplements, HeldId DEF Contract!Next
<1>4. ASSUME NEW p \in Probe, probe[p].at = "read", Correctable(p), Corrects(p)
      PROVE  Contract!Next /\ row'.state # "absent"
  BY <1>4, CorrectImplements DEF Contract!Next
<1>5. CASE UNCHANGED vars
  BY <1>1, <1>5 DEF vars
<1> QED
  BY <1>1, <1>2, <1>3, <1>4, <1>5, Moves

LEMMA FoundStep == IInv /\ FoundInv /\ [Next]_vars => FoundInv'
<1> SUFFICES ASSUME IInv, FoundInv, [Next]_vars, NEW p \in Probe, probe'[p].at = "read"
             PROVE  row'.state # "absent"
  BY DEF FoundInv
<1>1. probe[p].at = "read" \/ row.state # "absent"
  <2>1. CASE probe'[p] = probe[p]
    BY <2>1
  <2>2. CASE probe'[p] # probe[p]
    <3>1. ProbeNext
      BY <2>2 DEF Next, vars, Tick, EventNext, Ingest, Awaited, Update, Look, Insert, Abort, Apply, Refuse,
                  Proceed
    <3>2. probe \in [Probe -> Probes \cup {Home}]
      BY DEF IInv, TypeOK
    <3>3. ASSUME NEW q \in Probe, Issue(q) \/ Answer(q) \/ Lose(q) \/ Correct(q)
          PROVE  probe'[p].at # "read" \/ probe'[p] = probe[p]
      BY <3>2, <3>3 DEF Issue, Answer, Lose, Correct, Drop, Home
    <3>4. ASSUME NEW q \in Probe, ReadRow(q)
          PROVE  probe'[p].at # "read" \/ probe'[p] = probe[p] \/ row.state # "absent"
      BY <3>2, <3>4 DEF ReadRow, Drop, Home
    <3> QED
      BY <2>2, <3>1, <3>3, <3>4 DEF ProbeNext
  <2> QED
    BY <2>1, <2>2
<1> QED
  BY <1>1, StepImplements DEF FoundInv

\* Batches of several agents, the statements of one transaction with others
\* between them, retransmissions and answers of probes that were read before: the
\* row moves as if each event and each correction were one step (tasks.py,
\* event_ingestor.py).
THEOREM TaskImplementsContract == Spec => ImplementsContract
<1>1. Init => Contract!Init
  BY DEF Init, Absent, Detail, Contract!Init
<1>2. Init => FoundInv
  BY DEF Init, FoundInv, Home
<1>3. IInv /\ FoundInv /\ [Next]_vars => FoundInv' /\ [Contract!Next]_(Contract!contractVars)
  BY FoundStep, StepImplements
<1> QED
  BY <1>1, <1>2, <1>3, Inductive, PTL DEF Spec, ImplementsContract, Contract!Spec
=============================================================================
