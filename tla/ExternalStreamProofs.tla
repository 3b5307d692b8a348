------------------------- MODULE ExternalStreamProofs -------------------------
(***************************************************************************)
(* The safety properties of ExternalStream, for any schedules and bounds.  *)
(***************************************************************************)
EXTENDS ExternalStream, TLAPS, FiniteSetTheorems

(***************************************************************************)
(* The inductive invariant                                                 *)
(***************************************************************************)

\* A session that is still to be greeted will need an epoch of its own.
CountInv == stream.epoch + Cardinality(greeting) <= opened /\ live <= opened

\* An epoch becomes active with its first observation; nothing is known of the
\* epochs to come.
StreamInv ==
    /\ stream.phase = "ACTIVE" => stream.accepted > 0
    /\ stream.accepted > 0 => stream.epoch > 0
    /\ \A e \in Session : e > stream.epoch => activation[e] = "none" /\ sent[e] = <<>>

\* A change and a control tell all that is new since the observation before.
SentInv ==
    \A e \in Session : \A n \in DOMAIN sent[e] :
       sent[e][n].kind # "snapshot" =>
          /\ n > 1
          /\ sent[e][n].after = [sent[e][n - 1].after EXCEPT
                                    ![sent[e][n].key] = sent[e][n].after[sent[e][n].key]]

\* The control that is not resolved made the observation that is still to come.
InFlight(e, n) ==
    /\ op.status \in {"CLAIMED", "AMBIGUOUS"}
    /\ op.agent = "did" /\ op.epoch = e /\ op.expected = n - 1

\* An observation of a control is of an epoch that is over, was accepted, or is
\* of the control in flight.
ControlInv ==
    \A e \in Session : \A n \in DOMAIN sent[e] :
       sent[e][n].kind = "control" =>
          e < stream.epoch \/ n <= stream.accepted \/ InFlight(e, n)

\* An unresolved control keeps its epoch in force.
OpInv ==
    /\ Unresolved => stream.phase \in {"ACTIVE", "AMBIGUOUS"} /\ stream.epoch = op.epoch
    /\ op # NoOp => op.expected > 0
    /\ op.status = "CLAIMED" /\ op.agent # "refused" => op.command \in {"DISPATCHED", "COMPLETED"}

IInv ==
    /\ TypeOK /\ CountInv /\ StreamInv /\ SentInv /\ ControlInv /\ OpInv
    /\ MirrorIsObserved /\ AppliedWasDone /\ DoubtCloses

LEMMA Types ==
  ASSUME TypeOK
  PROVE  /\ stream.epoch \in Nat /\ stream.accepted \in Nat /\ stream.phase \in Phases
         /\ stream.epoch \in 0 .. MaxSession /\ stream.accepted \in 0 .. MaxSequence
         /\ opened \in Nat /\ live \in Nat /\ MaxSession \in Nat /\ MaxSequence \in Nat
         /\ stream.epoch > 0 => stream.epoch \in Session
         /\ \A e \in Session : e \in Nat /\ e > 0
BY ExternalAssumption DEF TypeOK, Stream, Session

LEMMA OpTypes ==
  ASSUME TypeOK, op # NoOp
  PROVE  /\ op \in Op /\ op.epoch \in Session /\ op.key \in Key /\ op.desired \in {"on", "off"}
         /\ op.expected \in Nat /\ op.expected \in 0 .. MaxSequence
BY ExternalAssumption DEF TypeOK, Op

LEMMA NoOpStatus == NoOp.status = "none"
BY DEF NoOp

LEMMA SentTypes ==
  ASSUME TypeOK, NEW e \in Session
  PROVE  /\ sent[e] \in Seq(Message) /\ Len(sent[e]) \in Nat
         /\ DOMAIN sent[e] = 1 .. Len(sent[e])
         /\ \A n \in DOMAIN sent[e] :
               sent[e][n] \in Message /\ sent[e][n].after \in Content /\ sent[e][n].key \in Key
<1>1. sent[e] \in Seq(Message)
  BY DEF TypeOK
<1>2. Len(sent[e]) \in Nat /\ DOMAIN sent[e] = 1 .. Len(sent[e])
      /\ \A n \in DOMAIN sent[e] : sent[e][n] \in Message
  BY <1>1
<1>3. \A m \in Message : m.after \in Content /\ m.key \in Key
  BY DEF Message
<1> QED
  BY <1>1, <1>2, <1>3

LEMMA InitInv == Init => IInv
<1> SUFFICES ASSUME Init PROVE IInv
  OBVIOUS
<1> USE ExternalAssumption
<1>1. TypeOK
  BY DEF Init, TypeOK, Content, Empty, Stream, Phases, Session, NoOp
<1>2. CountInv
  <2>1. Cardinality({}) = 0
    BY FS_EmptySet
  <2> QED
    BY <2>1 DEF Init, CountInv
<1>3. StreamInv /\ SentInv /\ ControlInv
  BY DEF Init, StreamInv, SentInv, ControlInv, Session
<1>4. OpInv
  BY DEF Init, OpInv, Unresolved, NoOp
<1>5. MirrorIsObserved /\ AppliedWasDone /\ DoubtCloses
  BY DEF Init, MirrorIsObserved, AppliedWasDone, DoubtCloses, NoOp
<1> QED
  BY <1>1, <1>2, <1>3, <1>4, <1>5 DEF IInv

-----------------------------------------------------------------------------
(* The scheduler and the agent *)

LEMMA EditStep ==
  ASSUME IInv, NEW k \in Key, Edit(k)
  PROVE  IInv'
<1>1. source' \in Content /\ edits' \in 0 .. MaxEdit /\ UNCHANGED <<brain, sessions, sent>>
  BY ExternalAssumption DEF IInv, TypeOK, Edit, Content
<1>2. TypeOK'
  BY <1>1 DEF IInv, TypeOK, brain, sessions
<1>3. CountInv' /\ StreamInv' /\ SentInv' /\ ControlInv' /\ OpInv'
  BY <1>1 DEF IInv, CountInv, StreamInv, SentInv, ControlInv, InFlight, OpInv, Unresolved,
     brain, sessions
<1>4. MirrorIsObserved' /\ AppliedWasDone' /\ DoubtCloses'
  BY <1>1 DEF IInv, MirrorIsObserved, AppliedWasDone, DoubtCloses, brain
<1> QED
  BY <1>2, <1>3, <1>4 DEF IInv

LEMMA Appended ==
  ASSUME NEW s \in Seq(Message), NEW m \in Message
  PROVE  /\ Append(s, m) \in Seq(Message) /\ Len(Append(s, m)) = Len(s) + 1
         /\ \A n \in DOMAIN s : n \in DOMAIN Append(s, m) /\ Append(s, m)[n] = s[n]
         /\ Append(s, m)[Len(s) + 1] = m /\ Len(s) + 1 \in DOMAIN Append(s, m)
         /\ \A n \in DOMAIN Append(s, m) : n \in DOMAIN s \/ n = Len(s) + 1
OBVIOUS

\* The agent numbers an observation in epoch e.
Numbered(e, m) ==
    /\ \A d \in Session : \A n \in DOMAIN sent[d] :
          n \in DOMAIN sent'[d] /\ sent'[d][n] = sent[d][n]
    /\ \A d \in Session : \A n \in DOMAIN sent'[d] :
          \/ n \in DOMAIN sent[d] /\ sent'[d][n] = sent[d][n]
          \/ d = e /\ n = Len(sent[e]) + 1 /\ sent'[d][n] = m

LEMMA NumberStep ==
  ASSUME IInv, NEW e \in Session, NEW m \in Message, Number(e, m),
         Len(sent[e]) < MaxSequence, activation[e] = "DISPATCHED",
         m.kind # "snapshot" =>
            /\ Len(sent[e]) >= 1
            /\ m.after = [LastSeen(e) EXCEPT ![m.key] = m.after[m.key]],
         UNCHANGED <<mirror, stream, activation>>
  PROVE  /\ sent' \in [Session -> Seq(Message)]
         /\ \A d \in Session : Len(sent'[d]) <= MaxSequence
         /\ Numbered(e, m)
         /\ StreamInv' /\ SentInv' /\ MirrorIsObserved'
<1> USE Types DEF IInv
<1>1. sent[e] \in Seq(Message) /\ Len(sent[e]) \in Nat /\ sent \in [Session -> Seq(Message)]
  BY SentTypes DEF TypeOK
<1>2. /\ sent'[e] = Append(sent[e], m)
      /\ \A d \in Session : d # e => sent'[d] = sent[d]
      /\ sent' \in [Session -> Seq(Message)]
  BY <1>1, Appended DEF Number
<1>3. \A d \in Session : Len(sent'[d]) <= MaxSequence
  <2> SUFFICES ASSUME NEW d \in Session PROVE Len(sent'[d]) <= MaxSequence
    OBVIOUS
  <2>1. CASE d = e
    BY <2>1, <1>1, <1>2, Appended
  <2>2. CASE d # e
    BY <2>2, <1>2 DEF TypeOK
  <2> QED
    BY <2>1, <2>2
<1>4. Numbered(e, m)
  <2>1. \A n \in DOMAIN sent[e] : n \in DOMAIN sent'[e] /\ sent'[e][n] = sent[e][n]
    BY <1>1, <1>2, Appended
  <2>2. \A n \in DOMAIN sent'[e] :
           \/ n \in DOMAIN sent[e] /\ sent'[e][n] = sent[e][n]
           \/ n = Len(sent[e]) + 1 /\ sent'[e][n] = m
    BY <1>1, <1>2, Appended
  <2> QED
    BY <2>1, <2>2, <1>2 DEF Numbered
<1>5. StreamInv'
  <2>1. e <= stream.epoch
    BY DEF StreamInv
  <2> QED
    BY <2>1, <1>2 DEF StreamInv
<1>6. SentInv'
  <2> SUFFICES ASSUME NEW d \in Session, NEW n \in DOMAIN sent'[d], sent'[d][n].kind # "snapshot"
               PROVE  /\ n > 1
                      /\ sent'[d][n].after = [sent'[d][n - 1].after EXCEPT
                            ![sent'[d][n].key] = sent'[d][n].after[sent'[d][n].key]]
    BY DEF SentInv
  <2>1. CASE n \in DOMAIN sent[d] /\ sent'[d][n] = sent[d][n]
    <3>1. /\ n > 1
          /\ sent[d][n].after = [sent[d][n - 1].after EXCEPT
                ![sent[d][n].key] = sent[d][n].after[sent[d][n].key]]
      BY <2>1 DEF SentInv
    <3>2. n - 1 \in DOMAIN sent[d]
      BY <2>1, <3>1, SentTypes
    <3>3. sent'[d][n - 1] = sent[d][n - 1]
      BY <3>2, <1>4 DEF Numbered
    <3> QED
      BY <2>1, <3>1, <3>3
  <2>2. CASE d = e /\ n = Len(sent[e]) + 1 /\ sent'[d][n] = m
    <3>1. Len(sent[e]) >= 1 /\ Len(sent[e]) \in DOMAIN sent[e] /\ n - 1 = Len(sent[e])
      BY <2>2, SentTypes
    <3>2. sent'[e][n - 1] = sent[e][Len(sent[e])]
      BY <3>1, <1>4 DEF Numbered
    <3> QED
      BY <2>2, <3>1, <3>2 DEF LastSeen
  <2> QED
    BY <2>1, <2>2, <1>4 DEF Numbered
<1>7. MirrorIsObserved'
  BY <1>4 DEF MirrorIsObserved, StreamInv, Numbered
<1> QED
  BY <1>2, <1>3, <1>4, <1>5, <1>6, <1>7

\* A snapshot or a change leaves the control alone.
LEMMA TellStep ==
  ASSUME IInv, NEW e \in Session, NEW m \in Message, Number(e, m), m.kind # "control",
         Len(sent[e]) < MaxSequence, activation[e] = "DISPATCHED",
         m.kind # "snapshot" =>
            /\ Len(sent[e]) >= 1
            /\ m.after = [LastSeen(e) EXCEPT ![m.key] = m.after[m.key]],
         UNCHANGED <<source, edits, brain, sessions>>
  PROVE  IInv'
<1>1. /\ sent' \in [Session -> Seq(Message)]
      /\ \A d \in Session : Len(sent'[d]) <= MaxSequence
      /\ Numbered(e, m)
      /\ StreamInv' /\ SentInv' /\ MirrorIsObserved'
  BY NumberStep DEF brain
<1>2. UNCHANGED <<source, edits, mirror, stream, executor, activation, op, used,
                  live, opened, greeting, cleaning>>
  BY DEF brain, sessions
<1> USE DEF IInv
<1>3. TypeOK'
  BY <1>1, <1>2 DEF TypeOK
<1>4. CountInv' /\ OpInv' /\ DoubtCloses'
  BY <1>2 DEF CountInv, OpInv, Unresolved, DoubtCloses
<1>5. ControlInv'
  <2>1. \A d \in Session : \A n \in DOMAIN sent'[d] :
           sent'[d][n].kind = "control" => n \in DOMAIN sent[d] /\ sent'[d][n] = sent[d][n]
    BY <1>1 DEF Numbered
  <2> QED
    BY <1>2, <2>1 DEF ControlInv, InFlight
<1>6. AppliedWasDone'
  <2>1. op.status = "APPLIED" => op.epoch \in Session
    BY OpTypes, NoOpStatus
  <2> QED
    BY <1>1, <1>2, <2>1 DEF AppliedWasDone, Numbered
<1> QED
  BY <1>1, <1>3, <1>4, <1>5, <1>6

LEMMA ObserveStep ==
  ASSUME IInv, NEW e \in Session, Observe(e)
  PROVE  IInv'
<1> PICK k \in Key : Number(e, [kind |-> "snapshot", key |-> k, after |-> source])
  BY DEF Observe
<1> DEFINE m == [kind |-> "snapshot", key |-> k, after |-> source]
<1>1. m \in Message /\ m.kind = "snapshot"
  BY DEF Message, IInv, TypeOK
<1>2. Len(sent[e]) < MaxSequence /\ activation[e] = "DISPATCHED" /\ UNCHANGED <<source, edits, brain, sessions>>
  BY DEF Observe, Granted
<1> HIDE DEF m
<1>3. Number(e, m)
  BY DEF m
<1> QED
  BY <1>1, <1>2, <1>3, TellStep

LEMMA NoticeStep ==
  ASSUME IInv, NEW e \in Session, NEW k \in Key, Notice(e, k)
  PROVE  IInv'
<1> DEFINE m == [kind |-> "change", key |-> k, after |-> source]
<1>1. m \in Message /\ m.kind = "change" /\ m.key = k /\ m.after = source
  BY DEF Message, IInv, TypeOK
<1>2. /\ Len(sent[e]) \in 1 .. MaxSequence - 1 /\ activation[e] = "DISPATCHED"
      /\ source = [LastSeen(e) EXCEPT ![k] = source[k]]
      /\ UNCHANGED <<source, edits, brain, sessions>>
      /\ Number(e, m)
  BY DEF Notice, Granted
<1>3. Len(sent[e]) >= 1 /\ Len(sent[e]) < MaxSequence
  BY <1>2, ExternalAssumption
<1> HIDE DEF m
<1> QED
  BY <1>1, <1>2, <1>3, TellStep

LEMMA ObeyStep ==
  ASSUME IInv, NEW e \in Session, Obey(e)
  PROVE  IInv'
<1> USE DEF IInv
<1>1. /\ op.status \in {"CLAIMED", "AMBIGUOUS"} /\ op.agent = "idle" /\ op.epoch = e
      /\ activation[e] = "DISPATCHED"
      /\ UNCHANGED <<edits, mirror, stream, executor, activation, used, live, opened, greeting, cleaning>>
  BY DEF Obey, Granted, sessions
<1>2. op # NoOp /\ op \in Op /\ op.key \in Key /\ op.expected \in Nat /\ op.expected > 0
      /\ op.desired \in {"on", "off"}
  BY <1>1, OpTypes, NoOpStatus DEF OpInv
<1>3. CASE op' = [op EXCEPT !.agent = "refused"] /\ UNCHANGED <<source, sent>>
  <2>1. /\ op' \in Op /\ op' # NoOp /\ op'.status = op.status /\ op'.command = op.command
        /\ op'.agent = "refused" /\ op'.epoch = op.epoch /\ op'.expected = op.expected
    BY <1>1, <1>2, <1>3 DEF Op, NoOp
  <2>2. TypeOK'
    BY <1>1, <1>2, <1>3, <2>1 DEF TypeOK
  <2>3. CountInv' /\ StreamInv' /\ SentInv' /\ MirrorIsObserved'
    BY <1>1, <1>3 DEF CountInv, StreamInv, SentInv, MirrorIsObserved
  <2>4. ControlInv'
    BY <1>1, <1>3 DEF ControlInv, InFlight
  <2>5. OpInv' /\ AppliedWasDone' /\ DoubtCloses'
    BY <1>1, <1>2, <2>1 DEF OpInv, Unresolved, AppliedWasDone, DoubtCloses
  <2> QED
    BY <2>2, <2>3, <2>4, <2>5
<1>4. CASE /\ Len(sent[e]) = op.expected /\ op.expected < MaxSequence /\ LastSeen(e) = source
           /\ source' = [source EXCEPT ![op.key] = op.desired]
           /\ Number(e, [kind |-> "control", key |-> op.key, after |-> source'])
           /\ op' = [op EXCEPT !.agent = "did"]
  <2> DEFINE m == [kind |-> "control", key |-> op.key, after |-> source']
  <2>1. source' \in Content
    BY <1>2, <1>4 DEF TypeOK, Content
  <2>2. m \in Message /\ m.kind = "control" /\ m.key = op.key /\ m.after = source'
    BY <1>2, <2>1 DEF Message
  <2>3. source' = [source EXCEPT ![op.key] = source'[op.key]]
    BY <1>2, <1>4 DEF TypeOK, Content
  <2>4. /\ op' \in Op /\ op' # NoOp /\ op'.status = op.status /\ op'.command = op.command
        /\ op'.agent = "did" /\ op'.epoch = op.epoch /\ op'.expected = op.expected
    BY <1>1, <1>2, <1>4 DEF Op, NoOp
  <2>5. Number(e, m) /\ Len(sent[e]) >= 1 /\ Len(sent[e]) < MaxSequence
        /\ m.after = [LastSeen(e) EXCEPT ![m.key] = m.after[m.key]]
    BY <1>2, <1>4, <2>2, <2>3
  <2> HIDE DEF m, IInv
  <2>6. /\ sent' \in [Session -> Seq(Message)]
        /\ \A d \in Session : Len(sent'[d]) <= MaxSequence
        /\ Numbered(e, m)
        /\ StreamInv' /\ SentInv' /\ MirrorIsObserved'
    BY <1>1, <2>2, <2>5, NumberStep
  <2> USE DEF IInv
  <2>7. TypeOK'
    BY <1>1, <1>2, <2>1, <2>4, <2>6 DEF TypeOK
  <2>8. CountInv' /\ OpInv' /\ AppliedWasDone' /\ DoubtCloses'
    BY <1>1, <1>2, <2>4 DEF CountInv, OpInv, Unresolved, AppliedWasDone, DoubtCloses
  <2>9. ControlInv'
    <3> SUFFICES ASSUME NEW d \in Session, NEW n \in DOMAIN sent'[d], sent'[d][n].kind = "control"
                 PROVE  d < stream'.epoch \/ n <= stream'.accepted \/ InFlight(d, n)'
      BY DEF ControlInv
    <3>1. CASE n \in DOMAIN sent[d] /\ sent'[d][n] = sent[d][n]
      BY <3>1, <1>1 DEF ControlInv, InFlight
    <3>2. CASE d = e /\ n = Len(sent[e]) + 1
      BY <3>2, <1>1, <1>2, <1>4, <2>4 DEF InFlight
    <3> QED
      BY <3>1, <3>2, <2>6 DEF Numbered
  <2> QED
    BY <2>6, <2>7, <2>8, <2>9
<1> QED
  BY <1>3, <1>4 DEF Obey

-----------------------------------------------------------------------------
(* Sessions *)

LEMMA Waiting ==
  ASSUME IInv
  PROVE  IsFiniteSet(greeting) /\ Cardinality(greeting) \in Nat
<1>1. IsFiniteSet(1 .. opened)
  BY Types, FS_Interval DEF IInv
<1>2. greeting \subseteq 1 .. opened
  BY DEF IInv, TypeOK
<1>3. IsFiniteSet(greeting)
  BY <1>1, <1>2, FS_Subset
<1> QED
  BY <1>3, FS_CardinalityType

\* What concerns the sessions alone.
LEMMA SessionsOnly ==
  ASSUME IInv, UNCHANGED <<source, edits, brain, sent>>,
         live' \in 0 .. MaxSession, opened' \in 0 .. MaxSession,
         greeting' \subseteq 1 .. opened', cleaning' \subseteq 1 .. opened',
         CountInv'
  PROVE  IInv'
<1> USE DEF IInv, brain
<1>1. TypeOK'
  BY DEF TypeOK
<1>2. StreamInv' /\ SentInv' /\ ControlInv' /\ OpInv'
  BY DEF StreamInv, SentInv, ControlInv, InFlight, OpInv, Unresolved
<1>3. MirrorIsObserved' /\ AppliedWasDone' /\ DoubtCloses'
  BY DEF MirrorIsObserved, AppliedWasDone, DoubtCloses
<1> QED
  BY <1>1, <1>2, <1>3

LEMMA ConnectionStep ==
  ASSUME IInv, Connect \/ Disconnect \/ Crash
  PROVE  IInv'
<1>0. /\ UNCHANGED <<source, edits, brain, sent>> /\ stream' = stream
      /\ stream.epoch \in Nat /\ opened \in Nat /\ live \in Nat /\ MaxSession \in Nat
      /\ opened \in 0 .. MaxSession /\ greeting \subseteq 1 .. opened /\ cleaning \subseteq 1 .. opened
      /\ stream.epoch + Cardinality(greeting) <= opened /\ live <= opened
      /\ Cardinality(greeting) \in Nat /\ IsFiniteSet(greeting)
  BY Types, Waiting DEF Connect, Disconnect, Crash, brain, IInv, TypeOK, CountInv
<1>1. CASE Connect
  <2>1. opened' = opened + 1 /\ live' = opened' /\ greeting' = greeting \cup {opened + 1}
        /\ opened < MaxSession /\ cleaning' \subseteq cleaning \cup ({live} \ {0})
    BY <1>1 DEF Connect
  <2>2. opened + 1 \notin greeting
    BY <1>0
  <2>3. Cardinality(greeting') = Cardinality(greeting) + 1
    BY <1>0, <2>1, <2>2, FS_AddElement
  <2>4. CountInv'
    BY <1>0, <2>1, <2>3 DEF CountInv
  <2>5. /\ live' \in 0 .. MaxSession /\ opened' \in 0 .. MaxSession
        /\ greeting' \subseteq 1 .. opened' /\ cleaning' \subseteq 1 .. opened'
    BY <1>0, <2>1
  <2> QED
    BY <1>0, <2>4, <2>5, SessionsOnly
<1>2. CASE Disconnect \/ Crash
  <2>1. opened' = opened /\ live' = 0 /\ (greeting' = greeting \/ greeting' = {})
        /\ cleaning' \subseteq cleaning \cup ({live} \ {0})
    BY <1>2 DEF Disconnect, Crash
  <2>2. Cardinality(greeting') <= Cardinality(greeting)
    BY <1>0, <2>1, FS_EmptySet
  <2>3. Cardinality(greeting') \in Nat
    BY <1>0, <2>1, FS_EmptySet
  <2>4. CountInv'
    BY <1>0, <2>1, <2>2, <2>3 DEF CountInv
  <2>5. /\ live' \in 0 .. MaxSession /\ opened' \in 0 .. MaxSession
        /\ greeting' \subseteq 1 .. opened' /\ cleaning' \subseteq 1 .. opened'
    <3>1. live # 0 => live \in 1 .. opened
      BY <1>0
    <3>2. cleaning' \subseteq 1 .. opened
      BY <1>0, <2>1, <3>1
    <3>3. 0 \in 0 .. MaxSession
      BY <1>0
    <3> QED
      BY <1>0, <2>1, <3>2, <3>3
  <2> QED
    BY <1>0, <2>4, <2>5, SessionsOnly
<1> QED
  BY <1>1, <1>2

\* The stream stays at its number, and the control comes to doubt or stays.
LEMMA KeptParts ==
  ASSUME IInv, UNCHANGED <<mirror, sent, activation, greeting, opened, live>>,
         stream'.epoch = stream.epoch, stream'.accepted = stream.accepted,
         stream'.phase = "ACTIVE" => stream.phase = "ACTIVE"
  PROVE  CountInv' /\ StreamInv' /\ SentInv' /\ MirrorIsObserved'
BY DEF IInv, CountInv, StreamInv, SentInv, MirrorIsObserved

LEMMA FaultedIs ==
  ASSUME TypeOK
  PROVE  /\ Faulted \in Stream /\ Faulted.phase = "AMBIGUOUS"
         /\ Faulted.epoch = stream.epoch /\ Faulted.accepted = stream.accepted
BY DEF TypeOK, Faulted, Stream, Phases

LEMMA GreetStep ==
  ASSUME IInv, NEW s \in Session, Greet(s)
  PROVE  IInv'
<1> USE DEF IInv
<1>1. /\ s \in greeting /\ greeting' = greeting \ {s}
      /\ UNCHANGED <<source, edits, mirror, op, used, live, opened, cleaning, sent>>
  BY DEF Greet
<1>2. Cardinality(greeting') = Cardinality(greeting) - 1 /\ Cardinality(greeting) \in Nat
      /\ Cardinality(greeting') \in Nat
  <2>1. Cardinality(greeting') = Cardinality(greeting) - 1 /\ IsFiniteSet(greeting')
    BY <1>1, Waiting, FS_RemoveElement
  <2> QED
    BY <2>1, Waiting, FS_CardinalityType
<1>3. CASE UNCHANGED <<stream, executor, activation>>
  <2>1. CountInv'
    BY <1>1, <1>2, <1>3, Types DEF CountInv
  <2> QED
    BY <1>1, <1>3, <2>1, SessionsOnly DEF brain, TypeOK
<1>4. ASSUME NEW cancelled \in {{}, {stream.epoch}}, Allocated(s, cancelled),
             stream.phase \in {"none", "HELD"} \/ Holdable \/ Undelivered
      PROVE  IInv'
  <2> DEFINE e == stream.epoch + 1
  <2>1. e \in Session /\ stream.epoch \in Nat /\ e > stream.epoch
    <3>1. stream.epoch + Cardinality(greeting) <= opened /\ stream.epoch \in Nat
          /\ opened \in 0 .. MaxSession /\ MaxSession \in Nat
      BY Types DEF CountInv, TypeOK
    <3> QED
      BY <1>2, <3>1 DEF Session
  <2>2. /\ stream' = [phase |-> "ACTIVATING", epoch |-> e, accepted |-> 0]
        /\ executor' = [executor EXCEPT ![e] = s]
        /\ activation' = [d \in Session |-> IF d = e THEN "PENDING"
                             ELSE IF d \in cancelled THEN "CANCELLED" ELSE activation[d]]
    BY <1>4 DEF Allocated
  <2>3. ~Unresolved
    BY <1>4 DEF Holdable, Undelivered, OpInv
  <2> HIDE DEF e
  <2>4. stream'.phase = "ACTIVATING" /\ stream'.epoch = e /\ stream'.accepted = 0 /\ stream' \in Stream
    BY <2>1, <2>2, Types DEF Stream, Phases, Session
  <2>5. /\ executor' \in [Session -> 0 .. MaxSession]
        /\ activation' \in [Session -> {"none", "PENDING", "DISPATCHED", "CANCELLED", "TIMEOUT"}]
    BY <2>1, <2>2, Types DEF TypeOK, Session
  <2>6. TypeOK'
    BY <1>1, <2>4, <2>5 DEF TypeOK
  <2>7. CountInv'
    BY <1>1, <1>2, <2>4, Types DEF CountInv, e
  <2>8. StreamInv'
    <3>1. ASSUME NEW d \in Session, d > e PROVE activation'[d] = "none" /\ sent'[d] = <<>>
      <4>1. d > stream.epoch /\ d # stream.epoch /\ d # e
        BY <2>1, <3>1, Types
      <4> QED
        BY <4>1, <1>1, <1>4, <2>2 DEF StreamInv
    <3> QED
      BY <3>1, <2>1, <2>4, Types DEF StreamInv
  <2>9. SentInv'
    BY <1>1 DEF SentInv
  <2>10. ControlInv'
    <3> SUFFICES ASSUME NEW d \in Session, NEW n \in DOMAIN sent[d], sent[d][n].kind = "control"
                 PROVE  d < stream'.epoch
      BY <1>1 DEF ControlInv
    <3>1. ~(d > stream.epoch)
      BY SentTypes DEF StreamInv
    <3> QED
      BY <3>1, <2>4, Types DEF e
  <2>11. OpInv' /\ AppliedWasDone' /\ DoubtCloses'
    BY <1>1, <2>3 DEF OpInv, Unresolved, AppliedWasDone, DoubtCloses
  <2>12. MirrorIsObserved'
    BY <2>4 DEF MirrorIsObserved
  <2> QED
    BY <2>6, <2>7, <2>8, <2>9, <2>10, <2>11, <2>12
<1> QED
  BY <1>3, <1>4 DEF Greet

\* A control comes to doubt, and the stream with it.
LEMMA DoubtStep ==
  ASSUME IInv, NEW command \in {"DISPATCHED", "COMPLETED", "FAILED", "TIMEOUT"},
         op.status \in {"PENDING", "CLAIMED"},
         op' = [op EXCEPT !.status = "AMBIGUOUS", !.command = command],
         stream' = IF Accepting THEN Faulted ELSE stream,
         UNCHANGED <<source, edits, mirror, executor, activation, used, live, opened, greeting, sent>>,
         cleaning' \subseteq cleaning
  PROVE  IInv'
<1> USE DEF IInv
<1>1. op # NoOp /\ op \in Op
  BY OpTypes, NoOpStatus
<1>2. /\ op' \in Op /\ op' # NoOp /\ op'.status = "AMBIGUOUS" /\ op'.command = command
      /\ op'.agent = op.agent /\ op'.epoch = op.epoch /\ op'.expected = op.expected
  BY <1>1 DEF Op, NoOp
<1>3. /\ stream' \in Stream /\ stream'.phase = "AMBIGUOUS"
      /\ stream'.epoch = stream.epoch /\ stream'.accepted = stream.accepted
      /\ stream.epoch = op.epoch
  BY FaultedIs DEF OpInv, Unresolved, Accepting, TypeOK
<1>4. TypeOK'
  BY <1>2, <1>3 DEF TypeOK
<1>5. CountInv' /\ StreamInv' /\ SentInv' /\ MirrorIsObserved'
  BY <1>3, KeptParts
<1>6. ControlInv'
  BY <1>2, <1>3 DEF ControlInv, InFlight
<1>7. OpInv' /\ AppliedWasDone' /\ DoubtCloses'
  BY <1>1, <1>2, <1>3 DEF OpInv, Unresolved, AppliedWasDone, DoubtCloses
<1> QED
  BY <1>4, <1>5, <1>6, <1>7

LEMMA ClaimedCommand ==
  ASSUME IInv, op.status = "CLAIMED"
  PROVE  op # NoOp /\ op.command \in {"DISPATCHED", "COMPLETED", "FAILED", "TIMEOUT"}
         /\ op = [op EXCEPT !.command = op.command]
<1>1. op # NoOp /\ op \in Op
  BY OpTypes, NoOpStatus DEF IInv
<1>2. op.command # "PENDING"
  BY <1>1 DEF IInv, TypeOK
<1> QED
  BY <1>1, <1>2 DEF Op

LEMMA CleanUpStep ==
  ASSUME IInv, NEW s \in Session, CleanUp(s)
  PROVE  IInv'
<1>1. /\ UNCHANGED <<source, edits, mirror, executor, activation, used, live, opened, greeting, sent>>
      /\ cleaning' \subseteq cleaning
  BY DEF CleanUp
<1>2. CASE op.status = "CLAIMED" /\ executor[op.epoch] = s
  <2> DEFINE command == IF op.command = "DISPATCHED" THEN "FAILED" ELSE op.command
  <2>1. command \in {"DISPATCHED", "COMPLETED", "FAILED", "TIMEOUT"}
    BY <1>2, ClaimedCommand
  <2>2. op' = [op EXCEPT !.status = "AMBIGUOUS", !.command = command]
        /\ stream' = IF Accepting THEN Faulted ELSE stream
    BY <1>2 DEF CleanUp, IInv, TypeOK, Op
  <2> HIDE DEF command
  <2> QED
    BY <1>1, <1>2, <2>1, <2>2, DoubtStep
<1>3. CASE ~(op.status = "CLAIMED" /\ executor[op.epoch] = s)
  <2> USE DEF IInv
  <2>1. op' = op /\ \/ stream' = stream
                    \/ stream' = [stream EXCEPT !.phase = "HELD"] /\ ~Unresolved
    BY <1>3 DEF CleanUp, Holdable
  <2>2. /\ stream' \in Stream /\ (stream' = stream \/ stream'.phase = "HELD")
        /\ stream'.epoch = stream.epoch /\ stream'.accepted = stream.accepted
    BY <2>1 DEF TypeOK, Stream, Phases
  <2>3. TypeOK'
    BY <1>1, <2>1, <2>2 DEF TypeOK
  <2>4. CountInv' /\ StreamInv' /\ SentInv' /\ MirrorIsObserved'
    BY <1>1, <2>2, KeptParts
  <2>5. ControlInv'
    BY <1>1, <2>1, <2>2 DEF ControlInv, InFlight
  <2>6. OpInv' /\ AppliedWasDone' /\ DoubtCloses'
    BY <1>1, <2>1, <2>2 DEF OpInv, Unresolved, AppliedWasDone, DoubtCloses
  <2> QED
    BY <2>3, <2>4, <2>5, <2>6
<1> QED
  BY <1>2, <1>3

LEMMA ActivationStep ==
  ASSUME IInv, NEW e \in Session, Activate(e) \/ ActivationTimesOut(e)
  PROVE  IInv'
<1> USE DEF IInv
<1>1. /\ UNCHANGED <<source, edits, mirror, stream, executor, op, used, sessions, sent>>
      /\ activation[e] = "PENDING"
      /\ activation' \in [Session -> {"none", "PENDING", "DISPATCHED", "CANCELLED", "TIMEOUT"}]
      /\ \A d \in Session : d # e => activation'[d] = activation[d]
  BY DEF Activate, ActivationTimesOut, TypeOK
<1>2. TypeOK'
  BY <1>1 DEF TypeOK, sessions
<1>3. StreamInv'
  BY <1>1 DEF StreamInv
<1>4. CountInv' /\ SentInv' /\ ControlInv' /\ OpInv'
  BY <1>1 DEF CountInv, SentInv, ControlInv, InFlight, OpInv, Unresolved, sessions
<1>5. MirrorIsObserved' /\ AppliedWasDone' /\ DoubtCloses'
  BY <1>1 DEF MirrorIsObserved, AppliedWasDone, DoubtCloses
<1> QED
  BY <1>2, <1>3, <1>4, <1>5

-----------------------------------------------------------------------------
(* Observations *)

LEMMA ReceiveStep ==
  ASSUME IInv, NEW e \in Session, NEW n \in 1 .. MaxSequence, Receive(e, n)
  PROVE  IInv'
<1> USE DEF IInv
<1> DEFINE m == sent[e][n]
<1>1. /\ n \in DOMAIN sent[e] /\ stream.epoch = e /\ n = stream.accepted + 1
      /\ UNCHANGED <<source, edits, executor, activation, used, live, opened, greeting, cleaning, sent>>
  BY DEF Receive, InEpoch, NextExpected, sessions
<1>2. m \in Message /\ m.after \in Content /\ m.key \in Key
  BY <1>1, SentTypes
<1>3. m.kind = "control" => InFlight(e, n) /\ op # NoOp /\ op \in Op
  <2>1. ~(e < stream.epoch) /\ ~(n <= stream.accepted)
    BY <1>1, Types
  <2> QED
    BY <1>1, <2>1, OpTypes, NoOpStatus DEF ControlInv, InFlight
<1>4. CASE m.kind = "control" /\ ~Reserved(e, n, m)
  <2>1. /\ stream' = Faulted /\ UNCHANGED mirror
        /\ op' = IF op.status \in {"PENDING", "CLAIMED"} /\ op.epoch = e /\ op.expected = n - 1
                   THEN [op EXCEPT !.status = "AMBIGUOUS"] ELSE op
    BY <1>4 DEF Receive
  <2>2. CASE op.status = "CLAIMED"
    <3>1. /\ op.command \in {"DISPATCHED", "COMPLETED", "FAILED", "TIMEOUT"}
          /\ op' = [op EXCEPT !.status = "AMBIGUOUS", !.command = op.command]
      BY <1>3, <1>4, <2>1, <2>2, ClaimedCommand DEF InFlight, Op
    <3>2. CASE Accepting
      <4> HIDE DEF IInv
      <4> QED
        BY <1>1, <2>1, <2>2, <3>1, <3>2, DoubtStep
    <3>3. CASE ~Accepting
      <4>1. Faulted = stream
        BY <2>2, <3>3 DEF OpInv, Unresolved, Accepting, Faulted, TypeOK, Stream
      <4> HIDE DEF IInv
      <4> QED
        BY <1>1, <2>1, <2>2, <3>1, <3>3, <4>1, DoubtStep
    <3> QED
      BY <3>2, <3>3
  <2>3. CASE op.status = "AMBIGUOUS"
    <3>1. op' = op
      BY <2>1, <2>3
    <3>2. Faulted = stream
      BY <2>3 DEF DoubtCloses, Faulted, TypeOK, Stream
    <3>3. stream' = stream
      BY <2>1, <3>2
    <3> HIDE DEF IInv
    <3>4. CountInv'
      BY <1>1, <3>3 DEF IInv, CountInv
    <3> QED
      BY <1>1, <2>1, <3>1, <3>3, <3>4, SessionsOnly DEF brain, IInv, TypeOK
  <2> QED
    BY <1>3, <1>4, <2>2, <2>3 DEF InFlight
<1>5. CASE m.kind = "control" => Reserved(e, n, m)
  <2>1. /\ Accepting /\ mirror' = Told(m)
        /\ stream' = [stream EXCEPT !.phase = "ACTIVE", !.accepted = n]
        /\ op' = IF m.kind = "control" THEN [op EXCEPT !.status = "APPLIED"] ELSE op
    BY <1>5 DEF Receive
  <2>2. mirror' = m.after
    <3>1. CASE m.kind = "snapshot"
      BY <2>1, <3>1 DEF Told
    <3>2. CASE m.kind # "snapshot"
      <4>1. n > 1 /\ m.after = [sent[e][n - 1].after EXCEPT ![m.key] = m.after[m.key]]
        BY <1>1, <3>2 DEF SentInv
      <4>2. mirror = sent[e][n - 1].after
        BY <1>1, <4>1, Types DEF MirrorIsObserved
      <4>3. mirror' = [mirror EXCEPT ![m.key] = m.after[m.key]]
        BY <2>1, <3>2 DEF Told
      <4> HIDE DEF m
      <4> QED
        BY <4>1, <4>2, <4>3
    <3> QED
      BY <3>1, <3>2
  <2>3. /\ stream' \in Stream /\ stream'.phase = "ACTIVE" /\ stream'.epoch = stream.epoch
        /\ stream'.accepted = n
    <3>1. n \in 0 .. MaxSequence /\ stream \in Stream
      BY DEF TypeOK
    <3>2. stream' = [stream EXCEPT !.phase = "ACTIVE", !.accepted = n]
      BY <2>1
    <3> HIDE DEF m
    <3> QED
      BY <3>1, <3>2 DEF Stream, Phases
  <2>4. m.kind = "control" =>
          /\ op.status = "CLAIMED" /\ op.epoch = e /\ op.expected = stream.accepted
          /\ op.key = m.key /\ op.desired = m.after[m.key]
          /\ op.agent = "did" /\ op.command \in {"DISPATCHED", "COMPLETED"}
          /\ op' \in Op /\ op' # NoOp /\ op'.status = "APPLIED" /\ op'.command = op.command
          /\ op'.agent = op.agent /\ op'.epoch = op.epoch /\ op'.expected = op.expected
          /\ op'.key = op.key /\ op'.desired = op.desired
    <3> SUFFICES ASSUME m.kind = "control"
                 PROVE  /\ op.status = "CLAIMED" /\ op.epoch = e /\ op.expected = stream.accepted
                        /\ op.key = m.key /\ op.desired = m.after[m.key]
                        /\ op.agent = "did" /\ op.command \in {"DISPATCHED", "COMPLETED"}
                        /\ op' \in Op /\ op' # NoOp /\ op'.status = "APPLIED"
                        /\ op'.command = op.command
                        /\ op'.agent = op.agent /\ op'.epoch = op.epoch /\ op'.expected = op.expected
                        /\ op'.key = op.key /\ op'.desired = op.desired
      OBVIOUS
    <3>1. /\ op.status = "CLAIMED" /\ op.epoch = e /\ op.expected = stream.accepted
          /\ op.key = m.key /\ op.desired = m.after[m.key]
      BY <1>5 DEF Reserved
    <3>2. op.agent = "did" /\ op # NoOp /\ op \in Op
      BY <1>3 DEF InFlight
    <3>3. op.command \in {"DISPATCHED", "COMPLETED"}
      BY <3>1, <3>2 DEF OpInv
    <3>4. op' = [op EXCEPT !.status = "APPLIED"]
      BY <2>1
    <3> HIDE DEF m
    <3> QED
      BY <3>1, <3>2, <3>3, <3>4 DEF Op, NoOp
  <2>5. m.kind # "control" => op' = op
    BY <2>1
  <2>6. TypeOK'
    <3>1. op' \in Op \cup {NoOp}
      BY <2>4, <2>5 DEF TypeOK
    <3>2. op' # NoOp => (op'.status = "PENDING" <=> op'.command = "PENDING")
      BY <2>4, <2>5 DEF TypeOK
    <3> QED
      BY <1>1, <1>2, <2>2, <2>3, <3>1, <3>2 DEF TypeOK
  <2>7. CountInv' /\ SentInv'
    BY <1>1, <2>3 DEF CountInv, SentInv
  <2>8. StreamInv'
    BY <1>1, <2>3, Types DEF StreamInv
  <2>9. ControlInv'
    <3> SUFFICES ASSUME NEW d \in Session, NEW k \in DOMAIN sent[d], sent[d][k].kind = "control"
                 PROVE  d < stream'.epoch \/ k <= stream'.accepted \/ InFlight(d, k)'
      BY <1>1 DEF ControlInv
    <3>1. k \in Nat
      BY SentTypes
    <3>2. CASE d < stream.epoch \/ k <= stream.accepted
      BY <3>1, <3>2, <1>1, <2>3, Types
    <3>3. CASE InFlight(d, k) /\ m.kind # "control"
      BY <3>3, <2>5 DEF InFlight
    <3>4. CASE InFlight(d, k) /\ m.kind = "control"
      BY <3>1, <3>4, <1>1, <2>3, <2>4, Types DEF InFlight
    <3> QED
      BY <3>2, <3>3, <3>4 DEF ControlInv
  <2>10. OpInv'
    <3>1. CASE m.kind = "control"
      BY <3>1, <1>3, <2>4 DEF OpInv, Unresolved
    <3>2. CASE m.kind # "control"
      BY <3>2, <2>3, <2>5 DEF OpInv, Unresolved
    <3> QED
      BY <3>1, <3>2
  <2>11. MirrorIsObserved'
    BY <1>1, <2>2, <2>3 DEF MirrorIsObserved
  <2>12. AppliedWasDone'
    <3>1. CASE m.kind = "control"
      BY <3>1, <1>1, <2>4 DEF AppliedWasDone
    <3>2. CASE m.kind # "control"
      BY <3>2, <1>1, <2>5 DEF AppliedWasDone
    <3> QED
      BY <3>1, <3>2
  <2>13. DoubtCloses'
    <3>1. op'.status # "AMBIGUOUS"
      BY <2>1, <2>4, <2>5 DEF DoubtCloses, Accepting
    <3> QED
      BY <3>1 DEF DoubtCloses
  <2> QED
    BY <2>6, <2>7, <2>8, <2>9, <2>10, <2>11, <2>12, <2>13
<1> QED
  BY <1>4, <1>5

-----------------------------------------------------------------------------
(* Controls *)

LEMMA PlanStep ==
  ASSUME IInv, Plan
  PROVE  IInv'
<1> USE DEF IInv
<1>1. PICK k \in Key, d \in {"on", "off"} :
         /\ used' = used \cup {[accepted |-> stream.accepted, key |-> k, desired |-> d]}
         /\ op' = [status |-> "PENDING", command |-> "PENDING", agent |-> "idle", key |-> k,
                   desired |-> d, epoch |-> stream.epoch, expected |-> stream.accepted]
  BY DEF Plan
<1>2. /\ stream.phase = "ACTIVE" /\ ~Unresolved
      /\ UNCHANGED <<source, edits, mirror, stream, executor, activation, live, opened, greeting,
                     cleaning, sent>>
  BY DEF Plan, sessions
<1>3. stream.accepted > 0 /\ stream.epoch \in Session /\ stream.accepted \in 0 .. MaxSequence
  BY <1>2, Types DEF StreamInv
<1>4. /\ op' \in Op /\ op' # NoOp /\ op'.status = "PENDING" /\ op'.command = "PENDING"
      /\ op'.epoch = stream.epoch /\ op'.expected = stream.accepted
  BY <1>1, <1>3 DEF Op, NoOp
<1>5. used' \subseteq Identity
  BY <1>1, <1>3 DEF TypeOK, Identity
<1>6. TypeOK'
  BY <1>2, <1>4, <1>5 DEF TypeOK
<1>7. CountInv' /\ StreamInv' /\ SentInv' /\ MirrorIsObserved'
  BY <1>2, KeptParts
<1>8. ControlInv'
  <2>1. \A e \in Session : \A n \in DOMAIN sent[e] : ~InFlight(e, n)
    BY <1>2 DEF InFlight, Unresolved
  <2> QED
    BY <1>2, <2>1 DEF ControlInv
<1>9. OpInv' /\ AppliedWasDone' /\ DoubtCloses'
  BY <1>2, <1>3, <1>4 DEF OpInv, Unresolved, AppliedWasDone, DoubtCloses
<1> QED
  BY <1>6, <1>7, <1>8, <1>9

\* A step on the control's command alone.
LEMMA CommandStep ==
  ASSUME IInv, op # NoOp,
         op' \in Op, op' # NoOp, op'.agent = op.agent, op'.epoch = op.epoch,
         op'.expected = op.expected, op'.key = op.key, op'.desired = op.desired,
         op'.command \in {"DISPATCHED", "COMPLETED", "FAILED"},
         op'.status = op.status \/ (op.status = "PENDING" /\ op'.status = "CLAIMED"),
         op'.status # "PENDING",
         op'.status = "APPLIED" => op'.command = "COMPLETED",
         op'.status = "CLAIMED" /\ op.agent # "refused" => op'.command \in {"DISPATCHED", "COMPLETED"},
         UNCHANGED <<source, edits, mirror, stream, executor, activation, used, sessions, sent>>
  PROVE  IInv'
<1> USE DEF IInv, sessions
<1>1. TypeOK'
  BY DEF TypeOK
<1>2. CountInv' /\ StreamInv' /\ SentInv' /\ MirrorIsObserved'
  BY KeptParts
<1>3. ControlInv'
  BY DEF ControlInv, InFlight
<1>4. OpInv' /\ AppliedWasDone' /\ DoubtCloses'
  BY DEF OpInv, Unresolved, AppliedWasDone, DoubtCloses
<1> QED
  BY <1>1, <1>2, <1>3, <1>4

LEMMA ClaimStep ==
  ASSUME IInv, Claim
  PROVE  IInv'
<1>1. /\ op.status = "PENDING" /\ op' = [op EXCEPT !.status = "CLAIMED", !.command = "DISPATCHED"]
      /\ UNCHANGED <<source, edits, mirror, stream, executor, activation, used, sessions, sent>>
  BY DEF Claim
<1>2. op # NoOp /\ op \in Op
  BY <1>1, OpTypes, NoOpStatus DEF IInv
<1>3. /\ op' \in Op /\ op' # NoOp /\ op'.agent = op.agent /\ op'.epoch = op.epoch
      /\ op'.expected = op.expected /\ op'.key = op.key /\ op'.desired = op.desired
      /\ op'.command = "DISPATCHED" /\ op'.status = "CLAIMED"
  BY <1>1, <1>2 DEF Op, NoOp
<1> QED
  BY <1>1, <1>2, <1>3, CommandStep

LEMMA ResultStep ==
  ASSUME IInv, Result
  PROVE  IInv'
<1>1. /\ op.status \in {"CLAIMED", "APPLIED", "AMBIGUOUS"}
      /\ UNCHANGED <<source, edits, mirror, executor, activation, used, sessions, sent>>
  BY DEF Result
<1>2. op # NoOp /\ op \in Op
  BY <1>1, OpTypes, NoOpStatus DEF IInv
<1>3. CASE op.agent = "did"
  <2>1. op' = [op EXCEPT !.command = "COMPLETED"] /\ stream' = stream
    BY <1>3 DEF Result
  <2>2. /\ op' \in Op /\ op' # NoOp /\ op'.agent = op.agent /\ op'.epoch = op.epoch
        /\ op'.expected = op.expected /\ op'.key = op.key /\ op'.desired = op.desired
        /\ op'.command = "COMPLETED" /\ op'.status = op.status
    BY <1>2, <2>1 DEF Op, NoOp
  <2> QED
    BY <1>1, <1>2, <2>1, <2>2, CommandStep
<1>4. CASE op.agent # "did" /\ op.status = "CLAIMED" /\ Accepting
  <2>1. op' = [op EXCEPT !.status = "AMBIGUOUS", !.command = "FAILED"] /\ stream' = Faulted
    BY <1>2, <1>4 DEF Result, Op
  <2> QED
    BY <1>1, <1>4, <2>1, DoubtStep DEF sessions
<1>5. CASE op.agent # "did" /\ ~(op.status = "CLAIMED" /\ Accepting)
  <2>1. op' = [op EXCEPT !.command = "FAILED"] /\ stream' = stream /\ op.agent = "refused"
    BY <1>2, <1>5 DEF Result, Op
  <2>2. /\ op' \in Op /\ op' # NoOp /\ op'.agent = op.agent /\ op'.epoch = op.epoch
        /\ op'.expected = op.expected /\ op'.key = op.key /\ op'.desired = op.desired
        /\ op'.command = "FAILED" /\ op'.status = op.status
    BY <1>2, <2>1 DEF Op, NoOp
  <2>3. op.status # "APPLIED"
    BY <2>1 DEF IInv, AppliedWasDone
  <2> QED
    BY <1>1, <1>2, <2>1, <2>2, <2>3, CommandStep
<1> QED
  BY <1>3, <1>4, <1>5

LEMMA ExpireStep ==
  ASSUME IInv, Expire
  PROVE  IInv'
<1> DEFINE command == IF op.command = "DISPATCHED" THEN "TIMEOUT" ELSE op.command
<1>1. command \in {"DISPATCHED", "COMPLETED", "FAILED", "TIMEOUT"} /\ op.status = "CLAIMED"
  BY ClaimedCommand DEF Expire
<1>2. /\ op' = [op EXCEPT !.status = "AMBIGUOUS", !.command = command]
      /\ stream' = IF Accepting THEN Faulted ELSE stream
      /\ UNCHANGED <<source, edits, mirror, executor, activation, used, sessions, sent>>
  BY DEF Expire, IInv, TypeOK, Op
<1> HIDE DEF command
<1> QED
  BY <1>1, <1>2, DoubtStep DEF sessions

-----------------------------------------------------------------------------
(* Every step *)

LEMMA NextInv ==
  ASSUME IInv, [Next]_vars
  PROVE  IInv'
<1>1. CASE UNCHANGED vars
  <2>1. CountInv'
    BY <1>1 DEF vars, brain, sessions, IInv, CountInv
  <2> QED
    BY <1>1, <2>1, SessionsOnly DEF vars, sessions, IInv, TypeOK
<1>2. CASE \E k \in Key : Edit(k)
  BY <1>2, EditStep
<1>3. CASE AgentNext
  BY <1>3, ObserveStep, NoticeStep, ObeyStep DEF AgentNext
<1>4. CASE SessionNext
  BY <1>4, ConnectionStep, GreetStep, CleanUpStep, ActivationStep DEF SessionNext
<1>5. CASE ReceiveNext
  BY <1>5, ReceiveStep DEF ReceiveNext
<1>6. CASE ControlNext
  BY <1>6, PlanStep, ClaimStep, ResultStep, ExpireStep DEF ControlNext
<1> QED
  BY <1>1, <1>2, <1>3, <1>4, <1>5, <1>6 DEF Next

LEMMA Inductive == Spec => []IInv
BY InitInv, NextInv, PTL DEF Spec

-----------------------------------------------------------------------------
(* The theorems *)

\* Every transaction keeps the stream, its epochs and its control well formed; in
\* particular a session never lacks an epoch (schedule_external.py).
THEOREM TypeCorrect == Spec => []TypeOK
<1>1. IInv => TypeOK
  BY DEF IInv
<1> QED
  BY Inductive, <1>1, PTL

\* The brain shows the source as of the observation it accepted last, although a
\* change and a control tell it one key only (apply_projection).
THEOREM MirrorAlwaysObserved == Spec => []MirrorIsObserved
<1>1. IInv => MirrorIsObserved
  BY DEF IInv
<1> QED
  BY Inductive, <1>1, PTL

\* No control is shown applied that the agent did not do, or was told had failed
\* (apply_projection, the result and the expiry of a control).
THEOREM AppliedAlwaysDone == Spec => []AppliedWasDone
<1>1. IInv => AppliedWasDone
  BY DEF IInv
<1> QED
  BY Inductive, <1>1, PTL

\* No session, greeting or observation opens a stream whose control is in doubt
\* (hold_disconnected_streams, abandon_undelivered_activation).
THEOREM DoubtAlwaysCloses == Spec => []DoubtCloses
<1>1. IInv => DoubtCloses
  BY DEF IInv
<1> QED
  BY Inductive, <1>1, PTL

-----------------------------------------------------------------------------
(* The order of the observations *)

\* An epoch is given to one session and a session gets one at most.  One that got
\* a later epoch than a session that came after it is lost, and never gets it.
OrderInv ==
    /\ live \in {0, opened}
    /\ \A e \in Session : e <= stream.epoch => executor[e] \in (1 .. opened) \ greeting
    /\ \A d, e \in Session : d < e /\ e <= stream.epoch =>
          /\ executor[d] # executor[e]
          /\ executor[d] > executor[e] => activation[e] # "DISPATCHED"
    /\ \A e \in Session : sent[e] # <<>> => activation[e] = "DISPATCHED"

LEMMA InitOrder == Init => OrderInv
<1> SUFFICES ASSUME Init PROVE OrderInv
  OBVIOUS
<1>1. \A e \in Session : ~(e <= stream.epoch)
  BY ExternalAssumption DEF Init, Session
<1> QED
  BY <1>1 DEF Init, OrderInv

\* An agent that holds an epoch is the last that observed anything.
LEMMA LastObserver ==
  ASSUME IInv, OrderInv, NEW e \in Session, Granted(e)
  PROVE  e <= stream.epoch /\ \A d \in Session : d > e => sent[d] = <<>>
<1>1. e <= stream.epoch
  BY Types DEF IInv, StreamInv, Granted
<1>2. executor[e] \in 1 .. opened /\ executor[e] = opened
  BY <1>1 DEF OrderInv, Granted
<1>3. ASSUME NEW d \in Session, d > e, sent[d] # <<>> PROVE FALSE
  <2>1. activation[d] = "DISPATCHED" /\ d <= stream.epoch
    BY <1>3, Types DEF IInv, StreamInv, OrderInv
  <2>2. executor[d] \in 1 .. opened /\ executor[d] # executor[e] /\ ~(executor[e] > executor[d])
    BY <1>3, <2>1 DEF OrderInv
  <2> QED
    BY <1>2, <2>2, Types DEF IInv
<1> QED
  BY <1>1, <1>3

\* The sessions come and go.
LEMMA OrderSessions ==
  ASSUME IInv, OrderInv, Connect \/ Disconnect \/ Crash
  PROVE  OrderInv'
<1>1. /\ live' \in {0, opened'} /\ opened' \in {opened, opened + 1}
      /\ opened' = opened => greeting' \subseteq greeting
      /\ opened' = opened + 1 => greeting' = greeting \cup {opened'}
      /\ UNCHANGED <<stream, executor, activation, sent>>
  BY Types DEF IInv, OrderInv, Connect, Disconnect, Crash, brain
<1>2. \A e \in Session : e <= stream.epoch => executor[e] \in (1 .. opened') \ greeting'
  <2> SUFFICES ASSUME NEW e \in Session, e <= stream.epoch
               PROVE  executor[e] \in (1 .. opened') \ greeting'
    OBVIOUS
  <2>1. executor[e] \in (1 .. opened) \ greeting /\ opened \in Nat
    BY Types DEF IInv, OrderInv
  <2> QED
    BY <1>1, <2>1
<1> QED
  BY <1>1, <1>2 DEF OrderInv

LEMMA OrderGreet ==
  ASSUME IInv, OrderInv, NEW s \in Session, Greet(s)
  PROVE  OrderInv'
<1>1. s \in greeting /\ greeting' = greeting \ {s} /\ UNCHANGED <<live, opened, sent>>
      /\ s \in 1 .. opened
  BY DEF Greet, IInv, TypeOK
<1>2. CASE UNCHANGED <<stream, executor, activation>>
  BY <1>1, <1>2 DEF OrderInv
<1>3. ASSUME NEW cancelled \in {{}, {stream.epoch}}, Allocated(s, cancelled),
             cancelled = {} \/ Undelivered
      PROVE  OrderInv'
  <2> DEFINE e == stream.epoch + 1
  <2>1. stream.epoch \in Nat /\ e > stream.epoch /\ e \in Session
    <3>1. stream.epoch + Cardinality(greeting) <= opened /\ stream.epoch \in Nat
          /\ opened \in 0 .. MaxSession /\ MaxSession \in Nat
      BY Types DEF IInv, CountInv, TypeOK
    <3>2. IsFiniteSet(greeting) /\ greeting # {}
      BY <1>1, Waiting
    <3>3. Cardinality(greeting) # 0 /\ Cardinality(greeting) \in Nat
      BY <3>2, FS_EmptySet, Waiting
    <3> QED
      BY <3>1, <3>3 DEF Session
  <2>2. /\ stream'.epoch = e
        /\ executor' = [executor EXCEPT ![e] = s]
        /\ activation' = [d \in Session |-> IF d = e THEN "PENDING"
                             ELSE IF d \in cancelled THEN "CANCELLED" ELSE activation[d]]
    BY <1>3 DEF Allocated
  <2> HIDE DEF e
  <2>3. \A d \in Session : d <= stream'.epoch => d = e \/ (d # e /\ d <= stream.epoch)
    BY <2>1, <2>2, Types DEF IInv, e
  <2>4. \A d \in Session : d # e => executor'[d] = executor[d]
    BY <2>2 DEF IInv, TypeOK
  <2>5. executor'[e] = s /\ activation'[e] = "PENDING"
    BY <2>1, <2>2 DEF IInv, TypeOK
  <2>6. \A d \in Session : activation'[d] = "DISPATCHED" => activation[d] = "DISPATCHED"
    BY <2>2
  <2>7. \A d \in Session : d <= stream'.epoch => executor'[d] \in (1 .. opened') \ greeting'
    BY <1>1, <2>3, <2>4, <2>5 DEF OrderInv
  <2>8. ASSUME NEW c \in Session, NEW d \in Session, c < d, d <= stream'.epoch
        PROVE  /\ executor'[c] # executor'[d]
               /\ executor'[c] > executor'[d] => activation'[d] # "DISPATCHED"
    <3>1. c # e /\ c <= stream.epoch /\ executor'[c] = executor[c]
      BY <2>1, <2>2, <2>4, <2>8, Types DEF IInv, e
    <3>2. CASE d = e
      BY <1>1, <2>5, <3>1, <3>2 DEF OrderInv
    <3>3. CASE d # e
      BY <2>3, <2>4, <2>6, <2>8, <3>1, <3>3 DEF OrderInv
    <3> QED
      BY <3>2, <3>3
  <2>9. ASSUME NEW d \in Session, sent[d] # <<>> PROVE activation'[d] = "DISPATCHED"
    <3>1. activation[d] = "DISPATCHED"
      BY <2>9 DEF OrderInv
    <3>2. d # e
      BY <2>1, <3>1 DEF IInv, StreamInv
    <3>3. d \notin cancelled
      BY <1>3, <3>1 DEF Undelivered
    <3> QED
      BY <2>2, <3>1, <3>2, <3>3
  <2> QED
    BY <1>1, <2>7, <2>8, <2>9 DEF OrderInv
<1> QED
  BY <1>2, <1>3 DEF Greet

LEMMA OrderActivation ==
  ASSUME IInv, OrderInv, NEW e \in Session, Activate(e) \/ ActivationTimesOut(e)
  PROVE  OrderInv'
<1>1. /\ UNCHANGED <<stream, executor, sessions, sent>>
      /\ activation[e] = "PENDING" /\ activation \in [Session -> {"none", "PENDING", "DISPATCHED", "CANCELLED", "TIMEOUT"}]
      /\ \A d \in Session : d # e => activation'[d] = activation[d]
      /\ activation'[e] \in {"DISPATCHED", "TIMEOUT"}
      /\ activation'[e] = "DISPATCHED" => e = stream.epoch /\ executor[e] = live
  BY DEF Activate, ActivationTimesOut, IInv, TypeOK
<1>2. ASSUME NEW c \in Session, NEW d \in Session, c < d, d <= stream.epoch
      PROVE  /\ executor[c] # executor[d]
             /\ executor[c] > executor[d] => activation'[d] # "DISPATCHED"
  <2>1. CASE d # e
    BY <1>1, <1>2, <2>1 DEF OrderInv
  <2>2. CASE d = e /\ activation'[e] = "DISPATCHED"
    <3>1. c <= stream.epoch
      BY <1>2, Types DEF IInv
    <3>2. executor[c] \in 1 .. opened /\ executor[d] \in 1 .. opened /\ executor[c] # executor[d]
      BY <1>2, <3>1 DEF OrderInv
    <3>3. executor[d] = opened
      BY <1>1, <2>2, <3>2 DEF OrderInv
    <3> QED
      BY <3>2, <3>3, Types DEF IInv
  <2>3. CASE d = e /\ activation'[e] # "DISPATCHED"
    BY <1>2, <2>3 DEF OrderInv
  <2> QED
    BY <2>1, <2>2, <2>3
<1>3. \A d \in Session : sent[d] # <<>> => d # e /\ activation[d] = "DISPATCHED"
  BY <1>1 DEF OrderInv
<1> QED
  BY <1>1, <1>2, <1>3 DEF OrderInv, sessions

\* Only the agent that holds the epoch numbers anything.
LEMMA OrderAgent ==
  ASSUME IInv, OrderInv, NEW e \in Session, Granted(e),
         \A d \in Session : d # e => sent'[d] = sent[d],
         UNCHANGED <<stream, executor, activation, sessions>>
  PROVE  OrderInv'
<1>1. \A d \in Session : sent'[d] # <<>> => activation[d] = "DISPATCHED"
  BY DEF OrderInv, Granted
<1> QED
  BY <1>1 DEF OrderInv, sessions

LEMMA OrderStep == IInv /\ OrderInv /\ [Next]_vars => OrderInv'
<1> SUFFICES ASSUME IInv, OrderInv, [Next]_vars PROVE OrderInv'
  OBVIOUS
<1>1. ASSUME NEW e \in Session, NEW k \in Key, Notice(e, k) PROVE OrderInv'
  <2>1. Granted(e) /\ UNCHANGED <<stream, executor, activation, sessions>>
        /\ \A d \in Session : d # e => sent'[d] = sent[d]
    BY <1>1 DEF Notice, Number, IInv, TypeOK, brain
  <2> QED
    BY <2>1, OrderAgent
<1>2. ASSUME NEW e \in Session, Obey(e) PROVE OrderInv'
  <2>1. Granted(e) /\ UNCHANGED <<stream, executor, activation, sessions>>
        /\ \A d \in Session : d # e => sent'[d] = sent[d]
    BY <1>2 DEF Obey, Number, IInv, TypeOK
  <2> QED
    BY <2>1, OrderAgent
<1>3. ASSUME NEW e \in Session, Observe(e) PROVE OrderInv'
  <2>1. Granted(e) /\ UNCHANGED <<stream, executor, activation, sessions>>
        /\ \A d \in Session : d # e => sent'[d] = sent[d]
    BY <1>3 DEF Observe, Number, IInv, TypeOK, brain
  <2> QED
    BY <2>1, OrderAgent
<1>4. CASE SessionNext
  <2>1. ASSUME NEW s \in Session, CleanUp(s) PROVE OrderInv'
    <3>1. stream'.epoch = stream.epoch
          /\ UNCHANGED <<executor, activation, live, opened, greeting, sent>>
      BY <2>1 DEF CleanUp, Faulted, IInv, TypeOK, Stream
    <3> QED
      BY <3>1 DEF OrderInv
  <2> QED
    BY <1>4, <2>1, OrderSessions, OrderGreet, OrderActivation DEF SessionNext
<1>5. ASSUME \/ \E k \in Key : Edit(k)
             \/ ReceiveNext \/ ControlNext \/ UNCHANGED vars
      PROVE  OrderInv'
  <2>1. stream'.epoch = stream.epoch /\ UNCHANGED <<executor, activation, sessions, sent>>
    BY <1>5 DEF Edit, ReceiveNext, Receive, ControlNext, Plan, Claim, Result, Expire, vars, brain,
                Faulted, IInv, TypeOK, Stream
  <2> QED
    BY <2>1 DEF OrderInv, sessions
<1> QED
  BY <1>1, <1>2, <1>3, <1>4, <1>5 DEF Next, AgentNext

-----------------------------------------------------------------------------
(* The contract *)

Log == [e \in Session |-> SeenIn(sent[e])]
At == [epoch |-> stream.epoch, number |-> stream.accepted]

LEMMA SeenAppended ==
  ASSUME NEW s \in Seq(Message), NEW m \in Message
  PROVE  SeenIn(Append(s, m)) = Append(SeenIn(s), m.after)
<1>1. \A x \in Message : x.after \in Content
  BY DEF Message
<1>2. SeenIn(s) \in Seq(Content) /\ Len(SeenIn(s)) = Len(s) /\ \A n \in 1 .. Len(s) : SeenIn(s)[n] = s[n].after
  BY <1>1 DEF SeenIn
<1>3. /\ DOMAIN Append(s, m) = 1 .. Len(s) + 1 /\ Append(s, m)[Len(s) + 1] = m
      /\ \A n \in 1 .. Len(s) : Append(s, m)[n] = s[n]
  BY Appended
<1>4. SeenIn(Append(s, m)) = [n \in 1 .. Len(s) + 1 |-> IF n <= Len(s) THEN s[n].after ELSE m.after]
  BY <1>3 DEF SeenIn
<1>5. Append(SeenIn(s), m.after) = [n \in 1 .. Len(s) + 1 |-> IF n <= Len(s) THEN s[n].after ELSE m.after]
  BY <1>1, <1>2
<1> QED
  BY <1>4, <1>5

\* What an agent numbers, it records after all that was recorded.
LEMMA RecordStep ==
  ASSUME IInv, OrderInv, NEW e \in Session, NEW m \in Message, Number(e, m), Granted(e),
         m.after = source', UNCHANGED <<mirror, stream>>
  PROVE  Contract!Record(e)
<1>1. e <= At.epoch /\ \A d \in Session : d > e => Log[d] = <<>>
  <2>1. SeenIn(<<>>) = <<>>
    BY DEF SeenIn
  <2> QED
    BY <2>1, LastObserver DEF Log, At
<1>2. Log' = [Log EXCEPT ![e] = Append(Log[e], source')]
  <2>1. sent[e] \in Seq(Message) /\ sent \in [Session -> Seq(Message)]
    BY DEF IInv, TypeOK
  <2>2. SeenIn(sent'[e]) = Append(SeenIn(sent[e]), source')
    BY <2>1, SeenAppended DEF Number
  <2>3. \A d \in Session : d # e => sent'[d] = sent[d]
    BY <2>1 DEF Number
  <2> QED
    BY <2>2, <2>3 DEF Log
<1> QED
  BY <1>1, <1>2 DEF Contract!Record, Log, At

LEMMA ControlIs ==
  ASSUME NEW o \in Op
  PROVE  /\ o # NoOp
         /\ ControlOf(o) = [is |-> Standing(o), key |-> o.key, desired |-> o.desired,
                            made |-> o.agent = "did"]
         /\ o.status \in {"PENDING", "CLAIMED"} => Standing(o) = "asked"
         /\ o.status = "APPLIED" => Standing(o) = "confirmed"
         /\ o.status = "AMBIGUOUS" => Standing(o) = "doubt"
BY DEF Op, NoOp, ControlOf, Standing

LEMMA ControlSet ==
  ASSUME NEW is, NEW next, NEW key, NEW desired, NEW made
  PROVE  /\ [[is |-> is, key |-> key, desired |-> desired, made |-> made] EXCEPT !.is = next]
              = [is |-> next, key |-> key, desired |-> desired, made |-> made]
         /\ [[is |-> is, key |-> key, desired |-> desired, made |-> made] EXCEPT !.made = next]
              = [is |-> is, key |-> key, desired |-> desired, made |-> next]
OBVIOUS

\* An operation that differs in its status only.
LEMMA StatusSet ==
  ASSUME NEW o \in Op, NEW p \in Op,
         p.key = o.key, p.desired = o.desired, p.agent = o.agent
  PROVE  ControlOf(p) = [ControlOf(o) EXCEPT !.is = Standing(p)]
<1> DEFINE made == o.agent = "did"
<1>1. /\ ControlOf(o) = [is |-> Standing(o), key |-> o.key, desired |-> o.desired, made |-> made]
      /\ ControlOf(p) = [is |-> Standing(p), key |-> o.key, desired |-> o.desired, made |-> made]
  BY ControlIs
<1> HIDE DEF made
<1> QED
  BY <1>1, ControlSet

LEMMA SettledIs ==
  ASSUME TypeOK, ~Unresolved
  PROVE  ControlOf(op).is \in {"none", "confirmed"}
<1>1. CASE op = NoOp
  BY <1>1 DEF ControlOf
<1>2. CASE op # NoOp
  <2>1. op \in Op /\ op.status = "APPLIED"
    BY <1>2 DEF TypeOK, Op, Unresolved
  <2> QED
    BY <2>1, ControlIs
<1> QED
  BY <1>1, <1>2

\* Two controls of one standing, for one key and state, are one to the contract.
LEMMA SameControl ==
  ASSUME NEW o \in Op, NEW p \in Op, p.key = o.key, p.desired = o.desired,
         p.agent = "did" <=> o.agent = "did",
         \/ p.status = o.status
         \/ o.status = "PENDING" /\ p.status = "CLAIMED"
  PROVE  ControlOf(p) = ControlOf(o)
<1>1. Standing(p) = Standing(o)
  BY ControlIs DEF Op
<1> QED
  BY <1>1, ControlIs

LEMMA DoubtImplements ==
  ASSUME IInv, op.status \in {"PENDING", "CLAIMED"},
         NEW command \in {"PENDING", "DISPATCHED", "COMPLETED", "FAILED", "TIMEOUT"},
         op' = [op EXCEPT !.status = "AMBIGUOUS", !.command = command],
         stream'.epoch = stream.epoch, stream'.accepted = stream.accepted,
         UNCHANGED <<source, mirror, sent>>
  PROVE  Contract!Doubt
<1>1. op \in Op /\ op' \in Op
  BY OpTypes, NoOpStatus DEF IInv, Op
<1>2. op'.status = "AMBIGUOUS" /\ op'.key = op.key /\ op'.desired = op.desired /\ op'.agent = op.agent
  BY <1>1 DEF Op
<1>3. ControlOf(op).is = "asked"
  BY <1>1, ControlIs
<1>4. ControlOf(op') = [ControlOf(op) EXCEPT !.is = "doubt"]
  <2>1. Standing(op') = "doubt"
    BY <1>1, <1>2, ControlIs
  <2>2. ControlOf(op') = [ControlOf(op) EXCEPT !.is = Standing(op')]
    BY <1>1, <1>2, StatusSet
  <2> QED
    BY <2>1, <2>2
<1> QED
  BY <1>3, <1>4 DEF Contract!Doubt

LEMMA ObserveImplements ==
  ASSUME IInv, OrderInv, NEW e \in Session, NEW k \in Key, Observe(e) \/ Notice(e, k)
  PROVE  Contract!Look(e)
<1>1. PICK m \in Message : Number(e, m) /\ m.after = source
  <2>1. ASSUME NEW j \in Key, NEW kind \in {"snapshot", "change"}
        PROVE  /\ [kind |-> kind, key |-> j, after |-> source] \in Message
               /\ [kind |-> kind, key |-> j, after |-> source].after = source
    BY DEF Message, IInv, TypeOK
  <2> QED
    BY <2>1 DEF Observe, Notice
<1>2. Granted(e) /\ UNCHANGED <<source, op, mirror, stream>>
  BY DEF Observe, Notice, brain
<1>3. Contract!Record(e)
  BY <1>1, <1>2, RecordStep
<1> QED
  BY <1>2, <1>3 DEF Contract!Look

LEMMA ObeyImplements ==
  ASSUME IInv, OrderInv, NEW e \in Session, Obey(e)
  PROVE  Contract!Carry(e) \/ UNCHANGED Contract!contractVars
<1>1. /\ op.status \in {"CLAIMED", "AMBIGUOUS"} /\ op.agent = "idle" /\ Granted(e)
      /\ UNCHANGED <<mirror, stream>>
  BY DEF Obey
<1>2. op \in Op
  BY <1>1, OpTypes, NoOpStatus DEF IInv
<1>3. CASE op' = [op EXCEPT !.agent = "refused"] /\ UNCHANGED <<source, sent>>
  <2>1. /\ op' \in Op /\ op'.status = op.status /\ op'.key = op.key /\ op'.desired = op.desired
        /\ op'.agent = "refused"
    BY <1>2, <1>3 DEF Op
  <2>2. ControlOf(op') = ControlOf(op)
    BY <1>1, <1>2, <2>1, SameControl
  <2> QED
    BY <1>1, <1>3, <2>2 DEF Contract!contractVars
<1>4. CASE /\ source' = [source EXCEPT ![op.key] = op.desired]
           /\ Number(e, [kind |-> "control", key |-> op.key, after |-> source'])
           /\ op' = [op EXCEPT !.agent = "did"]
  <2> DEFINE m == [kind |-> "control", key |-> op.key, after |-> source']
  <2>1. m \in Message /\ m.after = source'
    BY <1>2, <1>4 DEF Message, Op, Content, IInv, TypeOK
  <2>2. Number(e, m)
    BY <1>4
  <2> HIDE DEF m
  <2>3. Contract!Record(e)
    BY <1>1, <2>1, <2>2, RecordStep
  <2>4. /\ op' \in Op /\ op'.status = op.status /\ op'.key = op.key /\ op'.desired = op.desired
        /\ op'.agent = "did"
    BY <1>2, <1>4 DEF Op
  <2>5. ControlOf(op') = [ControlOf(op) EXCEPT !.made = TRUE] /\ ~ControlOf(op).made
    <3>1. Standing(op') = Standing(op)
      BY <1>1, <1>2, <2>4, ControlIs
    <3> DEFINE no == FALSE
               yes == TRUE
    <3>2. ControlOf(op) = [is |-> Standing(op), key |-> op.key, desired |-> op.desired, made |-> no]
      BY <1>1, <1>2, ControlIs
    <3>3. ControlOf(op') = [is |-> Standing(op), key |-> op.key, desired |-> op.desired, made |-> yes]
      BY <1>2, <2>4, <3>1, ControlIs
    <3>4. ~ControlOf(op).made
      BY <3>2
    <3> HIDE DEF no, yes
    <3>5. ControlOf(op') = [ControlOf(op) EXCEPT !.made = yes]
      BY <3>2, <3>3, ControlSet
    <3> QED
      BY <3>4, <3>5 DEF yes
  <2>6. /\ ControlOf(op).is \in {"asked", "doubt"}
        /\ ControlOf(op).key = op.key /\ ControlOf(op).desired = op.desired
    BY <1>1, <1>2, ControlIs
  <2> QED
    BY <1>4, <2>3, <2>5, <2>6 DEF Contract!Carry
<1> QED
  BY <1>3, <1>4 DEF Obey

LEMMA GreetImplements ==
  ASSUME IInv, NEW s \in Session, Greet(s)
  PROVE  Contract!Begin \/ UNCHANGED Contract!contractVars
<1>1. s \in greeting /\ UNCHANGED <<source, mirror, op, sent>>
  BY DEF Greet
<1>2. CASE UNCHANGED <<stream, executor, activation>>
  BY <1>1, <1>2 DEF Contract!contractVars
<1>3. ASSUME NEW cancelled, Allocated(s, cancelled),
             stream.phase \in {"none", "HELD"} \/ Holdable \/ Undelivered
      PROVE  Contract!Begin
  <2>1. ControlOf(op).is \in {"none", "confirmed"}
    <3>1. ~Unresolved
      BY <1>3 DEF Holdable, Undelivered, IInv, OpInv
    <3> QED
      BY <3>1, SettledIs DEF IInv
  <2>2. stream.epoch + 1 \in Session
    <3>1. stream.epoch + Cardinality(greeting) <= opened /\ stream.epoch \in Nat
          /\ opened \in 0 .. MaxSession /\ MaxSession \in Nat
      BY Types DEF IInv, CountInv, TypeOK
    <3>2. Cardinality(greeting) # 0 /\ Cardinality(greeting) \in Nat
      BY <1>1, Waiting, FS_EmptySet
    <3> QED
      BY <3>1, <3>2 DEF Session
  <2>3. stream'.epoch = stream.epoch + 1 /\ stream'.accepted = 0
    BY <1>3 DEF Allocated
  <2> QED
    BY <1>1, <2>1, <2>2, <2>3 DEF Contract!Begin, Contract!Settled
<1> QED
  BY <1>2, <1>3 DEF Greet

LEMMA CleanUpImplements ==
  ASSUME IInv, NEW s \in Session, CleanUp(s)
  PROVE  Contract!Doubt \/ UNCHANGED Contract!contractVars
<1>1. /\ UNCHANGED <<source, mirror, sent>>
      /\ stream'.epoch = stream.epoch /\ stream'.accepted = stream.accepted
  BY DEF CleanUp, Faulted, IInv, TypeOK, Stream
<1>2. CASE op.status = "CLAIMED" /\ executor[op.epoch] = s
  <2> DEFINE command == IF op.command = "DISPATCHED" THEN "FAILED" ELSE op.command
  <2>1. command \in {"DISPATCHED", "COMPLETED", "FAILED", "TIMEOUT"}
    BY <1>2, ClaimedCommand
  <2>2. op' = [op EXCEPT !.status = "AMBIGUOUS", !.command = command]
    BY <1>2 DEF CleanUp, IInv, TypeOK, Op
  <2> HIDE DEF command
  <2> QED
    BY <1>1, <1>2, <2>1, <2>2, DoubtImplements
<1>3. CASE ~(op.status = "CLAIMED" /\ executor[op.epoch] = s)
  BY <1>1, <1>3 DEF CleanUp, Contract!contractVars
<1> QED
  BY <1>2, <1>3

LEMMA ReceiveImplements ==
  ASSUME IInv, IInv', NEW e \in Session, NEW n \in 1 .. MaxSequence, Receive(e, n)
  PROVE  Contract!Show \/ Contract!Doubt \/ UNCHANGED Contract!contractVars
<1> DEFINE m == sent[e][n]
<1>1. n \in DOMAIN sent[e] /\ stream.epoch = e /\ n = stream.accepted + 1 /\ UNCHANGED <<source, sent>>
  BY DEF Receive, InEpoch, NextExpected
<1>2. CASE m.kind = "control" /\ ~Reserved(e, n, m)
  <2>1. /\ stream' = Faulted /\ UNCHANGED mirror
        /\ op' = IF op.status \in {"PENDING", "CLAIMED"} /\ op.epoch = e /\ op.expected = n - 1
                   THEN [op EXCEPT !.status = "AMBIGUOUS"] ELSE op
    BY <1>2 DEF Receive
  <2>2. stream'.epoch = stream.epoch /\ stream'.accepted = stream.accepted
    BY <2>1, FaultedIs DEF IInv
  <2>3. CASE op' = op
    BY <1>1, <2>1, <2>2, <2>3 DEF Contract!contractVars
  <2>4. CASE op' # op
    <3>1. op.status \in {"PENDING", "CLAIMED"} /\ op \in Op
      BY <2>1, <2>4, OpTypes, NoOpStatus DEF IInv
    <3>2. op.command \in {"PENDING", "DISPATCHED", "COMPLETED", "FAILED", "TIMEOUT"}
          /\ op' = [op EXCEPT !.status = "AMBIGUOUS", !.command = op.command]
      BY <2>1, <2>4, <3>1 DEF Op
    <3> QED
      BY <1>1, <2>1, <2>2, <3>1, <3>2, DoubtImplements
  <2> QED
    BY <2>3, <2>4
<1>3. CASE m.kind = "control" => Reserved(e, n, m)
  <2>1. /\ Accepting
        /\ stream' = [stream EXCEPT !.phase = "ACTIVE", !.accepted = n]
        /\ op' = IF m.kind = "control" THEN [op EXCEPT !.status = "APPLIED"] ELSE op
    BY <1>3 DEF Receive
  <2>2. stream'.epoch = e /\ stream'.accepted = n /\ n > 0 /\ stream.epoch \in Session
    BY <1>1, <2>1 DEF IInv, TypeOK, Stream
  <2>3. mirror' = m.after
    BY <1>1, <2>2 DEF IInv, MirrorIsObserved
  <2>4. At.number + 1 = n /\ At.epoch = e /\ n \in DOMAIN Log[e] /\ mirror' = Log[e][n]
    BY <1>1, <2>3 DEF At, Log, SeenIn
  <2>5. At' = [At EXCEPT !.number = At.number + 1]
    BY <1>1, <2>2 DEF At
  <2>6. ControlOf(op).is # "doubt"
    <3>1. op.status # "AMBIGUOUS"
      BY <2>1 DEF IInv, DoubtCloses, Accepting
    <3>2. CASE op = NoOp
      BY <3>2 DEF ControlOf
    <3>3. CASE op \in Op
      BY <3>1, <3>3, ControlIs DEF Op
    <3> QED
      BY <3>2, <3>3 DEF IInv, TypeOK
  <2>7. \/ ControlOf(op') = ControlOf(op)
        \/ /\ ControlOf(op).is = "asked" /\ ControlOf(op).made
           /\ mirror'[ControlOf(op).key] = ControlOf(op).desired
           /\ ControlOf(op') = [ControlOf(op) EXCEPT !.is = "confirmed"]
    <3>1. CASE m.kind # "control"
      BY <2>1, <3>1
    <3>2. CASE m.kind = "control"
      <4>1. op.status = "CLAIMED" /\ op.key = m.key /\ op.desired = m.after[m.key]
            /\ op' = [op EXCEPT !.status = "APPLIED"]
        BY <1>3, <2>1, <3>2 DEF Reserved
      <4>2. op \in Op
        BY <4>1, OpTypes, NoOpStatus DEF IInv
      <4>3. /\ op' \in Op /\ op'.status = "APPLIED" /\ op'.key = op.key /\ op'.desired = op.desired
            /\ op'.agent = op.agent
        BY <4>1, <4>2 DEF Op
      <4>4. op.agent = "did"
        BY <4>3 DEF IInv, AppliedWasDone
      <4>5. /\ ControlOf(op).is = "asked" /\ ControlOf(op).key = op.key
            /\ ControlOf(op).desired = op.desired /\ ControlOf(op).made
        <5> DEFINE made == op.agent = "did"
        <5>1. /\ made /\ Standing(op) = "asked"
              /\ ControlOf(op) = [is |-> Standing(op), key |-> op.key, desired |-> op.desired,
                                  made |-> made]
          BY <4>1, <4>2, <4>4, ControlIs
        <5> HIDE DEF made
        <5> QED
          BY <5>1
      <4>6. ControlOf(op') = [ControlOf(op) EXCEPT !.is = "confirmed"]
        <5>1. Standing(op') = "confirmed"
          BY <4>3, ControlIs
        <5>2. ControlOf(op') = [ControlOf(op) EXCEPT !.is = Standing(op')]
          BY <4>2, <4>3, StatusSet
        <5> QED
          BY <5>1, <5>2
      <4> QED
        BY <2>3, <4>1, <4>5, <4>6
    <3> QED
      BY <3>1, <3>2
  <2> HIDE DEF m
  <2> QED
    BY <1>1, <2>2, <2>4, <2>5, <2>6, <2>7 DEF Contract!Show, Log, At
<1> QED
  BY <1>2, <1>3

LEMMA PlanImplements ==
  ASSUME IInv, IInv', Plan
  PROVE  Contract!Ask
<1>1. ControlOf(op).is \in {"none", "confirmed"} /\ stream.accepted > 0
  BY SettledIs DEF Plan, IInv, StreamInv
<1>2. PICK k \in Key : /\ mirror[k] # "gone"
                       /\ op'.key = k /\ op'.desired = IF mirror[k] = "on" THEN "off" ELSE "on"
                       /\ op'.status = "PENDING" /\ op'.agent = "idle"
  BY DEF Plan
<1>3. op' \in Op
  BY <1>2, NoOpStatus DEF IInv, TypeOK
<1>4. op'.desired \in {"on", "off"} /\ mirror[k] # op'.desired
  BY <1>2
<1>5. ControlOf(op') = [is |-> "asked", key |-> k, desired |-> op'.desired, made |-> FALSE]
  BY <1>2, <1>3, ControlIs
<1> QED
  BY <1>1, <1>2, <1>4, <1>5 DEF Contract!Ask, Contract!Settled, Plan

LEMMA ControlImplements ==
  ASSUME IInv, Claim \/ Result \/ Expire
  PROVE  Contract!Doubt \/ UNCHANGED Contract!contractVars
<1>1. /\ UNCHANGED <<source, mirror, sent>>
      /\ stream'.epoch = stream.epoch /\ stream'.accepted = stream.accepted
      /\ op.status \in {"PENDING", "CLAIMED", "APPLIED", "AMBIGUOUS"}
  BY DEF Claim, Result, Expire, Faulted, IInv, TypeOK, Stream
<1>2. op \in Op
  BY <1>1, OpTypes, NoOpStatus DEF IInv
<1>3. \/ /\ op.status \in {"PENDING", "CLAIMED"}
         /\ \E command \in {"PENDING", "DISPATCHED", "COMPLETED", "FAILED", "TIMEOUT"} :
               op' = [op EXCEPT !.status = "AMBIGUOUS", !.command = command]
      \/ /\ op' \in Op /\ op'.key = op.key /\ op'.desired = op.desired /\ op'.agent = op.agent
         /\ op'.status = op.status \/ (op.status = "PENDING" /\ op'.status = "CLAIMED")
  <2>1. CASE Claim
    BY <1>2, <2>1 DEF Claim, Op
  <2>2. CASE Result
    <3>1. \/ op' = [op EXCEPT !.command = "COMPLETED"] \/ op' = [op EXCEPT !.command = "FAILED"]
          \/ op.status = "CLAIMED" /\ op' = [op EXCEPT !.command = "FAILED", !.status = "AMBIGUOUS"]
      BY <2>2 DEF Result
    <3>2. CASE op' = [op EXCEPT !.command = "COMPLETED"] \/ op' = [op EXCEPT !.command = "FAILED"]
      BY <1>2, <3>2 DEF Op
    <3>3. CASE op.status = "CLAIMED" /\ op' = [op EXCEPT !.command = "FAILED", !.status = "AMBIGUOUS"]
      <4>1. op' = [op EXCEPT !.status = "AMBIGUOUS", !.command = "FAILED"]
        BY <1>2, <3>3 DEF Op
      <4> QED
        BY <3>3, <4>1
    <3> QED
      BY <3>1, <3>2, <3>3
  <2>3. CASE Expire
    <3>1. PICK command \in {"PENDING", "DISPATCHED", "COMPLETED", "FAILED", "TIMEOUT"} :
             op' = [op EXCEPT !.status = "AMBIGUOUS", !.command = command]
      BY <1>2, <2>3 DEF Expire, Op
    <3> QED
      BY <2>3, <3>1 DEF Expire
  <2> QED
    BY <2>1, <2>2, <2>3
<1>4. CASE \E command \in {"PENDING", "DISPATCHED", "COMPLETED", "FAILED", "TIMEOUT"} :
             op' = [op EXCEPT !.status = "AMBIGUOUS", !.command = command]
           /\ op.status \in {"PENDING", "CLAIMED"}
  BY <1>1, <1>4, DoubtImplements
<1>5. CASE /\ op' \in Op /\ op'.key = op.key /\ op'.desired = op.desired /\ op'.agent = op.agent
           /\ op'.status = op.status \/ (op.status = "PENDING" /\ op'.status = "CLAIMED")
  <2>1. ControlOf(op') = ControlOf(op)
    BY <1>2, <1>5, SameControl
  <2> QED
    BY <1>1, <2>1 DEF Contract!contractVars
<1> QED
  BY <1>3, <1>4, <1>5

LEMMA StepImplements ==
  ASSUME IInv, IInv', OrderInv, [Next]_vars
  PROVE  [Contract!Next]_(Contract!contractVars)
<1>1. CASE \E k \in Key : Edit(k)
  <2>1. UNCHANGED <<mirror, stream, op, sent>>
    BY <1>1 DEF Edit, brain
  <2>2. source' \in Contract!Content
    BY DEF IInv, TypeOK, Content, Contract!Content
  <2> QED
    BY <2>1, <2>2 DEF Contract!Next, Contract!Change
<1>2. CASE AgentNext
  <2>1. ASSUME NEW e \in Session, Observe(e) PROVE \E k \in Key : TRUE
    BY <2>1 DEF Observe
  <2>2. ASSUME NEW e \in Session, Contract!Look(e) \/ Contract!Carry(e) PROVE Contract!Next
    BY <2>2 DEF Contract!Next
  <2> QED
    BY <1>2, <2>1, <2>2, ObserveImplements, ObeyImplements DEF AgentNext
<1>3. CASE SessionNext
  <2>1. Contract!Begin \/ Contract!Doubt => Contract!Next
    BY DEF Contract!Next
  <2>2. ASSUME NEW s \in Session, Connect \/ Disconnect \/ Crash \/ Activate(s) \/ ActivationTimesOut(s)
        PROVE  UNCHANGED Contract!contractVars
    BY <2>2 DEF Connect, Disconnect, Crash, Activate, ActivationTimesOut, brain, Contract!contractVars
  <2>3. 1 \in Session
    BY ExternalAssumption DEF Session
  <2> QED
    BY <1>3, <2>1, <2>2, <2>3, GreetImplements, CleanUpImplements DEF SessionNext
<1>4. CASE ReceiveNext
  <2>1. Contract!Show \/ Contract!Doubt => Contract!Next
    BY DEF Contract!Next
  <2> QED
    BY <1>4, <2>1, ReceiveImplements DEF ReceiveNext
<1>5. CASE ControlNext
  <2>1. Contract!Ask \/ Contract!Doubt => Contract!Next
    BY DEF Contract!Next
  <2> QED
    BY <1>5, <2>1, PlanImplements, ControlImplements DEF ControlNext
<1>6. CASE UNCHANGED vars
  BY <1>6 DEF vars, brain, Contract!contractVars
<1> QED
  BY <1>1, <1>2, <1>3, <1>4, <1>5, <1>6 DEF Next

\* The brain shows states the scheduler had, in the order they were seen, and never
\* goes back, whichever sessions were greeted late, displaced or lost; a control is
\* carried out at most once and keeps its epoch until it is confirmed; in doubt,
\* nothing new is shown (schedule_external.py).
THEOREM StreamImplementsContract == Spec => ImplementsContract
<1>1. Init => Contract!Init
  <2> SUFFICES ASSUME Init PROVE Contract!Init
    OBVIOUS
  <2>1. Log = [e \in Session |-> <<>>]
    <3>1. SeenIn(<<>>) = <<>>
      BY DEF SeenIn
    <3> QED
      BY <3>1 DEF Init, Log
  <2>2. ControlOf(op) = [is |-> "none"]
    BY DEF Init, ControlOf
  <2> QED
    BY <2>1, <2>2 DEF Init, Log, Empty, Content, Contract!Init, Contract!Content
<1>2. Init => IInv /\ OrderInv
  BY InitInv, InitOrder
<1>3. IInv /\ OrderInv /\ [Next]_vars => IInv' /\ OrderInv' /\ [Contract!Next]_(Contract!contractVars)
  BY NextInv, OrderStep, StepImplements
<1> QED
  BY <1>1, <1>2, <1>3, PTL DEF Spec, ImplementsContract, Contract!Spec
=============================================================================
