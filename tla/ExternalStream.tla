---------------------------- MODULE ExternalStream ----------------------------
(***************************************************************************)
(* The schedules of one external scheduler (say celery-beat), mirrored in  *)
(* the brain.  The scheduler stays their master: it may change them at any *)
(* time, and the brain changes one only by asking the agent to.  What the  *)
(* agent observes comes as a numbered stream, in an epoch that the brain   *)
(* allocates for one session of the agent, and begins with a snapshot.     *)
(*                                                                         *)
(* One stream and one worker slot of one agent.  Sessions are numbered as  *)
(* they connect; each transaction of the code is one action.  Drain, seal, *)
(* retirement and owner cutover, snapshots in several frames, and commands *)
(* of the schedule.external.mutate kind are left out.                      *)
(***************************************************************************)
EXTENDS Integers, Sequences

CONSTANTS
    Key,            \* the schedules the scheduler may have
    MaxSession,     \* sessions the agent opens; epochs are not more
    MaxSequence,    \* observations in an epoch
    MaxEdit         \* changes the scheduler makes of its own

ASSUME ExternalAssumption ==
    /\ MaxSession \in Nat \ {0}
    /\ MaxSequence \in Nat \ {0}
    /\ MaxEdit \in Nat

Session == 1 .. MaxSession
Content == [Key -> {"on", "off", "gone"}]
Empty == [k \in Key |-> "gone"]

VARIABLES
    source,     \* the schedules as the scheduler has them
    edits,      \* how often it changed them
    mirror,     \* the schedules as the brain has them
    stream,     \* the row of the stream
    executor,   \* executor[e]: the session that epoch e was allocated for
    activation, \* activation[e]: the command that hands epoch e to its session
    op,         \* the control operation, with its command
    live,       \* the session that is registered, or 0
    opened,     \* sessions so far
    greeting,   \* sessions that have registered and not been greeted yet
    cleaning,   \* sessions whose disconnect cleanup is still to run
    sent,       \* sent[e]: the observations the agent has numbered in epoch e
    used        \* the identities of the control commands there have been

brain == <<mirror, stream, executor, activation, op, used>>
sessions == <<live, opened, greeting, cleaning>>
vars == <<source, edits, brain, sessions, sent>>

Phases == {"none", "ACTIVATING", "ACTIVE", "HELD", "AMBIGUOUS"}
Stream == [phase : Phases, epoch : 0 .. MaxSession, accepted : 0 .. MaxSequence]

\* HELD: RESTORE_REACTIVATION_REQUIRED.  A control names the key, the state that
\* is wanted and the sequence number it was planned after; agent is what the
\* agent made of it.
NoOp == [status |-> "none"]
Op == [status : {"PENDING", "CLAIMED", "APPLIED", "AMBIGUOUS"},
       command : {"PENDING", "DISPATCHED", "COMPLETED", "FAILED", "TIMEOUT"},
       agent : {"idle", "did", "refused"},
       key : Key, desired : {"on", "off"}, epoch : Session, expected : 0 .. MaxSequence]

\* The idempotency key of a control command; it has no epoch.
Identity == [accepted : 0 .. MaxSequence, key : Key, desired : {"on", "off"}]

\* after is the source as the agent saw it; of a change or a control the brain
\* is told the one key only.
Message == [kind : {"snapshot", "change", "control"}, key : Key, after : Content]

TypeOK ==
    /\ source \in Content
    /\ edits \in 0 .. MaxEdit
    /\ mirror \in Content
    /\ stream \in Stream
    /\ executor \in [Session -> 0 .. MaxSession]
    /\ activation \in [Session -> {"none", "PENDING", "DISPATCHED", "CANCELLED", "TIMEOUT"}]
    /\ op \in Op \cup {NoOp}
    /\ op # NoOp => (op.status = "PENDING" <=> op.command = "PENDING")
    /\ used \subseteq Identity
    /\ live \in 0 .. MaxSession
    /\ opened \in 0 .. MaxSession
    /\ greeting \subseteq 1 .. opened
    /\ cleaning \subseteq 1 .. opened
    /\ sent \in [Session -> Seq(Message)]
    /\ \A e \in Session : Len(sent[e]) <= MaxSequence

Init ==
    /\ source \in Content
    /\ edits = 0
    /\ mirror = Empty
    /\ stream = [phase |-> "none", epoch |-> 0, accepted |-> 0]
    /\ executor = [e \in Session |-> 0]
    /\ activation = [e \in Session |-> "none"]
    /\ op = NoOp
    /\ live = 0
    /\ opened = 0
    /\ greeting = {}
    /\ cleaning = {}
    /\ sent = [e \in Session |-> <<>>]
    /\ used = {}

-----------------------------------------------------------------------------
(* What several transactions share *)

Unresolved == op.status \in {"PENDING", "CLAIMED", "AMBIGUOUS"}

UnclaimedActivation == \E e \in Session : activation[e] = "PENDING"

\* hold_disconnected_streams passes over a stream whose activation is unclaimed,
\* and over one with a control that has no certain end.
HoldableAnyway ==          \* mutant: an unresolved control is no obstacle
    /\ stream.phase \in {"ACTIVATING", "ACTIVE"}
    /\ ~(stream.phase = "ACTIVATING" /\ UnclaimedActivation)

Holdable ==
    /\ stream.phase \in {"ACTIVATING", "ACTIVE"}
    /\ ~(stream.phase = "ACTIVATING" /\ UnclaimedActivation)
    /\ ~Unresolved

Faulted == [stream EXCEPT !.phase = "AMBIGUOUS"]

Accepting == stream.phase \in {"ACTIVATING", "ACTIVE"}

-----------------------------------------------------------------------------
(* The scheduler and the agent: external *)

\* Someone changes a schedule in the scheduler itself.
Edit(k) ==
    /\ edits < MaxEdit
    /\ \E v \in {"on", "off", "gone"} \ {source[k]} : source' = [source EXCEPT ![k] = v]
    /\ edits' = edits + 1
    /\ UNCHANGED <<brain, sessions, sent>>

\* The agent has the epoch, in the session it was handed to.
Granted(e) == activation[e] = "DISPATCHED" /\ executor[e] = live

Number(e, m) == sent' = [sent EXCEPT ![e] = Append(@, m)]

LastSeen(e) == sent[e][Len(sent[e])].after

\* It begins an epoch with a snapshot, and takes another when something changed.
Observe(e) ==
    /\ Granted(e)
    /\ Len(sent[e]) < MaxSequence
    /\ sent[e] # <<>> => LastSeen(e) # source
    /\ \E k \in Key : Number(e, [kind |-> "snapshot", key |-> k, after |-> source])
    /\ UNCHANGED <<source, edits, brain, sessions>>

\* Or it tells the one key that changed, when no more did.
Notice(e, k) ==
    /\ Granted(e)
    /\ Len(sent[e]) \in 1 .. MaxSequence - 1
    /\ LastSeen(e) # source
    /\ source = [LastSeen(e) EXCEPT ![k] = source[k]]
    /\ Number(e, [kind |-> "change", key |-> k, after |-> source])
    /\ UNCHANGED <<source, edits, brain, sessions>>

\* A control is done if nothing was numbered since it was planned and the source
\* is as it was, and is refused otherwise.
Obey(e) ==
    /\ op.status \in {"CLAIMED", "AMBIGUOUS"} /\ op.agent = "idle" /\ op.epoch = e
    /\ op.command # "PENDING"
    /\ Granted(e)
    /\ IF Len(sent[e]) = op.expected /\ op.expected < MaxSequence /\ LastSeen(e) = source
         THEN /\ source' = [source EXCEPT ![op.key] = op.desired]
              /\ Number(e, [kind |-> "control", key |-> op.key, after |-> source'])
              /\ op' = [op EXCEPT !.agent = "did"]
         ELSE op' = [op EXCEPT !.agent = "refused"] /\ UNCHANGED <<source, sent>>
    /\ UNCHANGED <<edits, mirror, stream, executor, activation, used, sessions>>

-----------------------------------------------------------------------------
(* Sessions *)

\* A connection registers in the slot; the one it displaces ends some time later.
Connect ==
    /\ opened < MaxSession
    /\ opened' = opened + 1
    /\ live' = opened'
    /\ greeting' = greeting \cup {opened'}
    /\ cleaning' = IF live = 0 THEN cleaning ELSE cleaning \cup {live}
    /\ UNCHANGED <<source, edits, brain, sent>>

Disconnect ==
    /\ live # 0
    /\ live' = 0
    /\ cleaning' = cleaning \cup {live}
    /\ UNCHANGED <<source, edits, brain, opened, greeting, sent>>

\* The brain dies: no session is left, and nothing that was still to run does.
Crash ==
    /\ live # 0 \/ greeting # {} \/ cleaning # {}
    /\ live' = 0
    /\ greeting' = {}
    /\ cleaning' = {}
    /\ UNCHANGED <<source, edits, brain, opened, sent>>

AllocatedOnward(s, cancelled) ==    \* mutant: the new epoch counts on from the old
    LET e == stream.epoch + 1 IN
    /\ stream' = [stream EXCEPT !.phase = "ACTIVATING", !.epoch = e]
    /\ executor' = [executor EXCEPT ![e] = s]
    /\ activation' = [d \in Session |-> IF d = e THEN "PENDING"
                                         ELSE IF d \in cancelled THEN "CANCELLED" ELSE activation[d]]

\* A new epoch for session s, with its activation command; in place of an
\* activation that was never delivered, that one is cancelled.
Allocated(s, cancelled) ==
    LET e == stream.epoch + 1 IN
    /\ stream' = [phase |-> "ACTIVATING", epoch |-> e, accepted |-> 0]
    /\ executor' = [executor EXCEPT ![e] = s]
    /\ activation' = [d \in Session |-> IF d = e THEN "PENDING"
                                         ELSE IF d \in cancelled THEN "CANCELLED" ELSE activation[d]]

\* abandon_undelivered_activation lets an epoch go only if nothing came of it and
\* the stream has no schedules.
Undelivered ==
    /\ stream.phase = "ACTIVATING" /\ stream.accepted = 0
    /\ activation[stream.epoch] = "PENDING"
    /\ mirror = Empty

\* What a session gets some time after it registered, displaced by then or not:
\* the stream of its slot is fenced, and it is given the next epoch, or nothing.
Greet(s) ==
    /\ s \in greeting
    /\ greeting' = greeting \ {s}
    /\ \/ /\ stream.phase \in {"none", "HELD"} \/ Holdable
          /\ Allocated(s, {})
       \/ /\ ~Holdable /\ Undelivered
          /\ Allocated(s, {stream.epoch})
       \/ /\ stream.phase \notin {"none", "HELD"} /\ ~Holdable /\ ~Undelivered
          /\ UNCHANGED <<stream, executor, activation>>
    /\ UNCHANGED <<source, edits, mirror, op, used, live, opened, cleaning, sent>>

\* The end of a session: its claimed control is uncertain, and so is the stream
\* then; otherwise the stream is held for the next session.
CleanUp(s) ==
    /\ s \in cleaning \ greeting
    /\ cleaning' = cleaning \ {s}
    /\ IF op.status = "CLAIMED" /\ executor[op.epoch] = s
         THEN /\ op' = [op EXCEPT !.status = "AMBIGUOUS",
                                  !.command = IF @ = "DISPATCHED" THEN "FAILED" ELSE @]
              /\ stream' = IF Accepting THEN Faulted ELSE stream
         ELSE /\ stream' = IF Holdable /\ executor[stream.epoch] = s
                             THEN [stream EXCEPT !.phase = "HELD"] ELSE stream
              /\ UNCHANGED op
    /\ UNCHANGED <<source, edits, mirror, executor, activation, used, live, opened, greeting, sent>>

\* The activation is claimed for the session it names and sent there.
Activate(e) ==
    /\ activation[e] = "PENDING"
    /\ e = stream.epoch
    /\ stream.phase = "ACTIVATING" /\ stream.accepted = 0
    /\ executor[e] = live
    /\ activation' = [activation EXCEPT ![e] = "DISPATCHED"]
    /\ UNCHANGED <<source, edits, mirror, stream, executor, op, used, sessions, sent>>

\* One that is not delivered times out.  A live session is sent to at once, so
\* its session is gone then.
ActivationTimesOut(e) ==
    /\ activation[e] = "PENDING"
    /\ executor[e] # live
    /\ activation' = [activation EXCEPT ![e] = "TIMEOUT"]
    /\ UNCHANGED <<source, edits, mirror, stream, executor, op, used, sessions, sent>>

-----------------------------------------------------------------------------
(* Observations *)

Told(m) == IF m.kind = "snapshot" THEN m.after ELSE [mirror EXCEPT ![m.key] = m.after[m.key]]

AnyEpoch(e) == stream.epoch >= e   \* mutant: epochs that are over are heard too

InEpoch(e) == stream.epoch = e

NextExpected(n) == n = stream.accepted + 1

\* The control that an observation claims to be the effect of.
Reserved(e, n, m) ==
    /\ op.status = "CLAIMED"
    /\ op.epoch = e
    /\ op.expected = stream.accepted
    /\ op.key = m.key /\ op.desired = m.after[m.key]

\* apply_projection.  Of an epoch that is over, of a number that was accepted, or
\* of one that is not next, nothing comes; the first observation of an epoch is
\* a snapshot.  Who delivers it, and when, is not asked.
Receive(e, n) ==
    LET m == sent[e][n] IN
    /\ n \in DOMAIN sent[e]
    /\ InEpoch(e)
    /\ NextExpected(n)
    /\ \/ /\ m.kind = "control" /\ ~Reserved(e, n, m)
          /\ stream' = Faulted
          /\ op' = IF op.status \in {"PENDING", "CLAIMED"} /\ op.epoch = e /\ op.expected = n - 1
                     THEN [op EXCEPT !.status = "AMBIGUOUS"] ELSE op
          /\ UNCHANGED mirror
       \/ /\ m.kind = "control" => Reserved(e, n, m)
          /\ stream.phase = "ACTIVATING" => n = 1 /\ m.kind = "snapshot"
          /\ Accepting
          /\ mirror' = Told(m)
          /\ stream' = [stream EXCEPT !.phase = "ACTIVE", !.accepted = n]
          /\ op' = IF m.kind = "control" THEN [op EXCEPT !.status = "APPLIED"] ELSE op
    /\ UNCHANGED <<source, edits, executor, activation, used, sessions, sent>>

-----------------------------------------------------------------------------
(* Controls *)

\* plan_control_operation: one at a time, for a schedule that is there and not in
\* the state that is wanted; a command of the same identity, from whatever epoch,
\* makes the plan fail.
Plan ==
    /\ stream.phase = "ACTIVE"
    /\ stream.accepted < MaxSequence
    /\ ~Unresolved
    /\ \E k \in {j \in Key : mirror[j] # "gone"} :
         LET d == IF mirror[k] = "on" THEN "off" ELSE "on"
             id == [accepted |-> stream.accepted, key |-> k, desired |-> d]
         IN /\ id \notin used
            /\ used' = used \cup {id}
            /\ op' = [status |-> "PENDING", command |-> "PENDING", agent |-> "idle", key |-> k,
                      desired |-> d, epoch |-> stream.epoch, expected |-> stream.accepted]
    /\ UNCHANGED <<source, edits, mirror, stream, executor, activation, sessions, sent>>

ClaimQuietly ==            \* mutant: the operation is claimed and its command is not
    /\ op.status = "PENDING"
    /\ stream.phase = "ACTIVE" /\ stream.epoch = op.epoch /\ stream.accepted = op.expected
    /\ executor[op.epoch] = live
    /\ op' = [op EXCEPT !.status = "CLAIMED"]
    /\ UNCHANGED <<source, edits, mirror, stream, executor, activation, used, sessions, sent>>

\* The command of a control is claimed for the session it was planned for, while
\* the stream is where it was: the next number is reserved for it.
Claim ==
    /\ op.status = "PENDING"
    /\ stream.phase = "ACTIVE" /\ stream.epoch = op.epoch /\ stream.accepted = op.expected
    /\ executor[op.epoch] = live
    /\ op' = [op EXCEPT !.status = "CLAIMED", !.command = "DISPATCHED"]
    /\ UNCHANGED <<source, edits, mirror, stream, executor, activation, used, sessions, sent>>

ResultApplies ==           \* mutant: the agent's word is enough
    /\ op.status \in {"CLAIMED", "APPLIED", "AMBIGUOUS"}
    /\ op.agent # "idle" /\ op.command = "DISPATCHED"
    /\ stream.epoch = op.epoch /\ executor[op.epoch] = live
    /\ op' = [op EXCEPT !.command = IF op.agent = "did" THEN "COMPLETED" ELSE "FAILED",
                        !.status = IF @ = "CLAIMED" THEN "APPLIED" ELSE @]
    /\ UNCHANGED <<source, edits, mirror, stream, executor, activation, used, sessions, sent>>

\* The agent's result, in the session the control was claimed for.  Success says
\* nothing about the schedule; a failure leaves both in doubt.
Result ==
    /\ op.status \in {"CLAIMED", "APPLIED", "AMBIGUOUS"}
    /\ op.agent # "idle" /\ op.command = "DISPATCHED"
    /\ stream.epoch = op.epoch /\ executor[op.epoch] = live
    /\ IF op.agent = "did"
         THEN op' = [op EXCEPT !.command = "COMPLETED"] /\ UNCHANGED stream
         ELSE IF op.status = "CLAIMED" /\ Accepting
           THEN op' = [op EXCEPT !.command = "FAILED", !.status = "AMBIGUOUS"] /\ stream' = Faulted
           ELSE op' = [op EXCEPT !.command = "FAILED"] /\ UNCHANGED stream
    /\ UNCHANGED <<source, edits, mirror, executor, activation, used, sessions, sent>>

ExpireUnanswered ==        \* mutant: a control that was answered does not expire
    /\ op.status = "CLAIMED" /\ op.command = "DISPATCHED"
    /\ op' = [op EXCEPT !.status = "AMBIGUOUS", !.command = "TIMEOUT"]
    /\ stream' = IF Accepting THEN Faulted ELSE stream
    /\ UNCHANGED <<source, edits, mirror, executor, activation, used, sessions, sent>>

\* The deadline of a claimed control passes before its observation comes.
Expire ==
    /\ op.status = "CLAIMED"
    /\ op' = [op EXCEPT !.status = "AMBIGUOUS",
                        !.command = IF @ = "DISPATCHED" THEN "TIMEOUT" ELSE @]
    /\ stream' = IF Accepting THEN Faulted ELSE stream
    /\ UNCHANGED <<source, edits, mirror, executor, activation, used, sessions, sent>>

-----------------------------------------------------------------------------
AgentNext == \E e \in Session : Observe(e) \/ Obey(e) \/ \E k \in Key : Notice(e, k)

SessionNext ==
    \/ Connect \/ Disconnect \/ Crash
    \/ \E s \in Session : Greet(s) \/ CleanUp(s) \/ Activate(s) \/ ActivationTimesOut(s)

ReceiveNext == \E e \in Session : \E n \in 1 .. MaxSequence : Receive(e, n)

ControlNext == Plan \/ Claim \/ Result \/ Expire

Next ==
    \/ \E k \in Key : Edit(k)
    \/ AgentNext
    \/ SessionNext
    \/ ReceiveNext
    \/ ControlNext

\* A registered session is greeted and sent its activation; a connected agent
\* looks at the source, and sends until it is acknowledged; the deadline worker
\* ticks.
Fairness ==
    /\ \A s \in Session : WF_vars(Greet(s)) /\ WF_vars(Activate(s)) /\ WF_vars(Observe(s))
    /\ WF_vars(live # 0 /\ ReceiveNext)
    /\ WF_vars(Expire)

Spec == Init /\ [][Next]_vars
FairSpec == Spec /\ Fairness

-----------------------------------------------------------------------------
(* Correctness *)

\* The brain shows the schedules as they were at the observation it accepted
\* last, all of them, whatever came late, again or from a lost session.
MirrorIsObserved ==
    stream.accepted > 0 =>
        /\ stream.accepted \in DOMAIN sent[stream.epoch]
        /\ mirror = sent[stream.epoch][stream.accepted].after

\* A control counts as applied only if the agent did it and its effect was
\* observed under the number that was reserved for it; nobody is told then that it
\* failed or timed out.
AppliedWasDone ==
    op.status = "APPLIED" =>
        /\ op.agent = "did"
        /\ op.command \in {"DISPATCHED", "COMPLETED"}
        /\ op.expected + 1 \in DOMAIN sent[op.epoch]
        /\ LET m == sent[op.epoch][op.expected + 1] IN
             m.kind = "control" /\ m.key = op.key /\ m.after[op.key] = op.desired

\* An uncertain control keeps its stream closed: no session, old or new, is given
\* an epoch, and nothing is accepted, until an operator looks at it.
DoubtCloses ==
    op.status = "AMBIGUOUS" => stream.phase = "AMBIGUOUS" /\ stream.epoch = op.epoch

\* A claimed control gets an end: its observation, or doubt.
ClaimEnds == op.status = "CLAIMED" ~> op.status # "CLAIMED"

\* The stream is in doubt, or is not with the live session though that one was
\* greeted: an activation or a control that was never claimed stood in the way, or
\* the greeting of a lost session came late.
Left ==
    \/ stream.phase = "AMBIGUOUS"
    \/ live \notin greeting /\ ~(Accepting /\ executor[stream.epoch] = live)

\* For a session that stays, the brain comes to show the schedules as they are,
\* unless the stream is left (or the numbers of the model run out).
CatchesUp ==
    \A s \in Session :
        live = s ~> \/ live # s
                    \/ mirror = source
                    \/ Left
                    \/ stream.accepted = MaxSequence

-----------------------------------------------------------------------------
(* The contract: sessions, epochs' activations, commands and phases are hidden *)

SeenIn(s) == [n \in DOMAIN s |-> s[n].after]

Standing(o) ==
    CASE o.status \in {"PENDING", "CLAIMED"} -> "asked"
      [] o.status = "APPLIED" -> "confirmed"
      [] o.status = "AMBIGUOUS" -> "doubt"

ControlOf(o) ==
    IF o = NoOp THEN [is |-> "none"]
    ELSE [is |-> Standing(o), key |-> o.key, desired |-> o.desired, made |-> o.agent = "did"]

Contract == INSTANCE MirrorContract WITH
    Epoch <- Session,
    log <- [e \in Session |-> SeenIn(sent[e])],
    at <- [epoch |-> stream.epoch, number |-> stream.accepted],
    control <- ControlOf(op)

\* The brain goes through the states of the scheduler in the order they were seen,
\* over all epochs and sessions, greeted late or lost; a control keeps its epoch
\* until it is applied, is carried out at most once, and closes the stream when
\* it is in doubt.
ImplementsContract == Contract!Spec
=============================================================================
