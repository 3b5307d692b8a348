--------------------------- MODULE CommandRowProofs ---------------------------
(***************************************************************************)
(* Lemmas about the command row: what every UPDATE of CommandRepository    *)
(* writes is a row, and what it does to the fields the invariants read.    *)
(***************************************************************************)
EXTENDS CommandRow, TLAPS

LEMMA Statuses == Status = {"ABSENT", "PENDING", "DISPATCHED", "TIMEOUT", "COMPLETED", "FAILED"}
  BY DEF Status, OpenStatus, TerminalStatus

LEMMA RowBounds ==
    /\ 0 \in 0 .. ResponseWindow
    /\ ResponseWindow \in 0 .. ResponseWindow
    /\ 0 \in 0 .. RedispatchWindow + 1
    /\ NoGeneration \in Nat
  BY WindowAssumption DEF NoGeneration

LEMMA AgedType ==
    ASSUME NEW r \in Rows
    PROVE  Aged(r) \in Rows
<1> DEFINE t == IF r.ttl > 0 THEN r.ttl - 1 ELSE 0
<1> DEFINE n == IF r.status = "DISPATCHED" /\ r.age <= RedispatchWindow
                THEN r.age + 1 ELSE r.age
<1>1. r.ttl \in 0 .. ResponseWindow /\ r.age \in 0 .. RedispatchWindow + 1
  BY DEF Rows
<1>2. t \in 0 .. ResponseWindow
  BY <1>1, WindowAssumption
<1>3. n \in 0 .. RedispatchWindow + 1
  BY <1>1, WindowAssumption
<1>4. Aged(r) = IF IsOpen(r) THEN [r EXCEPT !.ttl = t, !.age = n] ELSE r
  BY DEF Aged
<1> HIDE DEF t, n
<1>5. [r EXCEPT !.ttl = t, !.age = n] \in Rows
  BY <1>2, <1>3 DEF Rows
<1> QED
  BY <1>4, <1>5

\* What the repository's UPDATEs write are rows.
LEMMA InsertedType == \A a \in Agent : Inserted(a) \in Rows
  BY Statuses, RowBounds DEF Inserted, Rows

LEMMA RowTypes ==
    ASSUME NEW r \in Rows
    PROVE  /\ \A g \in Nat : MarkDispatched(r, g) \in Rows
           /\ RevertDispatch(r) \in Rows
           /\ \A a \in Agent : Redrive(r, a) \in Rows
           /\ \A a \in Agent : Reassign(r, a) \in Rows
           /\ \A g \in Nat : ClaimRedispatch(r, g) \in Rows
           /\ \A outcome \in TerminalStatus : MarkTerminal(r, outcome) \in Rows
           /\ Expire(r) \in Rows
<1>1. /\ "PENDING" \in Status /\ "DISPATCHED" \in Status /\ "TIMEOUT" \in Status
      /\ TerminalStatus \subseteq Status
  BY Statuses DEF TerminalStatus
<1>2. ASSUME NEW g \in Nat PROVE MarkDispatched(r, g) \in Rows
  BY <1>1, RowBounds DEF MarkDispatched, Rows
<1>3. RevertDispatch(r) \in Rows
  BY <1>1, RowBounds DEF RevertDispatch, Rows
<1>4. ASSUME NEW a \in Agent PROVE Redrive(r, a) \in Rows
  BY <1>3, RowBounds DEF Redrive, Rows
<1>5. ASSUME NEW a \in Agent PROVE Reassign(r, a) \in Rows
  BY DEF Reassign, Rows
<1>6. ASSUME NEW g \in Nat PROVE ClaimRedispatch(r, g) \in Rows
  BY RowBounds DEF ClaimRedispatch, Rows
<1>7. ASSUME NEW outcome \in TerminalStatus PROVE MarkTerminal(r, outcome) \in Rows
  BY <1>1 DEF MarkTerminal, Rows
<1>8. Expire(r) \in Rows
  BY <1>1 DEF Expire, Rows
<1> QED
  BY <1>2, <1>3, <1>4, <1>5, <1>6, <1>7, <1>8

\* What the UPDATEs do to the fields the invariants read.
LEMMA RowFields ==
    ASSUME NEW r \in Rows
    PROVE  /\ \A g \in Nat : /\ MarkDispatched(r, g).status = "DISPATCHED"
                             /\ MarkDispatched(r, g).generation = g
                             /\ MarkDispatched(r, g).owner = r.owner
                             /\ MarkDispatched(r, g).closed = r.closed
           /\ /\ RevertDispatch(r).status = "PENDING"
              /\ RevertDispatch(r).owner = r.owner
              /\ RevertDispatch(r).closed = FALSE
           /\ \A a \in Agent : /\ Redrive(r, a).status = "PENDING"
                               /\ Redrive(r, a).closed = FALSE
           /\ \A a \in Agent : /\ Reassign(r, a).status = r.status
                               /\ Reassign(r, a).closed = r.closed
           /\ \A g \in Nat : /\ ClaimRedispatch(r, g).status = r.status
                             /\ ClaimRedispatch(r, g).owner = r.owner
                             /\ ClaimRedispatch(r, g).closed = r.closed
           /\ \A outcome \in TerminalStatus :
                 /\ MarkTerminal(r, outcome).status = outcome
                 /\ MarkTerminal(r, outcome).owner = r.owner
                 /\ MarkTerminal(r, outcome).closed = TRUE
           /\ /\ Expire(r).status = "TIMEOUT"
              /\ Expire(r).owner = r.owner
              /\ Expire(r).closed = TRUE
           /\ /\ Aged(r).status = r.status
              /\ Aged(r).owner = r.owner
              /\ Aged(r).closed = r.closed
  BY DEF Rows, MarkDispatched, RevertDispatch, Redrive, Reassign, ClaimRedispatch,
         MarkTerminal, Expire, Aged
===============================================================================
