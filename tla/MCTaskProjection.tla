--------------------------- MODULE MCTaskProjection ---------------------------
(* Lives of a task, with two ticks of the clock to a second (2 and 3 share one). *)
(* It is retried and succeeds; it is retried by a clock that is ahead and starts *)
(* again; it fails, by clocks that jitter over a second, before it succeeds; two *)
(* outcomes contend, one stamped twice within a second, the other not at all; it *)
(* fails by a clock so far ahead that the clamp corrects it at first, after it   *)
(* started or before it is revoked; it fails twice within a second.              *)
EXTENDS TaskProjection

Ev(kind, at, stamps) == [kind |-> kind, at |-> at, stamps |-> stamps]

MCHistories ==
    {{Ev("retried", 1, {1}), Ev("succeeded", 3, {3})},
     {Ev("retried", 1, {2}), Ev("started", 3, {3})},
     {Ev("failed", 1, {1, 2}), Ev("succeeded", 2, {2})},
     {Ev("received", 1, {1}), Ev("succeeded", 2, {2, 3}), Ev("failed", 3, {0})},
     {Ev("started", 1, {1}), Ev("failed", 2, {4})},
     {Ev("failed", 2, {4}), Ev("revoked", 3, {3})},
     {Ev("failed", 2, {2}), Ev("failed", 3, {3})}}
===============================================================================
