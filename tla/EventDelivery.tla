--------------------------- MODULE EventDelivery ---------------------------
(***************************************************************************)
(* What a consumer group promises to the producer of a partition: events   *)
(* are given out one after the other, each at least once, and once more at *)
(* most for every time the delivery was cut off.                           *)
(***************************************************************************)
EXTENDS Naturals, Sequences

CONSTANT
    Events              \* what can be sent

VARIABLES
    log,                \* the events sent, in order
    given,              \* how many times each was given out
    done,               \* how many events are behind the group for good
    cut                 \* how many times the delivery was cut off

vars == <<log, given, done, cut>>

GivenUpTo(n) == \A i \in 1 .. n : given[i] > 0

Init ==
    /\ log = <<>> /\ given = <<>>
    /\ done = 0 /\ cut = 0

(* An event is sent; the producer's retry may send it twice.               *)
Send(e) ==
    /\ \E events \in {<<e>>, <<e, e>>} :
          /\ log' = log \o events
          /\ given' = given \o [i \in DOMAIN events |-> 0]
    /\ UNCHANGED <<done, cut>>

(* An event is given out when those before it have been, and again only if *)
(* enough cuts excuse it.                                                  *)
Give(i) ==
    /\ GivenUpTo(i - 1)
    /\ given[i] <= cut
    /\ given' = [given EXCEPT ![i] = @ + 1]
    /\ UNCHANGED <<log, done, cut>>

(* The group moves forward, past nothing that has not been given out.      *)
Settle(i) ==
    /\ i > done /\ GivenUpTo(i)
    /\ done' = i
    /\ UNCHANGED <<log, given, cut>>

Cut == cut' = cut + 1 /\ UNCHANGED <<log, given, done>>

Next ==
    \/ \E e \in Events : Send(e)
    \/ \E i \in DOMAIN log : Give(i) \/ Settle(i)
    \/ Cut

Spec == Init /\ [][Next]_vars
=============================================================================
