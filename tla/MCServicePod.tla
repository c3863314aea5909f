---------------------------- MODULE MCServicePod ----------------------------
(* A small instance of ServicePod.                                         *)
EXTENDS ServicePod, TLC

CONSTANTS p1, p2

\* Two that read, ask Redis and write, or one of them and a registration.
TwoRequests == p1 :> {"authorize"} @@ p2 :> {"authorize", "register"}
=============================================================================
