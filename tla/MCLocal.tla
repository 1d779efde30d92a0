------------------------------- MODULE MCLocal -------------------------------
(* LocalRequests with two sources of two services. *)
EXTENDS LocalRequests, TLC

CONSTANTS x1, x2, s1, s2

MCServiceOf == x1 :> s1 @@ x2 :> s2
=============================================================================
