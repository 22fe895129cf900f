------------------------------ MODULE MCProxy ------------------------------
(* A small proxy with two servers, each on a host of its own, or both on   *)
(* one host.                                                               *)
EXTENDS Proxy, TLC

CONSTANTS long, short, x, y

TwoHosts == long :> x @@ short :> y
OneHost == long :> x @@ short :> x
MCLenOf == long :> 2 @@ short :> 1
=============================================================================
