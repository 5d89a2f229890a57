------------------------------- MODULE MCUdpSsl -------------------------------
(* Nonces of two bytes that carry soon, for TLC. *)
EXTENDS UdpSsl

One    == [i \in 1 .. IvLen |-> IF i = 1 THEN 1 ELSE 0]
Topmost == [i \in 1 .. IvLen |-> Base - 1]
===============================================================================
