------------------------------ MODULE MCEvent -------------------------------
(***************************************************************************)
(* Model checking of Event.  Three bits: the tcpip_rs command of main.c    *)
(* has three operations outstanding on one event word, and every other     *)
(* caller has one.                                                         *)
(***************************************************************************)
EXTENDS Event
=============================================================================
