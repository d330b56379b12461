------------------------------ MODULE MCSeats -------------------------------
(***************************************************************************)
(* Seats on a small instance.                                              *)
(***************************************************************************)
EXTENDS Seats
=============================================================================
