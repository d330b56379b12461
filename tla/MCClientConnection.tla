------------------------- MODULE MCClientConnection -------------------------
(***************************************************************************)
(* ClientConnection on small instances.                                    *)
(***************************************************************************)
EXTENDS ClientConnection, TLC
=============================================================================
