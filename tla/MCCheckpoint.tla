---------------------------- MODULE MCCheckpoint ----------------------------
(***************************************************************************)
(* Checkpoint on small instances.                                          *)
(***************************************************************************)
EXTENDS Checkpoint, TLC

(* Clients, and spots, are only ever compared with each other.             *)
Interchangeable == {c @@ s : c \in Permutations(Client), s \in Permutations(Spot)}
=============================================================================
