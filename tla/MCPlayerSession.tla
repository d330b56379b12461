-------------------------- MODULE MCPlayerSession --------------------------
(***************************************************************************)
(* PlayerSession on small instances.                                       *)
(***************************************************************************)
EXTENDS SessionMembership, TLC

(* Connections, and names, are only ever compared with each other.         *)
Interchangeable ==
  {c @@ n : c \in Permutations(Client \ Outdated), n \in Permutations(Name)}
=============================================================================
