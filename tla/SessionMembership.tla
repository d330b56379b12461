------------------------- MODULE SessionMembership --------------------------
(***************************************************************************)
(* PlayerSession implements Membership: the members are the players of the *)
(* server's table, a client shows the players of its own, and its news are *)
(* the RPCs on their way to it.                                            *)
(***************************************************************************)
EXTENDS PlayerSession

InTable(table) == {table[s].conn : s \in Table!Occupied(table)}

ShownBy(c, table) ==
  {IF table[s] = Local THEN c ELSE table[s].conn : s \in Table!Occupied(table)}

(* What the RPC m is meant to tell client c of the members.                *)
Came(c, m) ==
  CASE m.rpc = "INITIAL_DATA" -> {c}
    [] m.rpc = "GET_PLAYERS" -> InTable(m.roster)
    [] m.rpc = "NEW_PLAYER" -> {m.player.conn}
    [] OTHER -> {}

Left(m) == IF m.rpc = "DELETE_PLAYER" THEN {m.conn} ELSE {}

Says(c, m) == [came |-> Came(c, m), left |-> Left(m)]

NewsOf(c, queue) == [i \in 1 .. Len(queue) |-> Says(c, queue[i])]

Members == InTable(players)
Connected == {c \in Client : Linked(c)}
Shown == [c \in Client |-> ShownBy(c, view[c])]
Due == [c \in Client |-> NewsOf(c, chan[c])]

Abstract ==
  INSTANCE Membership WITH
    members <- Members, linked <- Connected, shown <- Shown, due <- Due

(* Every step of the server and of its clients is a step of the abstract   *)
(* session or changes nothing in it.  The snapshots and broadcasts of      *)
(* DownloadFinished (CNetworkRPC.cpp:83) and of the two losses in          *)
(* UpdateNetwork (CNetworkModule.cpp:161) reach whom they are meant for    *)
(* and, by the slots they name, do to each client's table what they are    *)
(* meant to: no arrival or departure is missed, told twice or out of       *)
(* order, and only who has lost its connection is taken out.               *)
ImplementsMembership == Abstract!Spec
=============================================================================
