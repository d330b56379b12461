----------------------------- MODULE Membership -----------------------------
(***************************************************************************)
(* What the session promises, without slots, indices or packets: a client  *)
(* that becomes a member is shown itself, then the members of that moment, *)
(* and then every arrival and departure since, each of them once and in    *)
(* order, for as long as it stays.  News may also be of something else.    *)
(*                                                                         *)
(* PlayerSession implements this specification while joins do not overlap  *)
(* with connections that open and close (SessionMembership).               *)
(***************************************************************************)
EXTENDS Sequences

CONSTANT Client

VARIABLES
  members,  \* who is in the session, as the server knows it
  linked,   \* the clients with a connection
  shown,    \* the members each client shows
  due       \* the news each client has yet to show, in order

vars == <<members, linked, shown, due>>

News == [came : SUBSET Client, left : SUBSET Client]

TypeOK ==
  /\ members \subseteq Client /\ linked \subseteq Client
  /\ shown \in [Client -> SUBSET Client]
  /\ due \in [Client -> Seq(News)]

Came(who) == <<[came |-> who, left |-> {}]>>
Left(who) == <<[came |-> {}, left |-> who]>>

(* What is not about who is in the session.                                *)
Other == <<[came |-> {}, left |-> {}]>>

Init ==
  /\ members = {} /\ linked = {}
  /\ shown = [c \in Client |-> {}]
  /\ due = [c \in Client |-> <<>>]

Link(c) ==
  /\ c \notin linked \cup members /\ shown[c] = {} /\ due[c] = <<>>
  /\ linked' = linked \cup {c}
  /\ UNCHANGED <<members, shown, due>>

(* The other members hear of a joiner; the joiner hears of itself first.   *)
Enter(c) ==
  /\ c \in linked \ members /\ members' = members \cup {c}
  /\ shown[c] = {}
  /\ due' = [d \in Client |->
       IF d = c
       THEN due[c] \o Came({c}) \o IF members = {} THEN <<>> ELSE Came(members)
       ELSE due[d] \o IF d \in linked \cap members THEN Came({c}) ELSE <<>>]
  /\ UNCHANGED <<linked, shown>>

(* Only a member without a connection is taken out, and all are told.      *)
Remove(c) ==
  /\ c \in members \ linked /\ members' = members \ {c}
  /\ due' = [d \in Client |->
       due[d] \o IF d \in linked THEN Left({c}) ELSE <<>>]
  /\ UNCHANGED <<linked, shown>>

(* The server tells the listeners something else.                          *)
Tell(listeners) ==
  /\ listeners \subseteq linked
  /\ due' = [d \in Client |-> due[d] \o IF d \in listeners THEN Other ELSE <<>>]
  /\ UNCHANGED <<members, linked, shown>>

CutOff(c) ==
  /\ c \in linked
  /\ linked' = linked \ {c}
  /\ UNCHANGED <<members, shown, due>>

(* A client ends, of itself or because it has been cut off.                *)
Quit(c) ==
  /\ c \in linked \/ shown[c] # {} \/ due[c] # <<>>
  /\ linked' = linked \ {c}
  /\ shown' = [shown EXCEPT ![c] = {}] /\ due' = [due EXCEPT ![c] = <<>>]
  /\ UNCHANGED members

Show(c) ==
  /\ due[c] # <<>>
  /\ LET news == Head(due[c]) IN
     shown' = [shown EXCEPT ![c] = (@ \cup news.came) \ news.left]
  /\ due' = [due EXCEPT ![c] = Tail(@)]
  /\ UNCHANGED <<members, linked>>

Next ==
  \/ \E c \in Client :
       Link(c) \/ Enter(c) \/ Remove(c) \/ CutOff(c) \/ Quit(c) \/ Show(c)
  \/ \E listeners \in SUBSET Client : Tell(listeners)

Spec == Init /\ [][Next]_vars
=============================================================================
