--------------------------- MODULE VhostUserProps ---------------------------
(* What the vhost-user server keeps across its clients. *)
EXTENDS VhostUser

Entry == {Free, Listen} \cup {Sock(s) : s \in Session} \cup {KickFd(s) : s \in Session}
Msgs == [req : {"owner", "reset", "features", "mem", "num", "base", "kick", "call", "addr"},
         ring : {RX, TX}]

(* Types of the state; a connection and a kick eventfd are in the list of  *)
(* descriptors at most once, and the listening socket never leaves it.     *)
TypeOK ==
  /\ client \in 0 .. MaxClients /\ cpc \in {"gone", "killed", "setup", "await", "put", "kick"}
  /\ step \in 1 .. Len(Setup) + 1
  /\ obj \in [Session -> 0 .. MaxClients] /\ avail \in [Session -> 0 .. MaxPkts]
  /\ kick \subseteq Session /\ backlog \subseteq Session /\ open \subseteq Session
  /\ msgs \in [Session -> Seq(Msgs)] /\ reply \in BOOLEAN
  /\ slots \in [Slot -> Entry] /\ slots[1] = Listen
  /\ \A i, j \in Slot : slots[i] = slots[j] /\ slots[i] # Free => i = j
  /\ fdset \subseteq Entry \ {Free} /\ pos \in 0 .. FdListSize + 1
  /\ mem \in 0 .. MaxClients /\ desc \in 0 .. MaxClients /\ last_avail \in 0 .. MaxPkts
  /\ announced \subseteq Session /\ taken \in [Session -> Nat]
  /\ strayed \in {"no", "unmapped", "runaway", "unset", "sigpipe"}

InList(e) == \E i \in Slot : slots[i] = e

(* While memory table and ring are those of the running client, the server *)
(* has handed on the packets up to its index, none twice and none skipped: *)
(* SET_VRING_BASE has made it forget the index of the client before.       *)
NoneSkipped ==
  desc # 0 /\ desc = mem /\ desc = client /\ strayed = "no" => last_avail = taken[client]

(* The first client of a server is served from its own memory, whenever    *)
(* its kicks arrive between its setup messages: a kick before the ring is  *)
(* set is read and ignored.                                                *)
FirstClientSafe == client <= 1 => strayed \in {"no", "sigpipe"}

(* "Listening for kicks on" (_set_vring_kick, which ignores the result of  *)
(* add_fd_list): it is true of the running client unless eventfds of       *)
(* former clients have left no place beside the two sockets.               *)
ListenedUnlessFull ==
  \A s \in announced : s = client =>
    \/ InList(KickFd(s))
    \/ Cardinality({t \in Session : t # s /\ InList(KickFd(t))}) >= FdListSize - 2

(* Whatever ends a session and wherever, the list of descriptors and the   *)
(* device are left in a state the next client can be served from.          *)
SessionsSafe == TypeOK /\ NoneSkipped /\ FirstClientSafe /\ ListenedUnlessFull

(* A client that has connected finishes its setup, unless it is killed or  *)
(* the server has strayed or died: however many eventfds of former clients *)
(* fill the list, one place is left for the connection of the next client. *)
SetupCompletes ==
  \A s \in Session : (client = s /\ cpc = "setup")
     ~> (client # s \/ cpc \in {"put", "kick", "killed"} \/ strayed # "no")

(* The place of a closed connection is given back.                         *)
SocketReaped ==
  \A s \in Session : (InList(Sock(s)) /\ s \notin open) ~> (~InList(Sock(s)) \/ strayed # "no")

(* A kick on an eventfd of the list is read.                               *)
KickRead ==
  \A s \in Session : (s \in kick /\ InList(KickFd(s))) ~> (s \notin kick \/ strayed # "no")

(* The select loop reaches every descriptor of its list, although one pass *)
(* changes the list it walks: hang-ups are reaped and kicks are read.      *)
LoopServes == SocketReaped /\ KickRead
=============================================================================
