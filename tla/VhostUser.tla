----------------------------- MODULE VhostUser -----------------------------
(***************************************************************************)
(* The control side of vring_test: a vhost-user server that outlives its   *)
(* clients.  A client creates its rings in shared memory, connects, sends  *)
(* the setup messages (of which only GET_FEATURES waits for a reply) and   *)
(* then puts packets and kicks; the server runs one select loop over a     *)
(* fixed list of descriptors: the listening socket, the connections and    *)
(* the kick eventfds.  Clients come one after the other: the next one is   *)
(* started when the server has dealt with all the last one left behind.    *)
(*                                                                         *)
(* The TX ring is reduced to counters (Vring has the detail), the RX ring  *)
(* and the packet buffer are left out.  From the moment the server walks a *)
(* ring with the wrong memory table or beyond its end nothing is promised: *)
(* strayed says so and the server stops.  It also stops, by SIGPIPE, when  *)
(* it replies to a client that has died.                                   *)
(***************************************************************************)
EXTENDS Integers, Sequences, FiniteSets

CONSTANTS FdListSize,  \* FD_LIST_SIZE, 10
          MaxClients,  \* clients that are started (a bound of the model)
          MaxPkts,     \* packets one client puts (a bound of the model)
          DefaultPath  \* is the socket's path VHOST_SOCK_NAME?

ASSUME SizeAssumption == FdListSize \in Nat \ {0, 1} /\ MaxClients \in Nat /\ MaxPkts \in Nat
                         /\ DefaultPath \in BOOLEAN

Session == 1 .. MaxClients
RX == 0
TX == 1
Msg(req, ring) == [req |-> req, ring |-> ring]
RingSetup(r) == <<Msg("num", r), Msg("base", r), Msg("kick", r), Msg("call", r), Msg("addr", r)>>
\* init_vhost_client and set_host_vring_table.
Setup == <<Msg("owner", RX), Msg("features", RX), Msg("mem", RX)>> \o RingSetup(RX) \o RingSetup(TX)

Free == <<"free", 0>>
Listen == <<"listen", 0>>
Sock(s) == <<"sock", s>>
KickFd(s) == <<"kick", s>>
Slot == 1 .. FdListSize

VARIABLES
  client, cpc, step,   \* number of the last client, what it does, its next message
  obj, avail,          \* shared memory object of each session; TX avail->idx of each object
  kick,                \* sessions whose kick eventfd is readable
  backlog, msgs, open, \* connections not accepted, bytes in each socket, client side open
  reply,               \* a reply is under way to the client
  slots, fdset, pos,   \* fd_list, result of select, place in process_fd_set
  mem, desc, last_avail, \* the server's memory table, TX ring and index (sessions; 0 is none)
  announced,           \* sessions for which "Listening for kicks" was printed (history)
  taken,               \* packets of each session handed on (history)
  strayed

clients == <<client, cpc, step, obj, avail>>
wires   == <<backlog, msgs, open, reply>>
loop    == <<fdset, pos>>
backend == <<mem, desc, last_avail>>
history == <<announced, taken>>
vars    == <<clients, kick, wires, slots, loop, backend, history, strayed>>

Init ==
  /\ client = 0 /\ cpc = "gone" /\ step = 1
  /\ obj = [s \in Session |-> 0] /\ avail = [o \in Session |-> 0] /\ kick = {}
  /\ backlog = {} /\ msgs = [s \in Session |-> <<>>] /\ open = {} /\ reply = FALSE
  /\ slots = [i \in Slot |-> IF i = 1 THEN Listen ELSE Free]
  /\ fdset = {} /\ pos = 0
  /\ mem = 0 /\ desc = 0 /\ last_avail = 0
  /\ announced = {} /\ taken = [s \in Session |-> 0] /\ strayed = "no"

Readable(e) ==
  CASE e[1] = "listen" -> backlog # {}
    [] e[1] = "sock"   -> msgs[e[2]] # <<>> \/ e[2] \notin open
    [] e[1] = "kick"   -> e[2] \in kick
    [] OTHER           -> FALSE
\* find_fd_node_by_fd(fds, -1), and the list with e in the first such place.
FreeSlots == {i \in Slot : slots[i] = Free}
\* Mutant: a full list gives up its first place.
AddOverwrites(e) ==
  IF FreeSlots = {} THEN [slots EXCEPT ![1] = e]
  ELSE [slots EXCEPT ![CHOOSE i \in FreeSlots : \A j \in FreeSlots : i <= j] = e]
Add(e) ==
  IF FreeSlots = {} THEN slots
  ELSE [slots EXCEPT ![CHOOSE i \in FreeSlots : \A j \in FreeSlots : i <= j] = e]
Quiet == pos = 0 /\ \A i \in Slot : ~Readable(slots[i])
\* The session that last laid out the rings in an object.
Owner(o) == CHOOSE s \in 1 .. client : obj[s] = o /\ \A t \in s + 1 .. client : obj[t] # o

-----------------------------------------------------------------------------
(* Clients                                                                 *)

\* new_vhost_client, init_client.  The shared memory is named VHOST_SOCK_NAME
\* and is a new object only if the last client has unlinked that name:
\* end_vhost_client unlinks the name made from the socket's path.
Start(fresh) ==
  LET s == client + 1 IN
  /\ cpc \in {"gone", "killed"} /\ client < MaxClients /\ Quiet
  /\ fresh = (client = 0 \/ (cpc = "gone" /\ DefaultPath))
  /\ client' = s /\ cpc' = "setup" /\ step' = 1
  /\ obj' = [obj EXCEPT ![s] = IF fresh THEN s ELSE obj[client]]
  /\ avail' = [avail EXCEPT ![obj'[s]] = 0]
  /\ backlog' = backlog \cup {s} /\ open' = open \cup {s} /\ reply' = FALSE
  /\ UNCHANGED <<kick, msgs, slots, loop, backend, history, strayed>>

\* vhost_ioctl: send, and for GET_FEATURES wait for the reply.
Ioctl ==
  /\ cpc = "setup" /\ step <= Len(Setup)
  /\ msgs' = [msgs EXCEPT ![client] = Append(@, Setup[step])]
  /\ step' = step + 1
  /\ cpc' = IF Setup[step].req = "features" THEN "await" ELSE cpc
  /\ UNCHANGED <<client, obj, avail, kick, backlog, open, reply, slots, loop, backend, history, strayed>>
IoctlReply ==
  /\ cpc = "await" /\ reply
  /\ cpc' = "setup" /\ reply' = FALSE
  /\ UNCHANGED <<client, step, obj, avail, kick, backlog, msgs, open, slots, loop, backend, history, strayed>>
SetupDone ==
  /\ cpc = "setup" /\ step > Len(Setup) /\ cpc' = "put"
  /\ UNCHANGED <<client, step, obj, avail, kick, wires, slots, loop, backend, history, strayed>>

\* send_packet: put_vring, then kick.
PutPacket ==
  /\ cpc = "put" /\ avail[obj[client]] < MaxPkts
  /\ avail' = [avail EXCEPT ![obj[client]] = @ + 1] /\ cpc' = "kick"
  /\ UNCHANGED <<client, step, obj, kick, wires, slots, loop, backend, history, strayed>>
KickServer ==
  /\ cpc = "kick" /\ cpc' = "put" /\ kick' = kick \cup {client}
  /\ UNCHANGED <<client, step, obj, avail, wires, slots, loop, backend, history, strayed>>

\* SIGINT: end_vhost_client sends RESET_OWNER and unlinks the shared memory.
Stop ==
  /\ cpc = "put" /\ cpc' = "gone"
  /\ msgs' = [msgs EXCEPT ![client] = Append(@, Msg("reset", RX))] /\ open' = open \ {client}
  /\ UNCHANGED <<client, step, obj, avail, kick, backlog, reply, slots, loop, backend, history, strayed>>
\* The client is killed: its socket is closed, its shared memory stays.
Killed ==
  /\ cpc \notin {"gone", "killed"} /\ cpc' = "killed"
  /\ open' = open \ {client} /\ reply' = FALSE
  /\ UNCHANGED <<client, step, obj, avail, kick, backlog, msgs, slots, loop, backend, history, strayed>>

-----------------------------------------------------------------------------
(* The server's select loop                                                *)

\* Mutant: the last place of the list is not looked at.
SelectShort ==
  LET r == {slots[i] : i \in {j \in Slot \ {FdListSize} : Readable(slots[j])}} IN
  /\ pos = 0 /\ strayed = "no" /\ r # {}
  /\ fdset' = r /\ pos' = 1
  /\ UNCHANGED <<clients, kick, wires, slots, backend, history, strayed>>
\* traverse_fd_list up to select; a timeout changes nothing.
Select ==
  LET r == {slots[i] : i \in {j \in Slot : Readable(slots[j])}} IN
  /\ pos = 0 /\ strayed = "no" /\ r # {}
  /\ fdset' = r /\ pos' = 1
  /\ UNCHANGED <<clients, kick, wires, slots, backend, history, strayed>>

\* process_fd_set: the next node, as the list is now, that select has marked.
Marked == {i \in pos .. FdListSize : slots[i] \in fdset}
At(kind, s) == /\ pos > 0 /\ strayed = "no" /\ Marked # {}
               /\ LET i == CHOOSE j \in Marked : \A k \in Marked : j <= k
                  IN  slots[i] = <<kind, s>> /\ pos' = i + 1 /\ UNCHANGED fdset
EndTraverse ==
  /\ pos > 0 /\ strayed = "no" /\ Marked = {} /\ pos' = 0 /\ fdset' = {}
  /\ UNCHANGED <<clients, kick, wires, slots, backend, history, strayed>>

\* accept_sock_server; the result of add_fd_list is ignored.
Accept ==
  /\ At("listen", 0)
  /\ \E s \in backlog : /\ \A t \in backlog : s <= t
                        /\ backlog' = backlog \ {s} /\ slots' = Add(Sock(s))
  /\ UNCHANGED <<clients, kick, msgs, open, reply, backend, history, strayed>>

\* Mutant: the closed socket is left in the list.
HangupKeepsNode(s) ==
  /\ At("sock", s) /\ msgs[s] = <<>>
  /\ UNCHANGED <<clients, kick, wires, slots, backend, history, strayed>>
\* receive_sock_server: 0 bytes, the other side is closed.
Hangup(s) ==
  /\ At("sock", s) /\ msgs[s] = <<>>
  /\ slots' = [i \in Slot |-> IF slots[i] = Sock(s) THEN Free ELSE slots[i]]
  /\ UNCHANGED <<clients, kick, wires, backend, history, strayed>>

\* receive_sock_server: one message goes to in_msg_server.
Receive(s, reqs) == /\ At("sock", s) /\ msgs[s] # <<>> /\ Head(msgs[s]).req \in reqs
                    /\ msgs' = [msgs EXCEPT ![s] = Tail(@)]
Ring(s) == Head(msgs[s]).ring

\* Handlers that only print, and _set_vring_num and _set_vring_call.
Noted(s) ==
  /\ Receive(s, {"owner", "reset", "num", "call"})
  /\ UNCHANGED <<clients, kick, backlog, open, reply, slots, backend, history, strayed>>
\* Mutant: the handler does not ask for the reply.
GetFeaturesSilent(s) ==
  /\ Receive(s, {"features"})
  /\ UNCHANGED <<clients, kick, backlog, open, reply, slots, backend, history, strayed>>
\* The reply goes out with sendmsg(fd, &msgh, 0) and SIGPIPE is not handled.
GetFeatures(s) ==
  /\ Receive(s, {"features"})
  /\ IF s \in open THEN reply' = TRUE /\ UNCHANGED strayed
                   ELSE strayed' = "sigpipe" /\ UNCHANGED reply
  /\ UNCHANGED <<clients, kick, backlog, open, slots, backend, history>>
SetMemTable(s) ==
  /\ Receive(s, {"mem"}) /\ mem' = s
  /\ UNCHANGED <<clients, kick, backlog, open, reply, slots, desc, last_avail, history, strayed>>
\* Mutant: the index of the last client is kept.
SetVringBaseKeeps(s) ==
  /\ Receive(s, {"base"})
  /\ UNCHANGED <<clients, kick, backlog, open, reply, slots, backend, history, strayed>>
SetVringBase(s) ==
  /\ Receive(s, {"base"}) /\ last_avail' = IF Ring(s) = TX THEN 0 ELSE last_avail
  /\ UNCHANGED <<clients, kick, backlog, open, reply, slots, mem, desc, history, strayed>>
\* The result of add_fd_list is ignored.
SetVringKick(s) ==
  /\ Receive(s, {"kick"})
  /\ IF Ring(s) = TX THEN slots' = Add(KickFd(s)) /\ announced' = announced \cup {s}
                     ELSE UNCHANGED <<slots, announced>>
  /\ UNCHANGED <<clients, kick, backlog, open, reply, backend, taken, strayed>>
SetVringAddr(s) ==
  /\ Receive(s, {"addr"}) /\ desc' = IF Ring(s) = TX THEN s ELSE desc
  /\ UNCHANGED <<clients, kick, backlog, open, reply, slots, mem, last_avail, history, strayed>>

\* Mutant: the test of vring[idx].desc is missing.
KickUnguarded(s) ==
  /\ At("kick", s) /\ kick' = kick \ {s}
  /\ IF desc = 0 THEN strayed' = "unset" /\ UNCHANGED <<last_avail, taken>>
     ELSE /\ last_avail' = avail[obj[desc]] /\ UNCHANGED strayed
          /\ taken' = [taken EXCEPT ![Owner(obj[desc])] = @ + avail[obj[desc]] - last_avail]
  /\ UNCHANGED <<clients, wires, slots, mem, desc, announced>>
\* _kick_server: read the eventfd, then process_avail_vring if a ring is set.
Kick(s) ==
  /\ At("kick", s) /\ kick' = kick \ {s}
  /\ IF desc = 0 \/ avail[obj[desc]] = last_avail
     THEN UNCHANGED <<last_avail, taken, strayed>>
     ELSE IF Owner(obj[desc]) # mem
     THEN strayed' = "unmapped" /\ UNCHANGED <<last_avail, taken>>
     ELSE IF avail[obj[desc]] < last_avail
     THEN strayed' = "runaway" /\ UNCHANGED <<last_avail, taken>>
     ELSE /\ last_avail' = avail[obj[desc]] /\ UNCHANGED strayed
          /\ taken' = [taken EXCEPT ![Owner(obj[desc])] = @ + avail[obj[desc]] - last_avail]
  /\ UNCHANGED <<clients, wires, slots, mem, desc, announced>>

-----------------------------------------------------------------------------
ClientStep == \/ \E fresh \in BOOLEAN : Start(fresh)
              \/ Ioctl \/ IoctlReply \/ SetupDone \/ PutPacket \/ KickServer
Ends == Stop \/ Killed
Handle(s) == \/ Hangup(s) \/ Noted(s) \/ GetFeatures(s) \/ SetMemTable(s) \/ SetVringBase(s)
             \/ SetVringKick(s) \/ SetVringAddr(s) \/ Kick(s)
ServerStep == Select \/ EndTraverse \/ Accept \/ \E s \in Session : Handle(s)
Next == ClientStep \/ Ends \/ ServerStep
Spec == Init /\ [][Next]_vars

(* Both processes keep running; nothing makes a client end.                *)
FairSpec == Spec /\ WF_vars(ClientStep) /\ WF_vars(ServerStep)
=============================================================================
