----------------------------- MODULE VringEcho -----------------------------
(***************************************************************************)
(* The way back of vring_test: the server keeps the packet it took last     *)
(* from the TX ring in one buffer, and after every traversal of its         *)
(* descriptors puts it in the RX ring and kicks the client.  Both loops     *)
(* look at their kick, then do their own part.  Vring has the detail of a   *)
(* ring; here the TX ring is two counters and the RX ring the packets put   *)
(* in it, out of RxSize descriptors that nobody gives back.                 *)
(***************************************************************************)
EXTENDS Integers, Sequences

CONSTANTS RxSize,   \* VHOST_VRING_SIZE, of the RX ring
          MaxSent   \* packets the client sends

VARIABLES
  clientAt,  \* loop_client: "traverse", "drain", "poll" or "kick"
  serverAt,  \* loop_server: "traverse", "drain", "poll" or "signal"
  sent,      \* packets the client has put in the TX ring
  taken,     \* packets the server has taken from it
  txkick, rxkick, \* the eventfds
  buffer,    \* the server's buffer: a packet, or 0 (buffer_size)
  echoed,    \* the packets put in the RX ring
  received,  \* packets the client has taken from it
  strayed    \* put_vring used a descriptor behind the end of the table

client == <<clientAt, sent, received>>
server == <<serverAt, taken, buffer>>
vars == <<client, server, txkick, rxkick, echoed, strayed>>

\* Both rings are set up and nothing was sent.
Init == /\ clientAt = "traverse" /\ serverAt = "traverse" /\ sent = 0 /\ taken = 0
        /\ txkick = FALSE /\ rxkick = FALSE /\ buffer = 0 /\ echoed = <<>>
        /\ received = 0 /\ strayed = FALSE

-----------------------------------------------------------------------------
\* traverse_fd_list and _kick_client: a kick is read, or select times out.
ClientTraverse ==
  /\ clientAt = "traverse"
  /\ clientAt' = IF rxkick THEN "drain" ELSE "poll"
  /\ rxkick' = FALSE
  /\ UNCHANGED <<server, sent, received, txkick, echoed, strayed>>

\* process_avail_vring; avail_handler_client does nothing with the packet.
ClientTakes ==
  /\ clientAt = "drain"
  /\ IF received < Len(echoed) THEN received' = received + 1 /\ UNCHANGED clientAt
                               ELSE clientAt' = "poll" /\ UNCHANGED received
  /\ UNCHANGED <<server, sent, txkick, rxkick, echoed, strayed>>

\* poll_client: put_vring, then the kick.
ClientPuts ==
  /\ clientAt = "poll" /\ sent < MaxSent
  /\ sent' = sent + 1 /\ clientAt' = "kick"
  /\ UNCHANGED <<server, received, txkick, rxkick, echoed, strayed>>
ClientKicks ==
  /\ clientAt = "kick" /\ txkick' = TRUE /\ clientAt' = "traverse"
  /\ UNCHANGED <<server, sent, received, rxkick, echoed, strayed>>

\* The bound: the client goes on without sending.
ClientRests ==
  /\ clientAt = "poll" /\ sent = MaxSent /\ clientAt' = "traverse"
  /\ UNCHANGED <<server, sent, received, txkick, rxkick, echoed, strayed>>

-----------------------------------------------------------------------------
\* traverse_fd_list and _kick_server.
ServerTraverse ==
  /\ serverAt = "traverse"
  /\ serverAt' = IF txkick THEN "drain" ELSE "poll"
  /\ txkick' = FALSE
  /\ UNCHANGED <<client, taken, buffer, rxkick, echoed, strayed>>

\* Mutant: one packet for each kick.
ServerTakesOne ==
  /\ serverAt = "drain" /\ serverAt' = "poll"
  /\ IF taken < sent THEN taken' = taken + 1 /\ buffer' = taken + 1 ELSE UNCHANGED <<taken, buffer>>
  /\ UNCHANGED <<client, txkick, rxkick, echoed, strayed>>
\* process_avail_vring and avail_handler_server: each packet takes the place
\* of the one before.
ServerTakes ==
  /\ serverAt = "drain"
  /\ IF taken < sent THEN taken' = taken + 1 /\ buffer' = taken + 1 /\ UNCHANGED serverAt
                     ELSE serverAt' = "poll" /\ UNCHANGED <<taken, buffer>>
  /\ UNCHANGED <<client, txkick, rxkick, echoed, strayed>>

\* poll_server.  Behind the last descriptor put_vring reads and writes whatever
\* lies there.
ServerEchoes ==
  /\ serverAt = "poll" /\ buffer # 0 /\ serverAt' = "signal"
  /\ IF Len(echoed) < RxSize THEN echoed' = Append(echoed, buffer) /\ UNCHANGED strayed
                             ELSE strayed' = TRUE /\ UNCHANGED echoed
  /\ UNCHANGED <<client, taken, buffer, txkick, rxkick>>
ServerIdle ==
  /\ serverAt = "poll" /\ buffer = 0 /\ serverAt' = "traverse"
  /\ UNCHANGED <<client, taken, buffer, txkick, rxkick, echoed, strayed>>

ServerSignals ==
  /\ serverAt = "signal" /\ rxkick' = TRUE /\ buffer' = 0 /\ serverAt' = "traverse"
  /\ UNCHANGED <<client, taken, txkick, echoed, strayed>>

ClientStep == ClientTraverse \/ ClientTakes \/ ClientPuts \/ ClientKicks \/ ClientRests
ServerStep == ServerTraverse \/ ServerTakes \/ ServerEchoes \/ ServerIdle \/ ServerSignals
Next == ClientStep \/ ServerStep

Spec == Init /\ [][Next]_vars /\ WF_vars(ClientStep) /\ WF_vars(ServerStep)
-----------------------------------------------------------------------------
\* The client gets its packets back in order, none twice and none that the
\* server has not taken; an echo that was put and not received has its kick
\* on the way.
EchoOnce ==
  /\ \A j, k \in 1..Len(echoed) : j < k => echoed[j] < echoed[k]
  /\ \A k \in 1..Len(echoed) : echoed[k] <= taken
  /\ received < Len(echoed) => rxkick \/ serverAt = "signal" \/ clientAt = "drain"

\* The client has everything there is, and it ends with its last packet.
LastIsBack == /\ taken = MaxSent /\ buffer = 0 /\ received = Len(echoed)
              /\ echoed[Len(echoed)] = MaxSent
=============================================================================
