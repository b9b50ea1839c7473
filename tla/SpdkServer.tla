----------------------------- MODULE SpdkServer -----------------------------
(***************************************************************************)
(* spdk_server.c: one reactor runs two pollers in turn, one that accepts    *)
(* every waiting connection, one that calls the callback of every socket of *)
(* the group that can be read or has an error, which echoes what it can.    *)
(* Of a socket after a reset the model assumes no more than that recv tells *)
(* of it at most once and returns 0 from then on, that what had come in     *)
(* before may still be read or not, and that nothing can be written.        *)
(***************************************************************************)
EXTENDS Integers, Sequences, FiniteSets

CONSTANTS Clients,
          BufferSize,  \* BUFFER_SIZE
          MaxSend      \* bytes of each client

VARIABLES
  sock,       \* ctx->sock: "listening", or "closed" (and NULL)
  accepting,  \* inside the loop of spdk_server_accept
  backlog,    \* connections waiting to be accepted
  group,      \* sockets of ctx->group
  owned,      \* sockets the server has accepted and not closed
  turnedaway, \* history: sockets closed because the group could not take them
  cst,        \* the clients: "new", "open", "closed" or "reset"
  err,        \* sockets that have a reset to tell of
  unread,     \* bytes that wait in a socket or are on their way to it
  sends,      \* history: bytes sent by each client
  gone,       \* history: bytes that were lost before the server could read them
  back,       \* history: bytes the server wrote back to each client
  short,      \* history: writes of which the socket did not take everything
  bytes_in, bytes_out, \* the counters of ctx
  crashed,    \* spdk_sock_accept(NULL)
  g_running

clients == <<cst, err, unread, sends, gone>>
echo == <<back, short, bytes_in, bytes_out>>
vars == <<sock, accepting, backlog, group, owned, turnedaway, clients, echo, crashed, g_running>>

Zeros == [c \in Clients |-> 0]
Min2(a, b) == IF a < b THEN a ELSE b

\* spdk_server_listen registers the pollers.
Init == /\ sock = "listening" /\ accepting = FALSE /\ backlog = {} /\ group = {} /\ owned = {}
        /\ turnedaway = {} /\ cst = [c \in Clients |-> "new"] /\ err = {}
        /\ unread = Zeros /\ sends = Zeros /\ gone = Zeros
        /\ back = Zeros /\ short = Zeros /\ bytes_in = 0 /\ bytes_out = 0
        /\ crashed = FALSE /\ g_running = TRUE

-----------------------------------------------------------------------------
Connect(c) ==
  /\ cst[c] = "new" /\ sock = "listening"
  /\ cst' = [cst EXCEPT ![c] = "open"] /\ backlog' = backlog \union {c}
  /\ UNCHANGED <<sock, accepting, group, owned, turnedaway, err, unread, sends, gone, echo, crashed, g_running>>

\* A byte to a socket that the server has closed is lost.
SendByte(c) ==
  /\ cst[c] = "open" /\ sends[c] < MaxSend[c]
  /\ sends' = [sends EXCEPT ![c] = @ + 1]
  /\ IF c \in turnedaway THEN gone' = [gone EXCEPT ![c] = @ + 1] /\ UNCHANGED unread
                         ELSE unread' = [unread EXCEPT ![c] = @ + 1] /\ UNCHANGED gone
  /\ UNCHANGED <<sock, accepting, backlog, group, owned, turnedaway, cst, err, echo, crashed, g_running>>

\* An orderly end.
CloseSocket(c) ==
  /\ cst[c] = "open" /\ cst' = [cst EXCEPT ![c] = "closed"]
  /\ UNCHANGED <<sock, accepting, backlog, group, owned, turnedaway, err, unread, sends, gone, echo, crashed, g_running>>

\* A reset, also as the answer to an echo that nobody reads any more.
Reset(c) ==
  /\ cst[c] = "open" \/ (cst[c] = "closed" /\ back[c] > 0)
  /\ cst' = [cst EXCEPT ![c] = "reset"]
  /\ \E told \in SUBSET ({c} \cap (backlog \cup owned)) : err' = err \cup told
  /\ \E kept \in {0, unread[c]} : /\ unread' = [unread EXCEPT ![c] = kept]
                                  /\ gone' = [gone EXCEPT ![c] = @ + (unread[c] - kept)]
  /\ UNCHANGED <<sock, accepting, backlog, group, owned, turnedaway, sends, echo, crashed, g_running>>

\* spdk_server_shutdown_callback: nothing reads the flag.
Shutdown == /\ g_running /\ g_running' = FALSE
            /\ UNCHANGED <<sock, accepting, backlog, group, owned, turnedaway, clients, echo, crashed>>

-----------------------------------------------------------------------------
\* spdk_server_accept: the loop goes on until no connection waits.
AcceptBegins ==
  /\ ~crashed /\ ~accepting /\ backlog # {} /\ sock = "listening"
  /\ accepting' = TRUE
  /\ UNCHANGED <<sock, backlog, group, owned, turnedaway, clients, echo, crashed, g_running>>

AcceptEnds ==
  /\ accepting /\ backlog = {}
  /\ accepting' = FALSE
  /\ UNCHANGED <<sock, backlog, group, owned, turnedaway, clients, echo, crashed, g_running>>

Accepted(c) ==
  /\ accepting /\ c \in backlog /\ backlog' = backlog \ {c}
  /\ group' = group \union {c} /\ owned' = owned \union {c}
  /\ UNCHANGED <<sock, accepting, turnedaway, clients, echo, crashed, g_running>>

\* spdk_sock_getaddr fails: the listening socket is closed in place of the
\* client's, which nobody has from then on.
GetaddrFails(c) ==
  /\ accepting /\ c \in backlog /\ backlog' = backlog \ {c}
  /\ sock' = "closed" /\ owned' = owned \union {c} /\ accepting' = FALSE
  /\ UNCHANGED <<group, turnedaway, clients, echo, crashed, g_running>>

\* The client's socket is closed, with what is in it.
AddSockFails(c) ==
  /\ accepting /\ c \in backlog /\ backlog' = backlog \ {c}
  /\ accepting' = FALSE /\ turnedaway' = turnedaway \union {c} /\ err' = err \ {c}
  /\ unread' = [unread EXCEPT ![c] = 0] /\ gone' = [gone EXCEPT ![c] = @ + unread[c]]
  /\ UNCHANGED <<sock, group, owned, cst, sends, echo, crashed, g_running>>

\* The poller runs again with ctx->sock = NULL.
AcceptCrashes ==
  /\ ~crashed /\ sock = "closed"
  /\ crashed' = TRUE
  /\ UNCHANGED <<sock, accepting, backlog, group, owned, turnedaway, clients, echo, g_running>>

-----------------------------------------------------------------------------
CanRead(c) == ~crashed /\ ~accepting /\ c \in group

\* Mutant: the terminating byte of a string is left out.
IovLenLess(n) == n - 1
\* iov_len: what recv returned.
IovLen(n) == n

\* spdk_server_callback: n bytes are read and offered to the socket, which takes
\* k; a failed or short write is not tried again.
Echoes(c) ==
  LET n == Min2(unread[c], BufferSize)
  IN /\ CanRead(c) /\ n > 0
     /\ unread' = [unread EXCEPT ![c] = @ - n]
     /\ bytes_in' = bytes_in + n
     /\ \E k \in 0 .. (IF cst[c] = "reset" THEN 0 ELSE IovLen(n)) :
          /\ back' = [back EXCEPT ![c] = @ + k]
          /\ short' = [short EXCEPT ![c] = IF k < IovLen(n) THEN @ + 1 ELSE @]
          /\ bytes_out' = bytes_out + k
     /\ \E told \in SUBSET {c} : err' = err \ told
     /\ UNCHANGED <<sock, accepting, backlog, group, owned, turnedaway, cst, sends, gone, crashed, g_running>>

\* n < 0: nothing but a message.
RecvFails(c) ==
  /\ CanRead(c) /\ unread[c] = 0 /\ c \in err /\ err' = err \ {c}
  /\ UNCHANGED <<sock, accepting, backlog, group, owned, turnedaway, cst, unread, sends, gone, echo, crashed, g_running>>

\* What recv returns 0 for.
Ended(c) == cst[c] \in {"closed", "reset"} /\ unread[c] = 0 /\ c \notin err
\* Mutant: the socket leaves the group and is not closed.
EndOfStreamLeaks(c) ==
  /\ CanRead(c) /\ Ended(c)
  /\ group' = group \ {c}
  /\ UNCHANGED <<sock, accepting, backlog, owned, turnedaway, clients, echo, crashed, g_running>>
\* n = 0.
EndOfStream(c) ==
  /\ CanRead(c) /\ Ended(c)
  /\ group' = group \ {c} /\ owned' = owned \ {c}
  /\ UNCHANGED <<sock, accepting, backlog, turnedaway, clients, echo, crashed, g_running>>

Poller == \/ AcceptBegins \/ AcceptEnds \/ AcceptCrashes
          \/ \E c \in Clients : Accepted(c) \/ GetaddrFails(c) \/ AddSockFails(c)
          \/ \E c \in Clients : Echoes(c) \/ RecvFails(c) \/ EndOfStream(c)
\* As long as there is a server.
Client == ~crashed /\ (Shutdown \/ \E c \in Clients : Connect(c) \/ SendByte(c) \/ CloseSocket(c) \/ Reset(c))
Next == Poller \/ Client

Spec == Init /\ [][Next]_vars /\ WF_vars(Poller)
-----------------------------------------------------------------------------
\* What the server has read of a client.
Read(c) == sends[c] - unread[c] - gone[c]
\* The group holds open sockets only.  Of the bytes the server has read all are
\* written back but for one buffer at most for each write that the socket did not
\* take whole, and none twice; and only a reset, or a socket that the group could
\* not take, costs bytes before they are read.
BytesKept ==
  /\ group \subseteq owned /\ bytes_out <= bytes_in
  /\ \A c \in Clients :
       /\ back[c] <= Read(c) /\ Read(c) <= back[c] + BufferSize * short[c]
       /\ gone[c] > 0 => cst[c] = "reset" \/ c \in turnedaway

\* No connection waits.  A client that is connected is served, and what it sent
\* was read; the socket of one that ended or reset, or was turned away, is closed.
CaughtUp ==
  /\ backlog = {} /\ unread = Zeros
  /\ \A c \in Clients :
       IF cst[c] = "open" /\ c \notin turnedaway THEN c \in group ELSE c \notin owned
=============================================================================
