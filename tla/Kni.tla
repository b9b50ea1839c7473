-------------------------------- MODULE Kni --------------------------------
(***************************************************************************)
(* The requests the kernel makes of a KNI program: interface up or down and *)
(* a new MTU.  Lessons 11 and 12 look for one in every turn of the worker   *)
(* and give the library one operation, for the first two; the DNS server    *)
(* looks only after a frame that is no UDP datagram, has operations for all *)
(* three, and a thread that tells the kernel the state of the link.         *)
(*                                                                         *)
(* The kernel writes its request into one area shared with the program and *)
(* puts a pointer to it into req_q; the library puts the pointer into       *)
(* resp_q when the result is in the area.  The kernel waits three seconds:  *)
(* a request it has given up stays where it is.  (Queues, area and timeout  *)
(* are those of the KNI library and module of the DPDK releases the code    *)
(* compiles with; there, interface down is waited for like the others.)     *)
(***************************************************************************)
EXTENDS Integers

CONSTANTS Mtus, DefaultMtu, MaxRequests

VARIABLES
  eager,        \* lessons 11 and 12
  port,         \* "started" or "stopped"
  len,          \* the MTU the port is configured for
  more,         \* the DNS server: frames of the burst in hand are left
  up, mtu,      \* the kernel's view of the interface
  carrier,      \* the kernel's view of the link
  req, result,  \* the shared area: request, and whether it was granted
  req_q, resp_q, \* pointers to it in either queue
  asking,       \* the kernel waits
  handling,     \* what the handler was called with, between stopping and starting the port
  refused,      \* history: "start", the port did not start; "mtu", a change of MTU failed half way
  late,         \* history: the kernel has given up a request
  halted,       \* rte_exit was called
  requests      \* requests so far

interface == <<up, mtu, carrier>>
area == <<req, result, req_q, resp_q>>
vars == <<eager, port, len, more, interface, area, asking, handling, refused, late, halted, requests>>

NoReq == [op |-> "none", mtu |-> 0]
Change(m) == [op |-> "mtu", mtu |-> m]
IfUp == [op |-> "up", mtu |-> 0]
IfDown == [op |-> "down", mtu |-> 0]

\* init_kni has made the interface, with the MTU of the port: it is down.
init_kni == /\ up = FALSE /\ mtu = DefaultMtu /\ carrier = FALSE
            /\ req = NoReq /\ result = TRUE /\ req_q = 0 /\ resp_q = 0 /\ asking = FALSE
\* port_init has started the port.
Init == /\ eager \in BOOLEAN /\ port = "started" /\ len = DefaultMtu /\ more = FALSE
        /\ init_kni /\ handling = NoReq
        /\ refused = "no" /\ late = FALSE /\ halted = FALSE /\ requests = 0

-----------------------------------------------------------------------------
(* The kernel                                                              *)

\* ifconfig: one request at a time.  The area is overwritten; a link is down
\* until the monitor says otherwise.
Request(r) ==
  /\ ~asking /\ ~halted /\ requests < MaxRequests
  /\ r = IfUp => ~up
  /\ r = IfDown => up
  /\ req' = r /\ result' = TRUE /\ req_q' = req_q + 1 /\ asking' = TRUE /\ requests' = requests + 1
  /\ carrier' = IF r.op = "mtu" THEN carrier ELSE FALSE
  /\ UNCHANGED <<eager, port, len, more, up, mtu, resp_q, handling, refused, late, halted>>
Ifconfig == Request(IfUp) \/ Request(IfDown) \/ \E m \in Mtus : Request(Change(m))

\* An interface that is taken down is down whatever the program answers.
Concluded(ok) ==
  /\ asking' = FALSE
  /\ mtu' = IF ok /\ req.op = "mtu" THEN req.mtu ELSE mtu
  /\ up' = IF req.op = "down" THEN FALSE ELSE up \/ (ok /\ req.op = "up")
  /\ UNCHANGED <<eager, port, len, more, carrier, req, result, req_q, handling, refused, halted, requests>>

\* There is a pointer in resp_q, the answer to this request or to an earlier one.
Answered == asking /\ resp_q > 0 /\ resp_q' = resp_q - 1 /\ Concluded(result) /\ UNCHANGED late
\* Three seconds without one.
GivesUp == asking /\ resp_q = 0 /\ late' = TRUE /\ Concluded(FALSE) /\ UNCHANGED resp_q
Kernel == Answered \/ GivesUp

-----------------------------------------------------------------------------
(* rte_kni_handle_request and the operations                               *)

\* Mutant: lessons 11 and 12 look for requests only after a frame, too.
LooksOnFrame == ~halted /\ req_q > 0 /\ handling = NoReq /\ port = "started"
\* A frame for the kernel comes in only through a started port, or has come
\* in with the burst in hand.
Looks == ~halted /\ req_q > 0 /\ handling = NoReq /\ (eager \/ port = "started" \/ more)

\* The ops of lessons 11 and 12 have no change_mtu: the library leaves the result
\* as it is, which the kernel takes for consent.
NotSupported ==
  /\ Looks /\ eager /\ req.op = "mtu"
  /\ req_q' = req_q - 1 /\ resp_q' = resp_q + 1
  /\ UNCHANGED <<eager, port, len, more, interface, req, result, asking, handling, refused, late, halted, requests>>

rte_eth_dev_stop ==
  /\ Looks /\ (req.op = "mtu" => ~eager)
  /\ port' = "stopped" /\ handling' = req /\ req_q' = req_q - 1
  /\ more' \in IF eager THEN {FALSE} ELSE BOOLEAN
  /\ UNCHANGED <<eager, len, interface, req, result, resp_q, asking, refused, late, halted, requests>>

\* The other frames of the burst find no request.
BurstEnds ==
  /\ more /\ handling = NoReq /\ more' = FALSE
  /\ UNCHANGED <<eager, port, len, interface, area, asking, handling, refused, late, halted, requests>>

\* The result goes into the area, whatever request is there by now.
Answer(ok) ==
  /\ result' = ok /\ resp_q' = resp_q + 1 /\ handling' = NoReq
  /\ UNCHANGED <<eager, more, interface, req, req_q, asking, late, halted, requests>>

\* kni_change_mtu after the stop.
MtuChanged ==
  /\ handling.op = "mtu"
  /\ len' = handling.mtu /\ port' = "started" /\ refused' = "no" /\ Answer(TRUE)

\* rte_eth_dev_configure fails, or a later step does: the port stays stopped.
MtuFails ==
  /\ handling.op = "mtu"
  /\ len' \in {len, handling.mtu} /\ UNCHANGED port /\ refused' = "mtu" /\ Answer(FALSE)

\* The descriptors or the TX queue.
MtuExits ==
  /\ handling.op = "mtu" /\ halted' = TRUE
  /\ UNCHANGED <<eager, port, len, more, interface, area, asking, handling, refused, late, requests>>

\* kni_config_network_if after the stop.  ng_config_network_if of lessons 11
\* and 12 answers 0 also when the port does not start.
IfConfigured ==
  /\ handling.op \in {"up", "down"}
  /\ \E ok \in IF handling.op = "up" THEN BOOLEAN ELSE {TRUE} :
       /\ port' = IF handling.op = "up" /\ ok THEN "started" ELSE "stopped"
       /\ refused' = IF refused = "mtu" THEN "mtu" ELSE IF ok THEN "no" ELSE "start"
       /\ Answer(ok \/ eager)
  /\ UNCHANGED len

\* monitor_all_ports_link_status, every 500 ms; a stopped port has no link.  The
\* kernel takes it when the interface is up and no request holds its lock.
Monitor ==
  /\ ~eager /\ ~halted /\ up /\ ~asking
  /\ carrier' = (port = "started") /\ carrier' # carrier
  /\ UNCHANGED <<eager, port, len, more, up, mtu, area, asking, handling, refused, late, halted, requests>>

Handler == ~halted /\ (NotSupported \/ rte_eth_dev_stop \/ MtuChanged \/ MtuFails \/ MtuExits \/ IfConfigured \/ BurstEnds)
Next == Ifconfig \/ Kernel \/ Handler \/ Monitor

Spec == Init /\ [][Next]_vars /\ WF_vars(Kernel) /\ WF_vars(Handler) /\ WF_vars(Monitor)
-----------------------------------------------------------------------------
\* While the interface is up the port is started, unless it could not be, and runs
\* with the MTU the kernel has where change_mtu is registered and did not fail
\* half way.  In lessons 11 and 12 the two MTUs part.  After a request that the
\* kernel gave up, answers are those of earlier requests and nothing is kept.
PortFollows ==
  ~asking /\ up /\ ~late /\ refused = "no" => port = "started" /\ (eager \/ len = mtu)

\* The DNS server has stopped its port and is through with the burst: no frame
\* comes, so that it never looks for a request again.
Deaf == ~eager /\ port = "stopped" /\ ~more /\ handling = NoReq
=============================================================================
