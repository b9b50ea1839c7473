-------------------------------- MODULE Nvme --------------------------------
(***************************************************************************)
(* spdk_nvme.c: every active namespace of every controller is written and   *)
(* read back, one after the other.  The commands complete in callbacks that *)
(* run while the program polls the queue pair; the write's callback submits *)
(* the read.  One flag, is_completed, tells the loops when to go on.        *)
(***************************************************************************)
EXTENDS Integers, Sequences

CONSTANTS Ctrlrs,  \* controllers the probe may find
          MaxNs    \* active namespaces of a controller

VARIABLES
  npc,           \* where the program is
  g_controllers, g_namespaces, \* the lists; a namespace is "zns" or "plain"
  cur,           \* the namespace being served
  qpairs,        \* namespaces whose queue pair is allocated
  is_completed,  \* sequence.is_completed
  inflight,      \* the command the device has
  buf,           \* sequence.buf: "none", "cmb", "write" or "read"
  served,        \* history: namespaces whose block was written and read back
  nomem,         \* history: an allocation failed
  status         \* what main returns

lists == <<g_controllers, g_namespaces>>
io == <<cur, qpairs, is_completed, inflight, buf, served>>
vars == <<npc, lists, io, nomem, status>>

Seqs(S, n) == UNION {[1..k -> S] : k \in 0..n}
Ended == {"returned", "exited"}

Init == /\ npc = "probe" /\ g_controllers = {} /\ g_namespaces = <<>>
        /\ cur = 1 /\ qpairs = {} /\ is_completed = FALSE /\ inflight = "none" /\ buf = "none"
        /\ served = {} /\ nomem = FALSE /\ status = 0

\* exit(1): no cleanup.
Exits == npc' = "exited" /\ status' = 1 /\ UNCHANGED <<lists, io, nomem>>

\* _spdk_nvme_attach_cb and spdk_nvme_register_ns.
Attach(c) ==
  /\ npc = "probe" /\ c \notin g_controllers
  /\ g_controllers' = g_controllers \union {c}
  /\ \E s \in Seqs({"zns", "plain"}, MaxNs) : g_namespaces' = g_namespaces \o s
  /\ UNCHANGED <<npc, io, nomem, status>>

\* An allocation of a callback fails, or a submission, or a command.
Dies == /\ npc \in {"probe", "reset", "resetwait", "write", "wait"}
        /\ npc \in {"resetwait", "wait"} => inflight # "none"
        /\ Exits

\* spdk_nvme_probe returns.
Probed(ok) ==
  /\ npc = "probe"
  /\ IF ok /\ g_controllers # {} THEN npc' = "next" /\ UNCHANGED status
                                 ELSE npc' = "cleanup" /\ status' = 1
  /\ UNCHANGED <<lists, io, nomem>>

\* The head of the loop: queue pair, buffer.
NextNs ==
  /\ npc = "next" /\ cur <= Len(g_namespaces)
  /\ npc' = IF g_namespaces[cur] = "zns" THEN "reset" ELSE "write"
  /\ qpairs' = qpairs \union {cur} /\ buf' \in {"cmb", "write"} /\ is_completed' = FALSE
  /\ UNCHANGED <<lists, cur, inflight, served, nomem, status>>

\* Neither is tried again: spdk_nvme returns, and main returns 0.
NextNsFails ==
  /\ npc = "next" /\ cur <= Len(g_namespaces)
  /\ qpairs' \in {qpairs, qpairs \union {cur}}
  /\ npc' = "cleanup" /\ nomem' = TRUE
  /\ UNCHANGED <<lists, cur, is_completed, inflight, buf, served, status>>

NoneLeft ==
  /\ npc = "next" /\ cur > Len(g_namespaces)
  /\ npc' = "cleanup"
  /\ UNCHANGED <<lists, io, nomem, status>>

-----------------------------------------------------------------------------
Submit(command) == inflight' = command

SubmitReset ==
  /\ npc = "reset" /\ Submit("reset") /\ npc' = "resetwait"
  /\ UNCHANGED <<lists, cur, qpairs, is_completed, buf, served, nomem, status>>

\* Mutant: the callback does not set the flag.
ResetCompleteBare ==
  /\ npc = "resetwait" /\ inflight = "reset"
  /\ inflight' = "none"
  /\ UNCHANGED <<npc, lists, cur, qpairs, is_completed, buf, served, nomem, status>>
spdk_nvme_reset_zone_complete ==
  /\ npc = "resetwait" /\ inflight = "reset"
  /\ inflight' = "none" /\ is_completed' = TRUE
  /\ UNCHANGED <<npc, lists, cur, qpairs, buf, served, nomem, status>>

\* The loop ends and the flag is cleared for the next one.
ResetWaited ==
  /\ npc = "resetwait" /\ is_completed
  /\ is_completed' = FALSE /\ npc' = "write"
  /\ UNCHANGED <<lists, cur, qpairs, inflight, buf, served, nomem, status>>

SubmitWrite ==
  /\ npc = "write" /\ Submit("write") /\ npc' = "wait"
  /\ UNCHANGED <<lists, cur, qpairs, is_completed, buf, served, nomem, status>>

\* The read goes to a new buffer; the one written from is forgotten.
spdk_nvme_write_complete ==
  /\ npc = "wait" /\ ~is_completed /\ inflight = "write"
  /\ Submit("read") /\ buf' = "read"
  /\ UNCHANGED <<npc, lists, cur, qpairs, is_completed, served, nomem, status>>

spdk_nvme_read_complete ==
  /\ npc = "wait" /\ ~is_completed /\ inflight = "read"
  /\ inflight' = "none" /\ is_completed' = TRUE /\ buf' = "none"
  /\ served' = served \union {cur}
  /\ UNCHANGED <<npc, lists, cur, qpairs, nomem, status>>

\* The loop ends: spdk_nvme_ctrlr_free_io_qpair.
NsDone ==
  /\ npc = "wait" /\ is_completed
  /\ qpairs' = qpairs \ {cur} /\ cur' = cur + 1 /\ npc' = "next"
  /\ UNCHANGED <<lists, is_completed, inflight, buf, served, nomem, status>>

cleanup ==
  /\ npc = "cleanup" /\ npc' = "returned"
  /\ g_controllers' = {} /\ g_namespaces' = <<>>
  /\ UNCHANGED <<io, nomem, status>>

Program ==
  \/ \E ok \in BOOLEAN : Probed(ok)
  \/ Dies
  \/ NextNs \/ NextNsFails \/ NoneLeft \/ SubmitReset \/ ResetWaited \/ SubmitWrite
  \/ spdk_nvme_reset_zone_complete \/ spdk_nvme_write_complete \/ spdk_nvme_read_complete
  \/ NsDone \/ cleanup
Next == Program \/ \E c \in Ctrlrs : Attach(c)

Spec == Init /\ [][Next]_vars /\ WF_vars(Program)
-----------------------------------------------------------------------------
\* A command is in flight only on a queue pair that exists, and a read only
\* while its buffer does; the loop goes past a namespace only when its block
\* was written and read back; main returns with every controller given back,
\* and 0 only if every namespace was served or memory was short.
InOrder ==
  /\ inflight # "none" => cur \in qpairs
  /\ inflight = "read" => buf = "read"
  /\ served = 1..cur - 1 \/ (npc = "wait" /\ is_completed /\ served = 1..cur) \/ npc \in Ended
  /\ npc = "returned" => g_controllers = {} /\ g_namespaces = <<>>
  /\ npc = "cleanup" /\ status = 0 => nomem \/ served = 1..Len(g_namespaces)
=============================================================================
