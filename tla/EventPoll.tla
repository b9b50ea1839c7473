----------------------------- MODULE EventPoll -----------------------------
(***************************************************************************)
(* The user-space epoll of 14_tcp_concurrency/tcp_concurrency.c: the       *)
(* packet thread posts events with epoll_event_callback while the server   *)
(* thread registers sockets with nepoll_ctl and collects events with       *)
(* nepoll_wait.  One action is one step between two points at which the    *)
(* other thread can observe or disturb the shared struct eventpoll.        *)
(*                                                                         *)
(* An epitem comes from rte_malloc and is given to the free() of libc,     *)
(* which is undefined: with one layout of the DPDK heap's header libc      *)
(* finds the pointer invalid and ends the process, with another it keeps   *)
(* the block.  Either may happen here.  The block never returns to the     *)
(* DPDK heap: an Item is an address handed out at most once, and a removed *)
(* item keeps its contents and its place in rdlist.  Left out: the event   *)
(* masks (every post and every registration is EPOLLIN) and the fields     *)
(* rbcnt and waiting, which nothing ever reads.                            *)
(***************************************************************************)
EXTENDS Integers, Sequences, FiniteSets

CONSTANTS Item,      \* addresses rte_malloc can return for an epitem
          Fd,        \* socket numbers
          NoItem, NoFd,
          MaxEvents  \* the maxevents argument of nepoll_wait

VARIABLES
  sockfd, rbr,                  \* the tree: each item's socket, the items linked in
  rdy, rdlist, rdnum,           \* each item's flag, the ready list, its length counter
  lock, cdmtx,                  \* who holds the spin lock, the condition's mutex
  cbpc, cbitem, cbret,          \* packet thread: step, epi, how the last call ended
  spc, sitem, timeout, num, events \* server thread: step, epi and the locals of nepoll_wait

tree   == <<sockfd, rbr>>
ready  == <<rdy, rdlist, rdnum>>
cbvars == <<cbpc, cbitem, cbret>>
locals == <<sitem, timeout, num, events>>
vars   == <<tree, ready, lock, cdmtx, cbvars, spc, locals>>

\* libc has not ended the process.
Running == spc # "aborted"
InList(i) == \E k \in 1 .. Len(rdlist) : rdlist[k] = i
Registered(fd) == {i \in rbr : sockfd[i] = fd}
\* RB_INSERT or RB_REMOVE is rewriting links (the server thread holds mtx)
TreeInFlux == spc \in {"inserting", "removing"}
\* A walk from the root is only sure to meet what was linked before and stays
\* linked; with two or more other nodes the update may rotate the tree under
\* the walker's feet.
MayBeMissed(i) == TreeInFlux /\ (i = sitem \/ Cardinality(rbr \ {sitem}) >= 2)

(***************************************************************************)
(* nepoll_create.  rdnum and every rdy start as the zeroes of rte_malloc   *)
(* memory.                                                                 *)
(***************************************************************************)
Init ==
  /\ sockfd = [i \in Item |-> NoFd] /\ rbr = {}
  /\ rdy = [i \in Item |-> FALSE] /\ rdlist = <<>> /\ rdnum = 0
  /\ lock = "free" /\ cdmtx = "free"
  /\ cbpc = "idle" /\ cbitem = NoItem /\ cbret = "none"
  /\ spc = "idle" /\ sitem = NoItem /\ timeout = "zero" /\ num = 0 /\ events = <<>>

-----------------------------------------------------------------------------
(* Packet thread: epoll_event_callback(ep, sockid, event)                  *)

\* The rest of the world while the packet thread moves from one step to the next.
CallbackGoto(from, to) ==
  /\ Running /\ cbpc = from /\ cbpc' = to
  /\ UNCHANGED <<tree, locals>>

\* RB_FIND runs without mtx.  On a tree at rest it finds exactly what is
\* registered; while the server rewrites links it may also meet the item
\* being moved.
CallbackFind(fd) ==
  /\ CallbackGoto("idle", "check")
  /\ \E i \in Registered(fd) \cup {j \in {sitem} \ {NoItem} : TreeInFlux /\ sockfd[j] = fd} :
        cbitem' = i
  /\ cbret' = "none"
  /\ UNCHANGED <<ready, lock, cdmtx, spc>>

\* "rbtree not exist": the event is dropped.
CallbackMiss(fd) ==
  /\ CallbackGoto("idle", "idle")
  /\ \A i \in Registered(fd) : MayBeMissed(i)
  /\ cbret' = "miss" /\ cbitem' = NoItem
  /\ UNCHANGED <<ready, lock, cdmtx, spc>>

\* if (epi->rdy), read outside the spin lock: the event is merged.
CallbackMerge ==
  /\ CallbackGoto("check", "idle")
  /\ rdy[cbitem]
  /\ cbret' = "merged"
  /\ UNCHANGED <<cbitem, ready, lock, cdmtx, spc>>

\* Mutant: the test of rdy is gone.
CallbackUntested ==
  /\ CallbackGoto("check", "lock")
  /\ UNCHANGED <<cbitem, cbret, ready, lock, cdmtx, spc>>

CallbackNotReady ==
  /\ CallbackGoto("check", "lock")
  /\ ~rdy[cbitem]
  /\ UNCHANGED <<cbitem, cbret, ready, lock, cdmtx, spc>>

\* Mutant: the spin lock is not waited for.
CallbackUnlocked ==
  /\ CallbackGoto("lock", "setrdy")
  /\ lock' = "pkt"
  /\ UNCHANGED <<cbitem, cbret, ready, cdmtx, spc>>

CallbackLock ==
  /\ CallbackGoto("lock", "setrdy")
  /\ lock = "free" /\ lock' = "pkt"
  /\ UNCHANGED <<cbitem, cbret, ready, cdmtx, spc>>

CallbackSetRdy ==
  /\ CallbackGoto("setrdy", "link")
  /\ rdy' = [rdy EXCEPT ![cbitem] = TRUE]
  /\ UNCHANGED <<cbitem, cbret, rdlist, rdnum, lock, cdmtx, spc>>

CallbackLink ==
  /\ CallbackGoto("link", "count")
  /\ rdlist' = <<cbitem>> \o rdlist
  /\ UNCHANGED <<cbitem, cbret, rdy, rdnum, lock, cdmtx, spc>>

CallbackCount ==
  /\ CallbackGoto("count", "unlock")
  /\ rdnum' = rdnum + 1
  /\ UNCHANGED <<cbitem, cbret, rdy, rdlist, lock, cdmtx, spc>>

CallbackUnlock ==
  /\ CallbackGoto("unlock", "cdlock")
  /\ lock' = "free"
  /\ UNCHANGED <<cbitem, cbret, ready, cdmtx, spc>>

\* Mutant: the signal is sent without cdmtx.
CallbackBareSignal ==
  /\ CallbackGoto("cdlock", "signal")
  /\ UNCHANGED <<cbitem, cbret, ready, lock, cdmtx, spc>>

CallbackCdLock ==
  /\ CallbackGoto("cdlock", "signal")
  /\ cdmtx = "free" /\ cdmtx' = "pkt"
  /\ UNCHANGED <<cbitem, cbret, ready, lock, spc>>

\* Mutant: the signal is forgotten.
CallbackNoSignal ==
  /\ CallbackGoto("signal", "idle")
  /\ cdmtx' = "free" /\ cbret' = "queued"
  /\ UNCHANGED <<cbitem, ready, lock, spc>>

\* pthread_cond_signal wakes the server only if it is blocked right now.
CallbackSignal ==
  /\ CallbackGoto("signal", "idle")
  /\ spc' = IF spc = "blocked" THEN "woken" ELSE spc
  /\ cdmtx' = "free" /\ cbret' = "queued"
  /\ UNCHANGED <<cbitem, ready, lock>>

-----------------------------------------------------------------------------
(* Server thread: nepoll_ctl(epfd, op, sockid, event)                      *)

ServerGoto(from, to) ==
  /\ spc = from /\ spc' = to
  /\ UNCHANGED cbvars

\* EPOLL_CTL_ADD of a socket that is not in the tree; the other outcomes
\* (already there, allocation failure) return -1 and change nothing.
CtlAdd(fd) ==
  /\ ServerGoto("idle", "inserting")
  /\ Registered(fd) = {}
  /\ \E i \in Item : sockfd[i] = NoFd /\ sockfd' = [sockfd EXCEPT ![i] = fd] /\ sitem' = i
  /\ UNCHANGED <<rbr, ready, lock, cdmtx, timeout, num, events>>

CtlAddDone ==
  /\ ServerGoto("inserting", "idle")
  /\ rbr' = rbr \cup {sitem}
  /\ UNCHANGED <<sockfd, ready, lock, cdmtx, locals>>

\* EPOLL_CTL_DEL does not look at rdy: a ready item stays in rdlist.
CtlDel(fd) ==
  /\ ServerGoto("idle", "removing")
  /\ \E i \in Registered(fd) : sitem' = i
  /\ UNCHANGED <<tree, ready, lock, cdmtx, timeout, num, events>>

\* RB_REMOVE, then free(epi): the call returns, or the process is at its end.
CtlDelDone ==
  /\ ServerGoto("removing", "idle") \/ ServerGoto("removing", "aborted")
  /\ rbr' = rbr \ {sitem}
  /\ UNCHANGED <<sockfd, ready, lock, cdmtx, locals>>

-----------------------------------------------------------------------------
(* Server thread: nepoll_wait(epfd, events, maxevents, timeout)            *)

Wait(t) ==
  /\ ServerGoto("idle", "test")
  /\ cdmtx = "free" /\ cdmtx' = "srv"
  /\ timeout' = t
  /\ UNCHANGED <<tree, ready, lock, sitem, num, events>>

\* while (ep->rdnum == 0 && timeout != 0): rdnum is read without the spin lock,
\* and may change before the thread sleeps.
WaitDecide ==
  /\ ServerGoto("test", "sleep")
  /\ rdnum = 0 /\ timeout # "zero"
  /\ UNCHANGED <<tree, ready, lock, cdmtx, locals>>

\* The condition wait gives cdmtx back and blocks in one step.
WaitBlock ==
  /\ ServerGoto("sleep", "blocked")
  /\ cdmtx' = "free"
  /\ UNCHANGED <<tree, ready, lock, locals>>

WaitReady ==
  /\ ServerGoto("test", "lock")
  /\ rdnum # 0 \/ timeout = "zero"
  /\ cdmtx' = "free"
  /\ UNCHANGED <<tree, ready, lock, locals>>

\* ETIMEDOUT of pthread_cond_timedwait.
WaitTimeout ==
  /\ ServerGoto("blocked", "woken")
  /\ timeout = "finite"
  /\ UNCHANGED <<tree, ready, lock, cdmtx, locals>>

\* POSIX lets a condition wait return without a signal.
WaitSpurious ==
  /\ ServerGoto("blocked", "woken")
  /\ UNCHANGED <<tree, ready, lock, cdmtx, locals>>

\* The wait returns with cdmtx held; a timed wait is not repeated.
WaitRelock ==
  /\ ServerGoto("woken", "test")
  /\ cdmtx = "free" /\ cdmtx' = "srv"
  /\ timeout' = IF timeout = "finite" THEN "zero" ELSE timeout
  /\ UNCHANGED <<tree, ready, lock, sitem, num, events>>

WaitLock ==
  /\ ServerGoto("lock", "pop")
  /\ lock = "free" /\ lock' = "srv"
  /\ num' = IF rdnum > MaxEvents THEN MaxEvents ELSE rdnum
  /\ events' = <<>>
  /\ UNCHANGED <<tree, ready, cdmtx, sitem, timeout>>

WaitPop ==
  /\ ServerGoto("pop", "clear")
  /\ num # 0 /\ rdlist # <<>>
  /\ sitem' = Head(rdlist) /\ rdlist' = Tail(rdlist)
  /\ UNCHANGED <<tree, rdy, rdnum, lock, cdmtx, timeout, num, events>>

\* Mutant: the flag of an item handed out is not reset.
WaitKeepsFlag ==
  /\ ServerGoto("clear", "count")
  /\ events' = Append(events, sitem)
  /\ UNCHANGED <<tree, ready, lock, cdmtx, sitem, timeout, num>>

WaitClear ==
  /\ ServerGoto("clear", "count")
  /\ rdy' = [rdy EXCEPT ![sitem] = FALSE]
  /\ events' = Append(events, sitem)
  /\ UNCHANGED <<tree, rdlist, rdnum, lock, cdmtx, sitem, timeout, num>>

\* Mutant: rdnum -= cnt inside the loop.
WaitCountsAll ==
  /\ ServerGoto("count", "pop")
  /\ num' = num - 1 /\ rdnum' = rdnum - Len(events)
  /\ UNCHANGED <<tree, rdy, rdlist, lock, cdmtx, sitem, timeout, events>>

WaitCount ==
  /\ ServerGoto("count", "pop")
  /\ num' = num - 1 /\ rdnum' = rdnum - 1
  /\ UNCHANGED <<tree, rdy, rdlist, lock, cdmtx, sitem, timeout, events>>

WaitReturn ==
  /\ ServerGoto("pop", "idle")
  /\ num = 0 \/ rdlist = <<>>
  /\ lock' = "free"
  /\ UNCHANGED <<tree, ready, cdmtx, locals>>

-----------------------------------------------------------------------------
CallbackStep ==
  \/ CallbackMerge \/ CallbackNotReady \/ CallbackLock \/ CallbackSetRdy
  \/ CallbackLink \/ CallbackCount \/ CallbackUnlock \/ CallbackCdLock \/ CallbackSignal

WaitStep ==
  \/ WaitDecide \/ WaitBlock \/ WaitReady \/ WaitTimeout \/ WaitRelock \/ WaitLock
  \/ WaitPop \/ WaitClear \/ WaitCount \/ WaitReturn

CtlStep == CtlAddDone \/ CtlDelDone

Next ==
  \/ \E fd \in Fd : CallbackFind(fd) \/ CallbackMiss(fd) \/ CtlAdd(fd) \/ CtlDel(fd)
  \/ \E t \in {"zero", "finite", "forever"} : Wait(t)
  \/ CallbackStep \/ WaitStep \/ WaitSpurious \/ CtlStep

Spec == Init /\ [][Next]_vars

\* Both threads are lcores that never stop, and the server loop calls
\* nepoll_wait again whatever it returned; nobody owes an event.
FairSpec ==
  /\ Spec
  /\ WF_vars(CallbackStep) /\ WF_vars(WaitStep) /\ WF_vars(CtlStep)
  /\ WF_vars(Wait("forever") \/ Wait("finite"))
=============================================================================
