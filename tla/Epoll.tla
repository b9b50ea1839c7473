------------------------------- MODULE Epoll -------------------------------
(***************************************************************************)
(* The epoll of lesson 14 under names of its own, so that it can stand     *)
(* beside the server that waits on it: an epitem is an EpItem, and wpc is  *)
(* the step of the thread in nepoll_ctl or nepoll_wait.                    *)
(***************************************************************************)
EXTENDS Integers, Sequences, FiniteSets

CONSTANTS EpItem, Fd, NoItem, NoFd, MaxEvents

\* The null values stand for no epitem and no socket; the server asks for at
\* least one event.
EpollConstants == NoItem \notin EpItem /\ NoFd \notin Fd /\ MaxEvents \in Nat \ {0}
ASSUME EpollAssumption == EpollConstants

VARIABLES sockfd, rbr, rdy, rdlist, rdnum, lock, cdmtx, cbpc, cbitem, cbret,
          wpc, sitem, timeout, num, events

Poll == INSTANCE EventPollProps WITH Item <- EpItem, spc <- wpc

EpollSpec == Poll!Spec
EpollFairSpec == Poll!FairSpec

-----------------------------------------------------------------------------
\* Flag, list and counter agree whenever nobody is inside the spin lock,
\* although the callback tests the flag without it.
Structure == Poll!Structure
\* The server never sleeps on a non-empty ready list unless the callback is on
\* its way to the signal, which it gives under another lock than it counts.
NoLostWakeup == Poll!NoLostWakeup
\* The two threads implement the edge-triggered event set: every item is handed
\* out once per posted (or merged) event, and never one nobody posted.
ImplementsEventSet == Poll!ImplementsEventSet
\* An item that was queued is handed to the server, whether nepoll_wait was
\* sleeping, about to sleep or busy when it was queued, unless the free() of a
\* removed item ends the process.
QueuedIsHandedOut == Poll!QueuedIsHandedOut
=============================================================================
