--------------------------- MODULE EventPollProps ---------------------------
(***************************************************************************)
(* What the epoll of lesson 14 must keep true while both threads run, and  *)
(* the abstract event set it implements.                                   *)
(***************************************************************************)
EXTENDS EventPoll

\* Every field holds a value of its C type, and a thread that works on an
\* item holds the address of one.
TypeOK ==
  /\ sockfd \in [Item -> Fd \cup {NoFd}] /\ rbr \in SUBSET Item
  /\ rdy \in [Item -> BOOLEAN] /\ rdlist \in Seq(Item) /\ rdnum \in Nat
  /\ lock \in {"free", "pkt", "srv"} /\ cdmtx \in {"free", "pkt", "srv"}
  /\ cbpc \in {"idle", "check", "lock", "setrdy", "link", "count", "unlock", "cdlock", "signal"}
  /\ cbret \in {"none", "miss", "merged", "queued"}
  /\ cbitem \in Item \cup {NoItem} /\ (cbpc # "idle" => cbitem \in Item)
  /\ spc \in {"idle", "inserting", "removing", "test", "sleep", "blocked", "woken", "lock",
              "pop", "clear", "count", "aborted"}
  /\ sitem \in Item \cup {NoItem}
  /\ spc \in {"inserting", "removing", "clear", "count"} => sitem \in Item
  /\ timeout \in {"zero", "finite", "forever"} /\ num \in Nat /\ events \in Seq(Item)

\* "int rdy; //exist in list": whenever the spin lock is free, an item's flag
\* says exactly whether the item is in rdlist, although the callback tests it
\* without the lock.
RdyIsInList == lock = "free" => \A i \in Item : rdy[i] <=> InList(i)

\* Whenever the spin lock is free rdnum is the length of rdlist, and no item
\* is linked twice: nepoll_wait neither stops early nor walks off the list.
RdnumIsLength ==
  lock = "free" =>
    /\ rdnum = Len(rdlist)
    /\ \A j, k \in 1 .. Len(rdlist) : rdlist[j] = rdlist[k] => j = k

\* The structure both threads work on is never seen half changed: flag, list
\* and counter agree whenever nobody is inside the spin lock, although the
\* callback decides without it whether an item is to be linked.
Structure == TypeOK /\ RdyIsInList /\ RdnumIsLength

\* The callback counts the item under the spin lock but signals under cdmtx,
\* and nepoll_wait tests rdnum under cdmtx only: still, the server never
\* sleeps on a non-empty list unless the callback is on its way to the signal.
NoLostWakeup ==
  spc = "blocked" /\ rdnum > 0 => cbpc \in {"unlock", "cdlock", "signal"}

\* A callback that returned 1 ("already ready") merged its event into one the
\* server has yet to receive: the flag it read was not left over from an
\* event already handed out.
MergedIsPending ==
  [][ CallbackMerge => InList(cbitem) \/ (spc = "clear" /\ sitem = cbitem) ]_vars

\* An item that was queued is handed to the server, whether nepoll_wait was
\* sleeping, about to sleep or busy when it was queued, unless the free() of a
\* removed item ends the process.
QueuedIsHandedOut == \A i \in Item : InList(i) ~> (spc = "clear" /\ sitem = i) \/ ~Running

-----------------------------------------------------------------------------
(* The inductive invariant: the safety properties hold because the spin    *)
(* lock is exclusive, because only the packet thread sets a flag, and      *)
(* because list, flag and counter differ only inside a critical section.   *)

\* The spin lock is held by exactly the thread that is between its lock and
\* its unlock, and so is the mutex of the condition.
LockOwners ==
  /\ lock = "pkt" <=> cbpc \in {"setrdy", "link", "count", "unlock"}
  /\ lock = "srv" <=> spc \in {"pop", "clear", "count"}
  /\ cdmtx = "pkt" <=> cbpc = "signal"
  /\ cdmtx = "srv" <=> spc \in {"test", "sleep"}

\* Only the packet thread sets a flag, so the test made before taking the
\* spin lock is still good after it; an item half way in or half way out of
\* the list accounts for every flag that disagrees with the list.
FlagsAccounted ==
  /\ cbpc \in {"lock", "setrdy"} => ~rdy[cbitem]
  /\ \A i \in Item : rdy[i] <=> \/ InList(i)
                                \/ cbpc = "link" /\ cbitem = i
                                \/ spc = "clear" /\ sitem = i
  /\ cbpc = "link" => ~InList(cbitem)
  /\ spc = "clear" => ~InList(sitem)

\* The counter lags behind the list by at most the item being moved.
CounterAccounted ==
  /\ rdnum = Len(rdlist) + (IF spc \in {"clear", "count"} THEN 1 ELSE 0)
                         - (IF cbpc = "count" THEN 1 ELSE 0)
  /\ \A j, k \in 1 .. Len(rdlist) : rdlist[j] = rdlist[k] => j = k
  /\ spc \in {"clear", "count"} => num > 0

\* Items a thread works on were built by nepoll_ctl, and what the wait in
\* progress has handed out is not ready again before it returns.
ItemsBuilt ==
  /\ \A i \in rbr : sockfd[i] # NoFd
  /\ cbpc # "idle" => sockfd[cbitem] # NoFd
  /\ spc \in {"inserting", "removing"} => sockfd[sitem] # NoFd
  /\ spc = "removing" => sitem \in rbr
  /\ lock = "srv" => \A k \in 1 .. Len(events) : ~rdy[events[k]]

\* A server that has decided to sleep still holds cdmtx, so a callback that
\* counts an item now cannot signal before the server is really asleep.
SleepCovered ==
  spc \in {"sleep", "blocked"} /\ rdnum > 0 => cbpc \in {"unlock", "cdlock", "signal"}

IInv == TypeOK /\ LockOwners /\ FlagsAccounted /\ CounterAccounted /\ ItemsBuilt /\ SleepCovered

-----------------------------------------------------------------------------
\* The abstract event set: adding takes effect when the item is built,
\* removing when it is unlinked, posting and taking when rdy is written.
ES == INSTANCE EventSet WITH
  registered <- rbr \cup (IF spc = "inserting" THEN {sitem} ELSE {}),
  known      <- {i \in Item : sockfd[i] # NoFd},
  ready      <- {i \in Item : rdy[i]},
  handed     <- {i \in Item : \E k \in 1 .. Len(events) : events[k] = i}

\* The epoll is an edge-triggered event set: it hands out every item once per
\* posted (or merged) event, at most once per wait, and never one nobody posted.
ImplementsEventSet == ES!Spec
=============================================================================
