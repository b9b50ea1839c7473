------------------------------ MODULE EventSet ------------------------------
(***************************************************************************)
(* What the user-space epoll of lesson 14 promises, without its locks, its *)
(* list and its counters.  Interest items are registered and unregistered *)
(* by the server thread; a posted event makes an item ready once, however  *)
(* many events are posted before it is taken (edge triggered); nepoll_wait *)
(* hands every ready item out exactly once, and hands out nothing else.    *)
(***************************************************************************)
CONSTANT Item

VARIABLES registered, \* items the server has added and not removed
          known,      \* items that were ever added
          ready,      \* items with an event that has not been handed out
          handed      \* items handed out by the wait in progress

svars == <<registered, known, ready, handed>>

Init == registered = {} /\ known = {} /\ ready = {} /\ handed = {}

Register(i) ==
    /\ i \notin known
    /\ registered' = registered \cup {i}
    /\ known' = known \cup {i}
    /\ UNCHANGED <<ready, handed>>

Unregister(i) ==
    /\ i \in registered
    /\ registered' = registered \ {i}
    /\ UNCHANGED <<known, ready, handed>>

Post(i) ==
    /\ i \in known \ ready
    /\ ready' = ready \cup {i}
    /\ UNCHANGED <<registered, known, handed>>

\* A wait starts: nothing of the previous one is kept.
Begin == handed' = {} /\ UNCHANGED <<registered, known, ready>>

\* The wait hands one ready item out; its next event makes it ready again.
Take(i) ==
    /\ i \in ready \ handed
    /\ ready' = ready \ {i}
    /\ handed' = handed \cup {i}
    /\ UNCHANGED <<registered, known>>

Next ==
    \/ \E i \in Item : Register(i) \/ Unregister(i) \/ Post(i) \/ Take(i)
    \/ Begin

Spec == Init /\ [][Next]_svars
=============================================================================
