------------------------------ MODULE ArpTable ------------------------------
(***************************************************************************)
(* The ARP table of lessons 11 and 12: pkt_process inserts the sender of    *)
(* every IPv4 frame under a spinlock, the timer on the main core searches   *)
(* the list without it, bounded by the count it read first.                 *)
(***************************************************************************)
EXTENDS Integers, Sequences

CONSTANTS Ips, None

VARIABLES
  entries,  \* the list, newest entry first (an entry and its successors never change)
  count,    \* table->count
  adding,   \* pkt_process: the address it is inserting, or None
  linked,   \* pkt_process: LL_ADD is done, count ++ is not
  pc,       \* the search: "idle", "counted" or "done"
  want,     \* the search: dip
  bound,    \* the search: count
  found,    \* the search: its result
  started,  \* history: list and count at the start of the search
  raced     \* history: entries linked since, or not yet counted then

insert == <<entries, count, adding, linked>>
search == <<pc, want, bound, found, started, raced>>
vars == <<insert, search>>

HasIp(s, ip) == \E k \in 1..Len(s) : s[k] = ip
Prefix(s, n) == SubSeq(s, 1, IF n < Len(s) THEN n ELSE Len(s))

Init == /\ entries = <<>> /\ count = 0 /\ adding = None /\ linked = FALSE
        /\ pc = "idle" /\ want = None /\ bound = 0 /\ found = FALSE
        /\ started = <<>> /\ raced = 0

\* The walk: at most count entries from the head.
Walk(n, ip) == HasIp(Prefix(entries, n), ip)

AbsentEver(ip) == TRUE
\* ng_arp_entry_insert searches first; only this thread changes the table.
Absent(ip) == ~Walk(count, ip)

InsertBegins(ip) ==
  /\ adding = None /\ Absent(ip)
  /\ adding' = ip
  /\ UNCHANGED <<entries, count, linked, search>>

LinkEntry ==
  /\ adding # None /\ ~linked
  /\ entries' = <<adding>> \o entries /\ linked' = TRUE
  /\ raced' = IF pc = "counted" THEN raced + 1 ELSE raced
  /\ UNCHANGED <<count, adding, pc, want, bound, found, started>>

CountEntry ==
  /\ linked
  /\ count' = count + 1 /\ linked' = FALSE /\ adding' = None
  /\ UNCHANGED <<entries, search>>

\* ng_get_dst_macaddr on the other core: count, then the list.
SearchBegins(ip) ==
  /\ pc \in {"idle", "done"}
  /\ pc' = "counted" /\ want' = ip /\ bound' = count /\ found' = FALSE
  /\ started' = entries /\ raced' = IF linked THEN 1 ELSE 0
  /\ UNCHANGED insert

SearchWalks ==
  /\ pc = "counted"
  /\ pc' = "done" /\ found' = Walk(bound, want)
  /\ UNCHANGED <<insert, want, bound, started, raced>>

Next ==
  \/ \E ip \in Ips : InsertBegins(ip)
  \/ LinkEntry \/ CountEntry
  \/ \E ip \in Ips : SearchBegins(ip)
  \/ SearchWalks

Spec == Init /\ [][Next]_vars
-----------------------------------------------------------------------------
\* A search without the lock finds what is there unless insertions overlap it,
\* and then it can only miss as many of the oldest entries as were linked
\* without being counted in the bound it read; it never finds what was not
\* inserted, and an address has one entry.
SearchRight ==
  /\ \A j, k \in 1..Len(entries) : j # k => entries[j] # entries[k]
  /\ pc = "done" =>
       /\ HasIp(Prefix(started, Len(started) - raced), want) => found
       /\ found => HasIp(entries, want)
=============================================================================
