-------------------------------- MODULE Ddos --------------------------------
(***************************************************************************)
(* ddos_detect of lesson 12: the entropies of the last CAPTURE_WINDOWS       *)
(* frames are kept in an array and compared with the entropy of all their   *)
(* bits.  A frame adds 0 (ordinary), 1 (suspicious) to the difference, or   *)
(* makes it NaN (more bits set than counted), which no comparison exceeds.  *)
(***************************************************************************)
EXTENDS Integers, Sequences, FiniteSets

CONSTANTS Window,    \* CAPTURE_WINDOWS
          Tresh,     \* tresh, in suspicious frames
          MaxPackets

VARIABLES
  p_entropy,  \* the array (p_setbits and p_totbits go with it)
  pkt_idx,
  exited,     \* rte_exit was called
  seen        \* history: the frames so far

vars == <<p_entropy, pkt_idx, exited, seen>>

Kinds == {"ordinary", "suspicious", "nan"}
\* Never received: the array is zero at first.
Unset == "ordinary"

\* tresh < sum_entropy - entropy, over the array.
Exceeds(w) ==
  /\ \A k \in DOMAIN w : w[k] # "nan"
  /\ Cardinality({k \in DOMAIN w : w[k] = "suspicious"}) > Tresh

Init == /\ p_entropy = [k \in 0..Window - 1 |-> Unset]
        /\ pkt_idx = 0 /\ exited = FALSE /\ seen = <<>>

AdvancedBare(x) == (x + 1) % Window
\* Counted up to the window's size once, then between it and its double.
Advanced(x) == IF x >= Window THEN ((x + 1) % Window) + Window ELSE x + 1

\* flag is never set: the first detection exits.
ddos_detect(kind) ==
  /\ ~exited /\ Len(seen) < MaxPackets
  /\ seen' = Append(seen, kind)
  /\ p_entropy' = [p_entropy EXCEPT ![pkt_idx % Window] = kind]
  /\ exited' = (pkt_idx >= Window /\ Exceeds(p_entropy'))
  /\ pkt_idx' = Advanced(pkt_idx)

Next == \E kind \in Kinds : ddos_detect(kind)

Spec == Init /\ [][Next]_vars
-----------------------------------------------------------------------------
\* From the frame after the first full window on, the verdict is about exactly
\* the last Window frames: the program exits at the first one that makes them
\* exceed the threshold, and for nothing else.
VerdictOnLast ==
  LET n == Len(seen)
  IN exited <=> n > Window /\ Exceeds(SubSeq(seen, n - Window + 1, n))
=============================================================================
