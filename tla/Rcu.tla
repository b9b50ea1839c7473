-------------------------------- MODULE Rcu --------------------------------
(***************************************************************************)
(* rcu.c: an updater replaces the point gp shows, waits for the readers and *)
(* frees the old point; a reader takes the point inside a read-side section *)
(* and reads its two fields one after the other.                            *)
(***************************************************************************)
EXTENDS Integers

CONSTANTS Cells,       \* memory malloc hands out
          MaxUpdates   \* INT_MAX

VARIABLES
  gp, mem, live,   \* the pointer, the memory, the cells allocated
  upc, n, p, old,  \* the updater: its place, loop index and pointers
  waiting,         \* the updater waits for the reader's section
  rpc, rp, x, y,   \* the reader: its place, pointer and what it read
  inside,          \* the reader is in a read-side section
  done

updater == <<upc, n, p, old, waiting>>
reader == <<rpc, rp, x, y, inside, done>>
vars == <<gp, mem, live, updater, reader>>

Freed == [x |-> -1, y |-> -1]

Init ==
  /\ gp = (CHOOSE c \in Cells : TRUE) /\ live = {gp}
  /\ mem = [c \in Cells |-> IF c = gp THEN [x |-> 1, y |-> 2] ELSE Freed]
  /\ upc = "alloc" /\ n = 0 /\ p = gp /\ old = gp /\ waiting = FALSE
  /\ rpc = "lock" /\ rp = gp /\ x = 0 /\ y = 0 /\ inside = FALSE /\ done = FALSE

\* malloc may hand out what was freed last; the fields are set one by one.
Alloc ==
  /\ upc = "alloc" /\ n < MaxUpdates
  /\ \E c \in Cells \ live : p' = c /\ live' = live \union {c}
  /\ upc' = "x"
  /\ UNCHANGED <<gp, mem, n, old, waiting, reader>>

SetX == /\ upc = "x" /\ mem' = [mem EXCEPT ![p].x = n] /\ upc' = "y"
        /\ UNCHANGED <<gp, live, n, p, old, waiting, reader>>
SetY == /\ upc = "y" /\ mem' = [mem EXCEPT ![p].y = n + 1] /\ upc' = "assign"
        /\ UNCHANGED <<gp, live, n, p, old, waiting, reader>>

rcu_assign_pointer ==
  /\ upc = "assign"
  /\ old' = gp /\ gp' = p /\ upc' = "sync"
  /\ UNCHANGED <<mem, live, n, p, waiting, reader>>

\* It waits until the reader has left the section it is in now.
synchronize_rcu ==
  /\ upc = "sync"
  /\ waiting' = inside /\ upc' = "wait"
  /\ UNCHANGED <<gp, mem, live, n, p, old, reader>>

Free ==
  /\ upc = "wait" /\ ~waiting
  /\ mem' = [mem EXCEPT ![old] = Freed] /\ live' = live \ {old}
  /\ n' = n + 1 /\ upc' = "alloc"
  /\ UNCHANGED <<gp, p, old, waiting, reader>>

-----------------------------------------------------------------------------
rcu_read_lockNot == rpc' = "deref" /\ UNCHANGED inside
rcu_read_lock == rpc' = "deref" /\ inside' = TRUE

Enter == /\ rpc = "lock" /\ ~done /\ rcu_read_lock
         /\ UNCHANGED <<gp, mem, live, updater, rp, x, y, done>>
rcu_dereference == /\ rpc = "deref" /\ rp' = gp /\ rpc' = "x"
                   /\ UNCHANGED <<gp, mem, live, updater, x, y, inside, done>>
ReadX == /\ rpc = "x" /\ x' = mem[rp].x /\ rpc' = "y"
         /\ UNCHANGED <<gp, mem, live, updater, rp, y, inside, done>>
ReadY == /\ rpc = "y" /\ y' = mem[rp].y /\ rpc' = "unlock"
         /\ UNCHANGED <<gp, mem, live, updater, rp, x, inside, done>>
LeaveNot == rpc = "unlock" /\ rpc' = "check"
            /\ UNCHANGED <<gp, mem, live, updater, rp, x, y, inside, done>>
rcu_read_unlock ==
  /\ rpc = "unlock" /\ inside' = FALSE /\ waiting' = FALSE /\ rpc' = "check"
  /\ UNCHANGED <<gp, mem, live, upc, n, p, old, rp, x, y, done>>
Check ==
  /\ rpc = "check"
  /\ IF y # x + 1 THEN done' = TRUE /\ rpc' = "exit" ELSE rpc' = "lock" /\ UNCHANGED done
  /\ UNCHANGED <<gp, mem, live, updater, rp, x, y, inside>>

Update == Alloc \/ SetX \/ SetY \/ rcu_assign_pointer \/ synchronize_rcu \/ Free
Read == Enter \/ rcu_dereference \/ ReadX \/ ReadY \/ rcu_read_unlock \/ Check
Next == Update \/ Read

Spec == Init /\ [][Next]_vars
-----------------------------------------------------------------------------
\* The reader never touches a freed point and never sees half of an update.
ReadsWhole == /\ rpc \in {"x", "y"} => rp \in live
              /\ rpc = "check" => y = x + 1
              /\ ~done
=============================================================================
