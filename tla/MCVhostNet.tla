----------------------------- MODULE MCVhostNet -----------------------------
(* A small instance of the net backend for TLC.                            *)
EXTENDS VhostNetProps

Region(gpa, size, gva, mmap, off) ==
  [guest_address |-> gpa, size |-> size, user_address |-> gva, mmap |-> mmap, off |-> off]
\* Two regions that qemu has in one block, as below and above 4 GiB, and a third.
MCLayouts == {<<Region(0, 3, 20, 100, 0), Region(6, 4, 23, 200, 3), Region(12, 2, 15, 300, 0)>>}
\* What virtio-net does; with a single descriptor vhost_rx does the same and
\* copies no frame.
MCShapes == {"two"}
MCMaxPub == [q \in {0, 1} |-> IF q = 0 THEN 4 ELSE 3]
=============================================================================
