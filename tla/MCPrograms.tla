----------------------------- MODULE MCPrograms -----------------------------
EXTENDS Programs

\* "a.b" is known; "ab"; "a1" and "a-b", whose digit and hyphen pass for lengths.
MCNames == {<<1, 97, 1, 98, 0>>, <<2, 97, 98, 0>>, <<2, 97, 49, 0>>, <<3, 97, 45, 98, 0>>}
\* Lesson 05 handles frames as 06 does, and those after it repeat its main loop.
MCMaxFrames == [l \in Lessons |-> IF l \in {5, 8, 9, 10, 11, 14} THEN 2 ELSE 3]
\* One client fills the buffer more than once.
MCMaxSend == [c \in Clients |-> IF c = CHOOSE d \in Clients : TRUE THEN 3 ELSE 1]
MCZone == <<97, 46, 98>>
=============================================================================
