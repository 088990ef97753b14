--------------------------- MODULE MCTransaction ---------------------------
\* Two connections; the closures of the second only hold it and end its block.
\* Their server process ids differ, or a pooler sent none.
EXTENDS Transaction

CONSTANTS c1, c2

Distinct == [c \in Conns |-> IF c = c1 THEN 7 ELSE 8]
Shared   == [c \in Conns |-> 0]
Writing  == [c \in Conns |-> IF c = c1 THEN 2 ELSE 0]
=============================================================================
