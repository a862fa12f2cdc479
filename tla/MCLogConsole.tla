----------------------------- MODULE MCLogConsole -----------------------------
(* A small instance of LogConsole for TLC. *)
EXTENDS LogConsole, TLC

CONSTANTS t1, t2

MCChars == 1 .. 3 \cup {Newline, Nul}

MCSymmetry == Permutations(Tasks)

\* A line with a NUL in it and a line that is not ended, for odd messages, and
\* one that ends it, for even ones.
MCTextOf(m) == IF m % 2 = 1 THEN <<m, Nul, m, Newline, m>> ELSE <<m, Newline>>
=============================================================================
