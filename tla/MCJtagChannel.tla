---------------------------- MODULE MCJtagChannel ----------------------------
(* Small instances of JtagChannel for TLC. *)
EXTENDS JtagChannel, TLC

CONSTANTS t1, t2, t3

\* Nothing to write, less than a chunk, a chunk and a half; with and without
\* the newline OtlpFileClient leaves at the end.
MCDocuments == {[body |-> 0, trailing |-> 1],
                [body |-> 1, trailing |-> 1],
                [body |-> 3, trailing |-> 0]}
MCTasks == {t1, t2, t3}
=============================================================================
