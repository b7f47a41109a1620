---------------------------- MODULE MCProcessors ----------------------------
(* Call graphs of the code that uses runOn().                               *)
EXTENDS Processors

\* unmapMemory() on any CPU calls all the others.
Shootdown == [c \in CPUs |-> CPUs \ {c}]
=============================================================================
