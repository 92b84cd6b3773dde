--------------------------- MODULE MCBackingNames ---------------------------
(* Two processes of different pid namespaces that share /tmp and a pid.    *)
EXTENDS BackingNames, TLC

MCPid    == [p \in Procs |-> 1]
Symmetry == Permutations(Procs)
=============================================================================
