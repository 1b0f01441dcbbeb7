------------------------------ MODULE MCFileStore ------------------------------
(* Two homes, and the namespace of an objective with a file and what a suffix   *)
(* makes of it: one member is of the crew, the other manages members.  MCBoth   *)
(* is a home with two directories instead, whose names differ in case only, so  *)
(* that the LIKE pattern of one matches what is in the other.                   *)
EXTENDS FileStore, TLC

CONSTANTS ada, bo, docs, Docs, f, f1, objs, o1, c1, c2, h1, h2

MCPaths ==
  {<<ada>>, <<bo>>, <<objs>>, <<objs, o1>>, <<objs, o1, f>>, <<objs, o1, f1>>}
MCBoth == {<<ada>>, <<bo>>, <<ada, docs>>, <<ada, docs, f>>, <<ada, Docs>>}
MCSuffix == [p \in MCPaths |-> IF p = <<objs, o1, f>> THEN <<<<objs, o1, f1>>>> ELSE <<>>]
MCNoSuffix == [p \in MCBoth |-> <<>>]
MCNone == [p \in MCPaths |-> {}]
MCAlike == [p \in MCBoth |-> IF p = <<ada, Docs>> THEN {<<ada, docs, f>>} ELSE {}]

\* Neither connections nor contents are ordered.
Interchangeable == Permutations({c1, c2}) \cup Permutations({h1, h2})
=============================================================================
