------------------------- MODULE MCFileMutationQueue -------------------------
(* Small instances of the file mutation queue for TLC.                       *)
EXTENDS FileMutationQueue, TLC

CONSTANTS target, alias, other

\* An alias and its target, and a file of its own.
Aliased == [p \in Path |-> IF p = alias THEN target ELSE p]
Plain == [p \in Path |-> p]
Targets == {target}
Nothing == {}

Calls == Permutations(Op)
===============================================================================
