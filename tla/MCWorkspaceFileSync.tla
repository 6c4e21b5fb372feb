------------------------ MODULE MCWorkspaceFileSync ------------------------
(* Model-checking instances of WorkspaceFileSync: contents of one size, so *)
(* that only creations and deletions show in a listing.                    *)
EXTENDS WorkspaceFileSync, TLC

Only(kind, k) == [f \in FaultKind |-> IF f = kind THEN k ELSE 0]
OneFault == {Only(f, 1) : f \in FaultKind}
TwoCrashes == OneFault \cup {Only("crash", 2)}
CrashAndRoot == {[Only("crash", 1) EXCEPT !["root"] = 1]}

OneSize == [c \in Contents |-> 1]
Symmetry == Permutations(Paths)
=============================================================================
