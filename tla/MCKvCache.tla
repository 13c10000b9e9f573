----------------------------- MODULE MCKvCache -----------------------------
(* Small instances of KvCache.  NoPin and PinFirst are the slot mappings. *)
EXTENDS KvCache, TLC

CONSTANTS d1, d2, d3, r1, r2

NoPin    == [d \in {} |-> 0]
PinFirst == d1 :> 0

\* No property tells requests, or unpinned databases, apart.
Symmetric == Permutations(Request) \cup Permutations(Database)

=============================================================================
