----------------------------- MODULE MCHashTable -----------------------------
\* Model-checking instance of HashTable.
EXTENDS HashTable, TLC

CONSTANTS k1, k2, k3, k4, e1, e2, e3

\* k1 and k4 have the same hash value; k1 and k2 share a bucket of the small
\* table, k1 and k3 one of the large table.
MCHash == [k \in Keys |-> CASE k = k1 -> 0 [] k = k2 -> 2 [] k = k3 -> 5 [] k = k4 -> 0]

MCPrimes == <<2, 5>>

\* The addresses of entries are interchangeable.
Symmetry == Permutations(Cells)
=============================================================================
