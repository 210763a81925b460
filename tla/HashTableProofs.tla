--------------------------- MODULE HashTableProofs ---------------------------
(***************************************************************************)
(* Proofs about the hash table, for every set of keys, every hash          *)
(* function, every sequence of table lengths, every heap and any number of *)
(* threads that only search.                                               *)
(***************************************************************************)
EXTENDS HashTable, FiniteSetTheorems, WellFoundedInduction, TLAPS

-----------------------------------------------------------------------------
(* Chains.  A chain is a least closed set, so what is said of it follows   *)
(* from a closed set that could not be smaller.                            *)

Links == [Cells -> Cells \cup {NULL}]

LEMMA ReachNull == ASSUME NEW L PROVE Reach(L, NULL) = {}
BY DEF Reach

LEMMA ReachIn ==
    ASSUME NEW L, NEW c \in Cells
    PROVE  c \in Reach(L, c) /\ Reach(L, c) \subseteq Cells
BY CellAssumption DEF Reach

LEMMA ReachLeast ==
    ASSUME NEW L, NEW c \in Cells, NEW S \in SUBSET Cells, c \in S, Closed(L, S)
    PROVE  Reach(L, c) \subseteq S
BY CellAssumption DEF Reach

LEMMA ReachClosed ==
    ASSUME NEW L \in Links, NEW c \in Cells, NEW d \in Reach(L, c)
    PROVE  L[d] \in Reach(L, c) \cup {NULL}
<1>1. d \in Cells /\ c # NULL
    BY CellAssumption DEF Reach
<1>2. ASSUME L[d] # NULL, NEW S \in SUBSET Cells, c \in S, Closed(L, S) PROVE L[d] \in S
  <2>1. d \in S
    BY <1>1, <1>2 DEF Reach
  <2> QED BY <1>2, <2>1 DEF Closed
<1>3. L[d] \in Cells \cup {NULL}
    BY <1>1 DEF Links
<1> QED BY <1>1, <1>2, <1>3 DEF Reach

\* What an entry reaches is reached from wherever the entry is.
LEMMA ReachOn ==
    ASSUME NEW L \in Links, NEW c \in Cells, NEW d \in Reach(L, c)
    PROVE  Reach(L, d) \subseteq Reach(L, c)
<1>1. d \in Cells /\ Reach(L, c) \in SUBSET Cells
    BY ReachIn
<1>2. Closed(L, Reach(L, c))
    BY ReachClosed DEF Closed
<1> QED BY <1>1, <1>2, ReachLeast

\* A chain is its first entry and the chain of the entry after it.
LEMMA ReachStep ==
    ASSUME NEW L \in Links, NEW c \in Cells
    PROVE  Reach(L, c) = {c} \cup Reach(L, L[c])
<1>1. CASE L[c] = NULL
  <2>1. Closed(L, {c})
    BY <1>1 DEF Closed
  <2> QED BY <1>1, <2>1, ReachLeast, ReachNull, ReachIn
<1>2. CASE L[c] # NULL
  <2>1. L[c] \in Cells
    BY <1>2 DEF Links
  <2>2. L[c] \in Reach(L, c)
    BY <1>2, ReachIn, ReachClosed
  <2> DEFINE S == {c} \cup Reach(L, L[c])
  <2>3. \A d \in Reach(L, L[c]) : L[d] \in Reach(L, L[c]) \cup {NULL}
    BY <2>1, ReachClosed
  <2>4. S \in SUBSET Cells /\ L[c] \in S
    BY <2>1, ReachIn
  <2>5. Closed(L, S)
    BY <2>3, <2>4 DEF Closed
  <2>6. Reach(L, c) \subseteq S
    BY <2>4, <2>5, ReachLeast
  <2>7. Reach(L, L[c]) \subseteq Reach(L, c)
    BY <2>2, ReachOn
  <2> QED BY <2>6, <2>7, ReachIn
<1> QED BY <1>1, <1>2

\* Links outside a chain do not matter to it.
LEMMA ReachFrame ==
    ASSUME NEW L \in Links, NEW M \in Links, NEW c \in Cells \cup {NULL},
           \A d \in Reach(L, c) : M[d] = L[d]
    PROVE  Reach(M, c) = Reach(L, c)
<1>1. CASE c = NULL
    BY <1>1, ReachNull
<1>2. CASE c \in Cells
  <2>1. \A d \in Reach(L, c) : L[d] \in Reach(L, c) \cup {NULL}
    BY <1>2, ReachClosed
  <2>2. Closed(M, Reach(L, c))
    BY <2>1 DEF Closed
  <2>3. Reach(M, c) \subseteq Reach(L, c)
    BY <1>2, <2>2, ReachIn, ReachLeast
  <2>4. \A d \in Reach(M, c) : M[d] \in Reach(M, c) \cup {NULL}
    BY <1>2, ReachClosed
  <2>5. Closed(L, Reach(M, c))
    BY <2>3, <2>4 DEF Closed
  <2>6. Reach(L, c) \subseteq Reach(M, c)
    BY <1>2, <2>5, ReachIn, ReachLeast
  <2> QED BY <2>3, <2>6
<1> QED BY <1>1, <1>2

\* Every entry of a chain but the first has one before it.
LEMMA ReachBefore ==
    ASSUME NEW L \in Links, NEW c \in Cells, NEW d \in Reach(L, c), d # c
    PROVE  \E p \in Reach(L, c) \ {d} : L[p] = d
<1> SUFFICES ASSUME \A p \in Reach(L, c) \ {d} : L[p] # d PROVE FALSE
    OBVIOUS
<1> DEFINE S == Reach(L, c) \ {d}
<1>1. \A p \in Reach(L, c) : L[p] \in Reach(L, c) \cup {NULL}
    BY ReachClosed
<1>2. Closed(L, S)
    BY <1>1 DEF Closed
<1>3. c \in S /\ S \in SUBSET Cells
    BY ReachIn
<1>4. Reach(L, c) \subseteq S
    BY <1>2, <1>3, ReachLeast
<1> QED BY <1>4

\* When the links to an entry skip it, whoever was reached is still reached,
\* from every entry of the chains where that happens.
LEMMA ReachSkip ==
    ASSUME NEW L \in Links, NEW C \in SUBSET Cells, Closed(L, C), NEW e \in Cells, L[e] # e,
           NEW M, M = [c \in Cells |-> IF c \in C /\ L[c] = e THEN L[e] ELSE L[c]],
           NEW a \in C
    PROVE  /\ Reach(L, a) \subseteq Reach(M, a) \cup {e}
           /\ a # e => Reach(M, a) \subseteq Reach(L, a) \ {e}
<1>1. M \in Links /\ a \in Cells
    BY DEF Links
<1>2. Reach(L, a) \subseteq C /\ Reach(L, a) \in SUBSET Cells /\ a \in Reach(L, a)
    BY <1>1, ReachLeast, ReachIn
<1>3. \A d \in Reach(L, a) : L[d] \in Reach(L, a) \cup {NULL}
    BY <1>1, ReachClosed
<1>4. \A d \in Reach(M, a) : M[d] \in Reach(M, a) \cup {NULL}
    BY <1>1, ReachClosed
<1>5. a \in Reach(M, a) /\ Reach(M, a) \in SUBSET Cells
    BY <1>1, ReachIn
<1>6. Reach(L, a) \subseteq Reach(M, a) \cup {e}
  <2>0. Reach(M, a) \subseteq C
    <3>1. ASSUME NEW d \in C PROVE M[d] \in C \cup {NULL}
      <4>1. CASE L[d] = e
        <5>1. e \in C
            BY <4>1, CellAssumption DEF Closed
        <5> QED BY <5>1, <4>1 DEF Closed
      <4>2. CASE L[d] # e
        BY <4>2 DEF Closed
      <4> QED BY <4>1, <4>2
    <3>2. Closed(M, C)
        BY <3>1 DEF Closed
    <3> QED BY <1>1, <3>2, ReachLeast
  <2>1. CASE \E p \in Reach(M, a) : L[p] = e
    <3> DEFINE S == Reach(M, a) \cup {e}
    <3>1. PICK p \in Reach(M, a) : L[p] = e
        BY <2>1
    <3>2. M[p] = L[e]
        BY <2>0, <3>1
    <3>3. L[e] \in S \cup {NULL}
        BY <1>4, <3>1, <3>2
    <3>4. ASSUME NEW d \in Reach(M, a) PROVE L[d] \in S \cup {NULL}
        BY <1>4, <1>5, <3>4
    <3>5. Closed(L, S)
        BY <3>3, <3>4 DEF Closed
    <3> QED BY <1>1, <1>5, <3>5, ReachLeast
  <2>2. CASE \A p \in Reach(M, a) : L[p] # e
    <3>1. Closed(L, Reach(M, a))
        BY <1>4, <1>5, <2>2 DEF Closed
    <3> QED BY <1>1, <1>5, <3>1, ReachLeast
  <2> QED BY <2>1, <2>2
<1>7. ASSUME a # e PROVE Reach(M, a) \subseteq Reach(L, a) \ {e}
  <2> DEFINE S == Reach(L, a) \ {e}
  <2>1. ASSUME NEW d \in S PROVE M[d] \in S \cup {NULL}
    <3>1. CASE L[d] = e
      <4>1. e \in Reach(L, a)
        BY <1>3, <3>1, CellAssumption
      <4>2. M[d] = L[e]
        BY <1>2, <3>1
      <4> QED BY <1>3, <4>1, <4>2
    <3>2. CASE L[d] # e
        BY <1>2, <1>3, <3>2
    <3> QED BY <3>1, <3>2
  <2>2. Closed(M, S)
    BY <2>1 DEF Closed
  <2> QED BY <1>1, <1>2, <1>7, <2>2, ReachLeast
<1> QED BY <1>6, <1>7

\* The entries that an array of chains holds.
All(L, A) == UNION {Reach(L, A[i]) : i \in DOMAIN A}

LEMMA AllIn ==
    ASSUME NEW L \in Links, NEW D, NEW A \in [D -> Cells \cup {NULL}]
    PROVE  /\ All(L, A) \subseteq Cells
           /\ \A i \in D : Reach(L, A[i]) \subseteq All(L, A)
           /\ \A i \in D : A[i] # NULL => A[i] \in Reach(L, A[i]) /\ A[i] \in All(L, A)
           /\ \A c \in All(L, A) : \E i \in D : c \in Reach(L, A[i])
<1>1. \A i \in D : Reach(L, A[i]) \subseteq Cells
    BY ReachIn, ReachNull
<1>2. \A i \in D : A[i] # NULL => A[i] \in Reach(L, A[i])
    BY ReachIn
<1> QED BY <1>1, <1>2 DEF All

LEMMA AllClosed ==
    ASSUME NEW L \in Links, NEW D, NEW A \in [D -> Cells \cup {NULL}], NEW c \in All(L, A)
    PROVE  L[c] \in All(L, A) \cup {NULL} /\ Reach(L, c) \subseteq All(L, A)
<1>1. PICK i \in D : c \in Reach(L, A[i])
    BY AllIn
<1>2. A[i] \in Cells
    BY <1>1, ReachNull
<1>3. L[c] \in Reach(L, A[i]) \cup {NULL} /\ Reach(L, c) \subseteq Reach(L, A[i])
    BY <1>1, <1>2, ReachClosed, ReachOn
<1> QED BY <1>3, AllIn

LEMMA AllFrame ==
    ASSUME NEW L \in Links, NEW M \in Links, NEW D, NEW A \in [D -> Cells \cup {NULL}],
           \A c \in All(L, A) : M[c] = L[c]
    PROVE  /\ All(M, A) = All(L, A)
           /\ \A i \in D : Reach(M, A[i]) = Reach(L, A[i])
           /\ \A c \in All(L, A) : Reach(M, c) = Reach(L, c)
<1>1. ASSUME NEW i \in D PROVE Reach(M, A[i]) = Reach(L, A[i])
  <2>1. \A d \in Reach(L, A[i]) : M[d] = L[d]
    BY AllIn
  <2> QED BY <2>1, ReachFrame
<1>2. ASSUME NEW c \in All(L, A) PROVE Reach(M, c) = Reach(L, c)
  <2>1. c \in Cells
    BY AllIn
  <2>2. \A d \in Reach(L, c) : M[d] = L[d]
    BY AllClosed
  <2> QED BY <2>1, <2>2, ReachFrame
<1> QED BY <1>1, <1>2 DEF All

LEMMA AllEmpty ==
    ASSUME NEW L, NEW A, \A i \in DOMAIN A : A[i] = NULL
    PROVE  All(L, A) = {}
BY ReachNull DEF All

-----------------------------------------------------------------------------
(* Table lengths and bucket numbers.                                       *)

LEMMA LengthType == \A i \in DOMAIN primes : primes[i] \in Nat \ {0} /\ i \in Nat /\ i <= Len(primes)
BY PrimesAssumption

LEMMA NextLength ==
    ASSUME NEW i \in DOMAIN primes, i < Len(primes)
    PROVE  i + 1 \in DOMAIN primes /\ primes[i] < primes[i + 1]
BY PrimesAssumption

LEMMA IndexType ==
    ASSUME NEW n \in Nat \ {0}, NEW k \in Keys
    PROVE  indexFor(n, hash(k)) \in 0 .. n - 1
BY HashAssumption DEF indexFor, hash

\* The least number of a set of numbers.
LEMMA MinExists ==
    ASSUME NEW S \in SUBSET Nat, S # {}
    PROVE  Min(S) \in S
<1> DEFINE Less == {p \in Nat \X Nat : p[1] < p[2]}
<1>1. IsWellFoundedOn(Less, Nat)
    BY NatLessThanWellFounded DEF OpToRel
<1> PICK x \in S : \A y \in S : ~(<<y, x>> \in Less)
    BY <1>1, WFMin
<1>2. ASSUME NEW y \in S PROVE x <= y
  <2>1. ~(<<y, x>> \in Less) /\ x \in Nat /\ y \in Nat
    OBVIOUS
  <2>2. ~(y < x)
    BY <2>1
  <2> QED BY <2>1, <2>2
<1> QED BY <1>2 DEF Min

-----------------------------------------------------------------------------
(* The inductive invariant.                                                *)

Filling == pc["dev"] \in {"unlink", "relink", "swap"}

Expanding == Filling \/ pc["dev"] = "length"

Inserting == Expanding \/ pc["dev"] \in {"alloc", "publish"}

Places == {"idle", "slot", "walk", "result", "insert", "unlink", "relink", "swap", "length",
           "alloc", "publish", "free"}

\* The threads, and the mutex that tells which of them changes the table.
ThreadInv ==
    /\ pc \in [Threads -> Places]
    /\ pc["dev"] # "free" /\ pc["flush"] \in {"idle", "free"}
    /\ \A t \in Visitors : pc[t] \in {"idle", "slot", "walk", "result"}
    /\ mutex \in {"free", "dev", "flush"}
    /\ mutex = "dev" <=> Inserting
    /\ mutex = "flush" <=> pc["flush"] = "free"
    /\ pc["dev"] \in {"relink", "publish"} \/ pc["flush"] = "free" => hand \in Cells
    /\ pc["dev"] # "idle" => arg["dev"] \in Keys
    /\ \A t \in Searchers : Searching(t) => arg[t] \in Keys

\* h->tablelength is behind h->table between the last two steps of an expansion.
ArrayLength == IF pc["dev"] = "length" THEN primes[primeindex] ELSE tablelength

NewLength == IF Filling THEN primes[primeindex] ELSE 0

LengthInv ==
    /\ table \in [0 .. ArrayLength - 1 -> Cells \cup {NULL}]
    /\ newtable \in [0 .. NewLength - 1 -> Cells \cup {NULL}]
    /\ primeindex \in DOMAIN primes /\ tablelength \in Lengths
    /\ loadlimit = LoadLimit(tablelength)
    /\ Expanding => tablelength < primes[primeindex]
    /\ ~Expanding => tablelength = primes[primeindex]
    /\ idx \in [Searchers -> Nat]
    /\ \A t \in Searchers : idx[t] < tablelength

\* The entry that is allocated and in no chain.
Transit == IF pc["dev"] \in {"relink", "publish"} \/ pc["flush"] = "free" THEN {hand} ELSE {}

Old == All(next, table)

New == All(next, newtable)

Heads == {table[i] : i \in DOMAIN table} \cup {newtable[i] : i \in DOMAIN newtable}

HeapInv ==
    /\ used \subseteq Cells /\ key \in [Cells -> Keys \cup {NULL}] /\ next \in Links
    /\ hand \in Cells \cup {NULL}

\* Every allocated entry is in one place.
PlaceInv ==
    /\ used = Old \cup New \cup Transit
    /\ Old \cap New = {} /\ Transit \cap (Old \cup New) = {}
    /\ \A c \in used : key[c] \in Keys

\* Every entry is in the chain of its bucket.
OrderInv ==
    /\ \A i \in DOMAIN table : \A c \in Reach(next, table[i]) : indexFor(ArrayLength, hash(key[c])) = i
    /\ \A i \in DOMAIN newtable :
          \A c \in Reach(next, newtable[i]) : indexFor(NewLength, hash(key[c])) = i
    /\ pc["dev"] = "swap" => Old = {}

\* Chains end: no two links lead to the same entry, and none leads to the
\* head of a chain.
LinkInv ==
    /\ \A c, d \in Old \cup New : next[c] = next[d] /\ next[c] # NULL => c = d
    /\ \A c \in Old \cup New : next[c] \in Heads => next[c] = NULL

ChainInv == HeapInv /\ PlaceInv /\ OrderInv /\ LinkInv

KeyInv ==
    /\ \A c, d \in Linked : hash(key[c]) = hash(key[d]) => c = d
    /\ Inserting \/ pc["dev"] = "insert" => ~IsIn(arg["dev"])
    /\ pc["dev"] = "publish" => key[hand] = arg["dev"] /\ next[hand] = table[Bucket(arg["dev"])]
    /\ pc["flush"] = "free" => next[hand] \in Old \cup {NULL}

Extra == IF Expanding \/ pc["dev"] = "alloc" THEN 1 ELSE 0

CountInv == entrycount = Cardinality(used) + Extra

TableInv == ThreadInv /\ LengthInv /\ ChainInv /\ KeyInv /\ CountInv

\* The entry a calm search stands on is in the table, or is being removed.
OnTrack(t) ==
    /\ ~Expanding /\ idx[t] = Bucket(arg[t])
    /\ pc[t] = "slot" => (always[t] => IsIn(arg[t]))
    /\ pc[t] = "walk" /\ ~lost[t] =>
          /\ at[t] \in Old \cup {NULL} \cup Transit
          /\ always[t] => \E c \in Chain(at[t]) \cap Old : Matches(c, arg[t])
          /\ never[t] /\ at[t] # NULL => ~Matches(at[t], arg[t])
    /\ never[t] => ~IsIn(arg[t])

SearchInv ==
    /\ at \in [Searchers -> Cells \cup {NULL}] /\ arg \in [Threads -> Keys \cup {NULL}]
    /\ always \in [Searchers -> BOOLEAN] /\ never \in [Searchers -> BOOLEAN]
    /\ calm \in [Searchers -> BOOLEAN] /\ lost \in [Searchers -> BOOLEAN]
    /\ calm["dev"]
    /\ \A t \in Searchers : calm[t] /\ Searching(t) => OnTrack(t)
    /\ Searching("dev") /\ ~always["dev"] => ~IsIn(arg["dev"])
    /\ pc["dev"] = "result" /\ at["dev"] = NULL => ~IsIn(arg["dev"])
    /\ SearchIsRight

Inv == TableInv /\ SearchInv

-----------------------------------------------------------------------------
(* Threads, the mutex and the lengths.                                     *)

Search(t) == SearchBegin(t) \/ SearchSlot(t) \/ SearchWalk(t) \/ SearchFreed(t) \/ SearchEnd(t)

LEMMA ThreadNames ==
    /\ "dev" \in Searchers /\ "flush" \notin Searchers /\ Threads = Searchers \cup {"flush"}
    /\ Searchers = {"dev"} \cup Visitors /\ "dev" \notin Visitors
BY VisitorAssumption DEF Searchers, Threads

LEMMA ThreadInit == Init => ThreadInv
<1> SUFFICES ASSUME pc = [t \in Threads |-> "idle"], mutex = "free" PROVE ThreadInv
    BY DEF Init
<1> QED BY ThreadNames DEF ThreadInv, Places, Inserting, Expanding, Filling, Searching

LEMMA ThreadStep ==
    ASSUME ThreadInv, arg \in [Threads -> Keys \cup {NULL}], table \in [DOMAIN table -> Cells \cup {NULL}],
           [Next]_vars,
           FullBuckets # {} => Min(FullBuckets) \in FullBuckets,
           \A k \in Keys : Victim(k) \in Cells \cup {NULL}
    PROVE  ThreadInv'
<1> USE ThreadNames DEF ThreadInv, Places, Inserting, Expanding, Filling, Searching
<1>1. ASSUME NEW t \in Searchers, SearchBegin(t) PROVE ThreadInv'
    BY <1>1 DEF SearchBegin
<1>2. ASSUME NEW t \in Searchers, SearchSlot(t) PROVE ThreadInv'
    BY <1>2 DEF SearchSlot
<1>3. ASSUME NEW t \in Searchers, SearchWalk(t) PROVE ThreadInv'
  <2>1. CASE at[t] = NULL \/ Matches(at[t], arg[t])
    BY <1>3, <2>1 DEF SearchWalk
  <2>2. CASE ~(at[t] = NULL \/ Matches(at[t], arg[t]))
    BY <1>3, <2>2 DEF SearchWalk
  <2> QED BY <2>1, <2>2
<1>4. ASSUME NEW t \in Searchers, SearchFreed(t) PROVE ThreadInv'
    BY <1>4 DEF SearchFreed, searchVars
<1>5. ASSUME NEW t \in Searchers, SearchEnd(t) PROVE ThreadInv'
  <2>1. CASE t = "dev" /\ at[t] = NULL
    BY <1>5, <2>1 DEF SearchEnd
  <2>2. CASE ~(t = "dev" /\ at[t] = NULL)
    BY <1>5, <2>2 DEF SearchEnd
  <2> QED BY <2>1, <2>2
<1>6. CASE InsertCount
  <2>1. CASE MustExpand
    BY <1>6, <2>1 DEF InsertCount
  <2>2. CASE ~MustExpand
    BY <1>6, <2>2 DEF InsertCount
  <2> QED BY <2>1, <2>2
<1>7. CASE ExpandFails
    BY <1>7 DEF ExpandFails
<1>8. CASE ExpandUnlink
    BY <1>8 DEF ExpandUnlink, Step, FullBuckets
<1>9. CASE ExpandRelink
    BY <1>9 DEF ExpandRelink, Step
<1>10. CASE ExpandFree
    BY <1>10 DEF ExpandFree, Step
<1>11. CASE ExpandSwap
    BY <1>11 DEF ExpandSwap, Step
<1>12. CASE ExpandLength
    BY <1>12 DEF ExpandLength, Step
<1>13. CASE InsertAlloc
    BY <1>13 DEF InsertAlloc, Step
<1>14. CASE InsertOom
    BY <1>14 DEF InsertOom
<1>15. CASE InsertPublish
    BY <1>15 DEF InsertPublish
<1>16. ASSUME NEW k \in Keys, RemoveUnlink(k) PROVE ThreadInv'
    BY <1>16 DEF RemoveUnlink, Step
<1>17. CASE RemoveFree
    BY <1>17 DEF RemoveFree, Step
<1>18. CASE UNCHANGED vars
    BY <1>18 DEF vars, searchVars
<1> QED BY <1>1, <1>2, <1>3, <1>4, <1>5, <1>6, <1>7, <1>8, <1>9, <1>10, <1>11, <1>12, <1>13,
           <1>14, <1>15, <1>16, <1>17, <1>18 DEF Next, Inserter

LEMMA LengthInit == Init => LengthInv
<1> SUFFICES ASSUME Init PROVE LengthInv
    OBVIOUS
<1> DEFINE S == {i \in DOMAIN primes : primes[i] > minsize}
<1>1. S \in SUBSET Nat /\ S # {}
    BY PrimesAssumption
<1>2. primeindex \in DOMAIN primes
    BY <1>1, MinExists DEF Init
<1>3. tablelength = primes[primeindex] /\ tablelength \in Nat \ {0}
    BY <1>2, LengthType DEF Init
<1>4. pc["dev"] = "idle"
    BY ThreadNames DEF Init
<1>5. table = [i \in 0 .. tablelength - 1 |-> NULL] /\ newtable = [i \in 0 .. 0 - 1 |-> NULL]
    BY DEF Init, NewArray
<1>6. idx = [t \in Searchers |-> 0] /\ loadlimit = LoadLimit(tablelength)
    BY DEF Init
<1> QED BY <1>2, <1>3, <1>4, <1>5, <1>6
        DEF LengthInv, ArrayLength, NewLength, Filling, Expanding, Lengths

LEMMA LengthStep ==
    ASSUME ThreadInv, LengthInv, next \in Links, [Next]_vars,
           FullBuckets # {} => Min(FullBuckets) \in FullBuckets,
           \A k \in Keys : Victim(k) \in Cells \cup {NULL}
    PROVE  LengthInv'
<1> USE ThreadNames DEF LengthInv, ArrayLength, NewLength, Filling, Expanding, Searching, sizeVars
<1>0. primes[primeindex] \in Nat \ {0} /\ primes[primeindex] \in Lengths /\ tablelength \in Nat \ {0}
    BY LengthType DEF Lengths
<1>1. ASSUME NEW t \in Searchers, SearchBegin(t) PROVE LengthInv'
  <2>1. PICK k \in Keys : idx' = [idx EXCEPT ![t] = indexFor(tablelength, hash(k))]
    BY <1>1 DEF SearchBegin
  <2>2. indexFor(tablelength, hash(k)) \in 0 .. tablelength - 1
    BY <1>0, IndexType
  <2>3. idx' \in [Searchers -> Nat] /\ \A s \in Searchers : idx'[s] < tablelength
    BY <2>1, <2>2, <1>0
  <2> QED BY <1>1, <2>3 DEF SearchBegin, ThreadInv
<1>2. ASSUME NEW t \in Searchers, SearchSlot(t) PROVE LengthInv'
    BY <1>2 DEF SearchSlot, ThreadInv
<1>3. ASSUME NEW t \in Searchers, SearchWalk(t) PROVE LengthInv'
    BY <1>3 DEF SearchWalk, ThreadInv
<1>4. ASSUME NEW t \in Searchers, SearchFreed(t) PROVE LengthInv'
    BY <1>4 DEF SearchFreed, searchVars
<1>5. ASSUME NEW t \in Searchers, SearchEnd(t) PROVE LengthInv'
    BY <1>0, <1>5 DEF SearchEnd, ThreadInv
<1>6. CASE InsertCount
  <2>1. CASE MustExpand
    BY <1>0, <1>6, <2>1, NextLength, LengthType DEF InsertCount, ThreadInv, MustExpand, NewArray, searchVars
  <2>2. CASE ~MustExpand
    BY <1>6, <2>2 DEF InsertCount, ThreadInv, searchVars
  <2> QED BY <2>1, <2>2
<1>7. CASE ExpandFails
    BY <1>7 DEF ExpandFails, ThreadInv, searchVars
<1>8. CASE ExpandUnlink
    BY <1>8 DEF ExpandUnlink, Step, FullBuckets, BucketAfterTake, ThreadInv, searchVars, Links
<1>9. CASE ExpandRelink
    BY <1>9 DEF ExpandRelink, Step, ThreadInv, searchVars
<1>10. CASE ExpandFree
    BY <1>10 DEF ExpandFree, Step, ThreadInv, searchVars
<1>11. CASE ExpandSwap
    BY <1>11 DEF ExpandSwap, Step, ThreadInv, searchVars, NewArray
<1>12. CASE ExpandLength
    BY <1>0, <1>12 DEF ExpandLength, Step, ThreadInv, searchVars
<1>13. CASE InsertAlloc
    BY <1>13 DEF InsertAlloc, Step, ThreadInv, searchVars
<1>14. CASE InsertOom
    BY <1>14 DEF InsertOom, ThreadInv, searchVars
<1>15. CASE InsertPublish
    BY <1>15 DEF InsertPublish, ThreadInv
<1>16. ASSUME NEW k \in Keys, RemoveUnlink(k) PROVE LengthInv'
    BY <1>16 DEF RemoveUnlink, Step, ThreadInv, Links
<1>17. CASE RemoveFree
    BY <1>17 DEF RemoveFree, Step, ThreadInv
<1>18. CASE UNCHANGED vars
    BY <1>18 DEF vars, searchVars
<1> QED BY <1>1, <1>2, <1>3, <1>4, <1>5, <1>6, <1>7, <1>8, <1>9, <1>10, <1>11, <1>12, <1>13,
           <1>14, <1>15, <1>16, <1>17, <1>18 DEF Next, Inserter

-----------------------------------------------------------------------------
(* What each step does to the chains.                                      *)

LEMMA Basics ==
    ASSUME LengthInv, HeapInv
    PROVE  /\ next \in Links
           /\ table \in [DOMAIN table -> Cells \cup {NULL}] /\ DOMAIN table = 0 .. ArrayLength - 1
           /\ newtable \in [DOMAIN newtable -> Cells \cup {NULL}]
           /\ DOMAIN newtable = 0 .. NewLength - 1
           /\ tablelength \in Nat \ {0} /\ primes[primeindex] \in Nat \ {0}
           /\ ArrayLength \in Nat \ {0} /\ NewLength \in Nat
           /\ Old \subseteq Cells /\ New \subseteq Cells
<1>1. tablelength \in Nat \ {0} /\ primes[primeindex] \in Nat \ {0}
    BY LengthType DEF LengthInv, Lengths
<1>2. next \in Links
    BY DEF HeapInv
<1>3. /\ table \in [DOMAIN table -> Cells \cup {NULL}] /\ DOMAIN table = 0 .. ArrayLength - 1
      /\ newtable \in [DOMAIN newtable -> Cells \cup {NULL}]
      /\ DOMAIN newtable = 0 .. NewLength - 1
    BY DEF LengthInv
<1> QED BY <1>1, <1>2, <1>3, AllIn DEF ArrayLength, NewLength, Old, New

LEMMA ChainsAre ==
    /\ ChainsOf(table) = Old /\ ChainsOf(newtable) = New /\ Linked = Old \cup New \cup InTransit
    /\ ChainsOf(table)' = Old' /\ ChainsOf(newtable)' = New'
    /\ Linked' = Old' \cup New' \cup InTransit'
BY DEF ChainsOf, Chain, All, Old, New, Linked

\* An entry of the table is in one chain only.
LEMMA OneChain ==
    ASSUME OrderInv, NEW i \in DOMAIN table, NEW j \in DOMAIN table,
           NEW c \in Reach(next, table[i]), c \in Reach(next, table[j])
    PROVE  i = j
BY DEF OrderInv

\* The head of a chain is not reached from the rest of it.
LEMMA HeadOnce ==
    ASSUME LengthInv, HeapInv, LinkInv, NEW i \in DOMAIN table, table[i] # NULL
    PROVE  Reach(next, next[table[i]]) = Reach(next, table[i]) \ {table[i]}
<1> DEFINE c == table[i]
           n == next[c]
<1>1. c \in Cells /\ c \in Old /\ c \in Heads /\ next \in Links
    BY Basics, AllIn DEF Old, Heads
<1>2. Reach(next, c) = {c} \cup Reach(next, n)
    BY <1>1, ReachStep
<1>3. ASSUME c \in Reach(next, n) PROVE FALSE
  <2>1. n \in Cells
    BY <1>1, <1>3, ReachNull DEF Links
  <2>2. n \in Old /\ Reach(next, n) \subseteq Old
    BY <1>1, <2>1, Basics, AllClosed, CellAssumption DEF Old
  <2>3. n # c
    BY <1>1, CellAssumption DEF LinkInv
  <2>4. PICK p \in Reach(next, n) : next[p] = c
    BY <1>1, <1>3, <2>1, <2>3, ReachBefore
  <2> QED BY <1>1, <2>2, <2>4, CellAssumption DEF LinkInv
<1> QED BY <1>2, <1>3

Unlinked(i) ==
    /\ i \in DOMAIN table
    /\ table[i] \in Cells /\ hand' = table[i] /\ table' = [table EXCEPT ![i] = next[table[i]]]
    /\ next' = next /\ key' = key /\ newtable' = newtable /\ used' = used
    /\ Reach(next, table'[i]) = Reach(next, table[i]) \ {table[i]}
    /\ table[i] \in Old /\ Old' = Old \ {table[i]} /\ New' = New
    /\ pc["dev"] = "unlink" /\ pc'["dev"] = "relink" /\ pc'["flush"] = pc["flush"]

LEMMA UnlinkEffect ==
    ASSUME TableInv, ExpandUnlink
    PROVE  \E i : Unlinked(i)
<1> USE DEF TableInv, ChainInv
<1> DEFINE i == Min(FullBuckets)
<1>0. pc["dev"] = "unlink" /\ pc'["dev"] = "relink" /\ pc'["flush"] = pc["flush"] /\ FullBuckets # {}
    BY ThreadNames DEF ExpandUnlink, Step, ThreadInv
<1>1. FullBuckets \in SUBSET Nat
    BY Basics DEF FullBuckets
<1>2. i \in FullBuckets
    BY <1>0, <1>1, MinExists
<1>3. i \in DOMAIN table /\ table[i] # NULL /\ table[i] \in Cells
    BY <1>2, Basics DEF FullBuckets
<1>4. /\ hand' = table[i] /\ table' = [table EXCEPT ![i] = next[table[i]]]
      /\ next' = next /\ key' = key /\ newtable' = newtable /\ used' = used
    BY DEF ExpandUnlink, BucketAfterTake
<1>5. Reach(next, table'[i]) = Reach(next, table[i]) \ {table[i]}
    BY <1>3, <1>4, HeadOnce
<1>6. table[i] \in Old
    BY <1>3, Basics, AllIn DEF Old
<1>7. All(next, table') = All(next, table) \ {table[i]}
  <2>1. DOMAIN table' = DOMAIN table /\ \A j \in DOMAIN table : j # i => table'[j] = table[j]
    BY <1>4
  <2>2. table[i] \in Reach(next, table[i])
    BY <1>3, ReachIn
  <2>3. \A j \in DOMAIN table : j # i => table[i] \notin Reach(next, table[j])
    BY <1>3, <2>2, OneChain
  <2>4. \A j \in DOMAIN table : Reach(next, table'[j]) = Reach(next, table[j]) \ {table[i]}
    BY <1>5, <2>1, <2>3
  <2> QED BY <2>1, <2>4 DEF All
<1>8. Old' = Old \ {table[i]} /\ New' = New
    BY <1>4, <1>7 DEF Old, New
<1> QED BY <1>0, <1>3, <1>4, <1>5, <1>6, <1>8 DEF Unlinked

LEMMA UnlinkChains ==
    ASSUME TableInv, ExpandUnlink
    PROVE  ChainInv' /\ Linked' = Linked
<1> USE DEF TableInv, ChainInv
<1>1. PICK i : Unlinked(i)
    BY UnlinkEffect
<1> USE DEF Unlinked
<1>2. pc["flush"] = "idle" /\ primeindex' = primeindex /\ tablelength' = tablelength
    BY <1>1 DEF ThreadInv, Inserting, Expanding, Filling, ExpandUnlink, sizeVars
<1>3. Transit = {} /\ Transit' = {table[i]} /\ InTransit = {} /\ InTransit' = {table[i]}
    BY <1>1, <1>2 DEF Transit, InTransit
<1>4. ArrayLength' = ArrayLength /\ NewLength' = NewLength
    BY <1>1, <1>2 DEF ArrayLength, NewLength, Filling
<1>5. HeapInv'
    BY <1>1 DEF HeapInv
<1>6. PlaceInv'
    BY <1>1, <1>3 DEF PlaceInv
<1>7. OrderInv'
  <2>1. \A j \in DOMAIN table' : Reach(next, table'[j]) \subseteq Reach(next, table[j])
    BY <1>1
  <2> QED BY <1>1, <1>4, <2>1 DEF OrderInv
<1>8. LinkInv'
  <2>1. Heads' \subseteq Heads \cup {next[table[i]]}
    BY <1>1 DEF Heads
  <2>2. \A c \in (Old \cup New) \ {table[i]} : next[c] = next[table[i]] => next[c] = NULL
    BY <1>1 DEF LinkInv
  <2>3. (Old \cup New)' = (Old \cup New) \ {table[i]}
    BY <1>1 DEF PlaceInv
  <2> QED BY <1>1, <2>1, <2>2, <2>3 DEF LinkInv
<1> QED BY <1>1, <1>3, <1>5, <1>6, <1>7, <1>8, ChainsAre

Relinked(i) ==
    /\ i \in DOMAIN newtable
    /\ hand \in Cells /\ hand \notin Old \cup New /\ key[hand] \in Keys
    /\ i = indexFor(NewLength, hash(key[hand]))
    /\ next' = [next EXCEPT ![hand] = newtable[i]] /\ newtable' = [newtable EXCEPT ![i] = hand]
    /\ table' = table /\ key' = key /\ used' = used /\ hand' = NULL
    /\ \A j \in DOMAIN table : Reach(next', table[j]) = Reach(next, table[j])
    /\ \A j \in DOMAIN newtable \ {i} : Reach(next', newtable'[j]) = Reach(next, newtable[j])
    /\ Reach(next', newtable'[i]) = Reach(next, newtable[i]) \cup {hand}
    /\ Old' = Old /\ New' = New \cup {hand}
    /\ pc["dev"] = "relink" /\ pc'["dev"] = "unlink" /\ pc'["flush"] = pc["flush"]

\* e goes to the front of its chain of the new array.
LEMMA RelinkEffect ==
    ASSUME TableInv, ExpandRelink
    PROVE  \E i : Relinked(i)
<1> USE DEF TableInv, ChainInv
<1>0. pc["dev"] = "relink" /\ pc'["dev"] = "unlink" /\ pc'["flush"] = pc["flush"]
    BY ThreadNames DEF ExpandRelink, Step, ThreadInv
<1>1. hand \in Cells /\ hand \notin Old \cup New /\ key[hand] \in Keys
    BY <1>0 DEF ThreadInv, PlaceInv, Transit
<1>2. NewLength \in Nat \ {0} /\ DOMAIN newtable = 0 .. NewLength - 1
    BY <1>0, Basics DEF NewLength, Filling
<1>3. Cardinality(DOMAIN newtable) = NewLength
    BY <1>2, FS_Interval
<1> DEFINE i == indexFor(NewLength, hash(key[hand]))
<1>4. i \in DOMAIN newtable
    BY <1>1, <1>2, IndexType
<1>5. /\ next' = [next EXCEPT ![hand] = newtable[i]] /\ newtable' = [newtable EXCEPT ![i] = hand]
      /\ table' = table /\ key' = key /\ used' = used /\ hand' = NULL
    BY <1>3 DEF ExpandRelink, Rehash
<1>6. next \in Links /\ next' \in Links /\ newtable[i] \in Cells \cup {NULL}
    BY <1>4, <1>5, Basics DEF Links
<1>7. (\A c \in Old : next'[c] = next[c]) /\ \A c \in New : next'[c] = next[c]
    BY <1>1, <1>5, <1>6, Basics DEF Links
<1>8. /\ \A j \in DOMAIN table : Reach(next', table[j]) = Reach(next, table[j])
      /\ All(next', table) = All(next, table)
    BY <1>6, <1>7, Basics, AllFrame DEF Old
<1>9. \A j \in DOMAIN newtable : Reach(next', newtable[j]) = Reach(next, newtable[j])
    BY <1>6, <1>7, Basics, AllFrame DEF New
<1>10. Reach(next', newtable'[i]) = Reach(next, newtable[i]) \cup {hand}
  <2>1. newtable'[i] = hand /\ next'[hand] = newtable[i]
    BY <1>1, <1>4, <1>5, <1>6, Basics DEF Links
  <2> QED BY <1>1, <1>4, <1>6, <1>9, <2>1, ReachStep
<1>11. \A j \in DOMAIN newtable \ {i} : Reach(next', newtable'[j]) = Reach(next, newtable[j])
    BY <1>5, <1>9
<1>12. New' = New \cup {hand}
  <2>1. DOMAIN newtable' = DOMAIN newtable
    BY <1>5
  <2> QED BY <1>4, <1>10, <1>11, <2>1 DEF New, All
<1>13. Old' = Old
    BY <1>5, <1>8 DEF Old
<1> QED BY <1>0, <1>1, <1>4, <1>5, <1>8, <1>10, <1>11, <1>12, <1>13 DEF Relinked

LEMMA RelinkChains ==
    ASSUME TableInv, ExpandRelink
    PROVE  ChainInv' /\ Linked' = Linked
<1> USE DEF TableInv, ChainInv
<1>1. PICK i : Relinked(i)
    BY RelinkEffect
<1> USE DEF Relinked
<1>2. pc["flush"] = "idle" /\ primeindex' = primeindex /\ tablelength' = tablelength
    BY <1>1 DEF ThreadInv, Inserting, Expanding, Filling, ExpandRelink, sizeVars
<1>3. Transit = {hand} /\ Transit' = {} /\ InTransit = {hand} /\ InTransit' = {}
    BY <1>1, <1>2 DEF Transit, InTransit
<1>4. ArrayLength' = ArrayLength /\ NewLength' = NewLength
    BY <1>1, <1>2 DEF ArrayLength, NewLength, Filling
<1>5. HeapInv'
    BY <1>1, Basics DEF HeapInv, Links
<1>6. PlaceInv'
    BY <1>1, <1>3 DEF PlaceInv
<1>7. OrderInv'
  <2>1. \A j \in DOMAIN newtable' : \A c \in Reach(next', newtable'[j]) :
            indexFor(NewLength, hash(key[c])) = j
    <3>1. DOMAIN newtable' = DOMAIN newtable
        BY <1>1
    <3>2. ASSUME NEW j \in DOMAIN newtable \ {i}, NEW c \in Reach(next', newtable'[j])
          PROVE  indexFor(NewLength, hash(key[c])) = j
      <4>1. c \in Reach(next, newtable[j])
        BY <1>1, <3>2
      <4> QED BY <4>1 DEF OrderInv
    <3>3. ASSUME NEW c \in Reach(next', newtable'[i])
          PROVE  indexFor(NewLength, hash(key[c])) = i
      <4>1. c \in Reach(next, newtable[i]) \/ c = hand
        BY <1>1, <3>3
      <4>2. i \in DOMAIN newtable /\ i = indexFor(NewLength, hash(key[hand]))
        BY <1>1
      <4> QED BY <4>1, <4>2 DEF OrderInv
    <3> QED BY <3>1, <3>2, <3>3
  <2>2. \A j \in DOMAIN table : \A c \in Reach(next', table[j]) :
            indexFor(ArrayLength, hash(key[c])) = j
    BY <1>1 DEF OrderInv
  <2>3. \A c : hash(key[c])' = hash(key[c])
    BY <1>1 DEF hash
  <2>4. table' = table /\ pc'["dev"] # "swap"
    BY <1>1
  <2> QED BY <1>4, <2>1, <2>2, <2>3, <2>4 DEF OrderInv, indexFor
<1>8. LinkInv'
  <2>1. \A c \in Old \cup New : next'[c] = next[c] /\ next[c] \in Old \cup New \cup {NULL}
    <3>1. \A c \in Old \cup New : next'[c] = next[c]
        BY <1>1, Basics DEF Links
    <3>2. \A c \in Old : next[c] \in Old \cup {NULL}
        BY Basics, AllClosed DEF Old
    <3>3. \A c \in New : next[c] \in New \cup {NULL}
        BY Basics, AllClosed DEF New
    <3> QED BY <3>1, <3>2, <3>3
  <2>2. next'[hand] = newtable[i] /\ newtable[i] \in Heads /\ newtable[i] \in New \cup {NULL}
    <3>1. next'[hand] = newtable[i] /\ newtable[i] \in Heads
        BY <1>1, Basics DEF Heads, Links
    <3> QED BY <1>1, <3>1, Basics, AllIn DEF New
  <2>3. Heads' \subseteq Heads \cup {hand}
    BY <1>1 DEF Heads
  <2>4. \A c \in Old \cup New : next'[c] \in Heads' => next'[c] = NULL
    BY <1>1, <2>1, <2>3, CellAssumption DEF LinkInv
  <2>5. next'[hand] \in Heads' => next'[hand] = NULL
    <3>1. ASSUME newtable[i] \in Heads', newtable[i] # NULL PROVE FALSE
      <4>1. newtable[i] \in New /\ newtable[i] # hand
        BY <1>1, <2>2, <3>1
      <4>2. ASSUME NEW j \in DOMAIN table, newtable[i] = table[j] PROVE FALSE
        BY <3>1, <4>1, <4>2, Basics, AllIn DEF PlaceInv, Old
      <4>3. ASSUME NEW j \in DOMAIN newtable, newtable[i] = newtable'[j] PROVE FALSE
        <5>1. j # i /\ newtable'[j] = newtable[j]
            BY <1>1, <4>1, <4>3
        <5>2. newtable[i] \in Reach(next, newtable[i]) /\ newtable[i] \in Reach(next, newtable[j])
            BY <3>1, <4>3, <5>1, Basics, AllIn
        <5> QED BY <1>1, <5>1, <5>2 DEF OrderInv
      <4> QED BY <1>1, <3>1, <4>2, <4>3 DEF Heads
    <3> QED BY <2>2, <3>1
  <2>6. \A c \in Old \cup New : next'[c] = next'[hand] => next'[c] = NULL
    BY <2>1, <2>2 DEF LinkInv
  <2>7. (Old \cup New)' = Old \cup New \cup {hand}
    BY <1>1
  <2>8. \A c, d \in Old \cup New : next'[c] = next'[d] /\ next'[c] # NULL => c = d
    BY <2>1 DEF LinkInv
  <2>9. \A c, d \in (Old \cup New)' : next'[c] = next'[d] /\ next'[c] # NULL => c = d
    BY <2>6, <2>7, <2>8
  <2>10. \A c \in (Old \cup New)' : next'[c] \in Heads' => next'[c] = NULL
    BY <2>4, <2>5, <2>7
  <2> QED BY <2>9, <2>10 DEF LinkInv
<1> QED BY <1>1, <1>3, <1>5, <1>6, <1>7, <1>8, ChainsAre

\* A step that touches no entry and no array leaves the chains as they are.
LEMMA StillChains ==
    ASSUME ChainInv, UNCHANGED <<table, newtable, key, next, used, hand>>,
           Transit' = Transit, InTransit' = InTransit, ArrayLength' = ArrayLength,
           NewLength' = NewLength, pc'["dev"] = "swap" => Old = {}
    PROVE  ChainInv' /\ Linked' = Linked /\ Old' = Old /\ New' = New
<1> USE DEF ChainInv
<1>1. Old' = Old /\ New' = New
    BY DEF Old, New
<1>2. HeapInv' /\ PlaceInv'
    BY <1>1 DEF HeapInv, PlaceInv
<1>3. OrderInv'
    BY <1>1 DEF OrderInv
<1>4. LinkInv'
    BY <1>1 DEF LinkInv, Heads
<1> QED BY <1>1, <1>2, <1>3, <1>4, ChainsAre

LEMMA SearchStill ==
    ASSUME ThreadInv, NEW t \in Searchers, Search(t)
    PROVE  /\ UNCHANGED <<table, newtable, tablelength, primeindex, loadlimit, entrycount, key, next,
                          used, mutex, hand>>
           /\ pc'["flush"] = pc["flush"]
           /\ \/ pc'["dev"] = pc["dev"]
              \/ /\ pc["dev"] \in {"idle", "slot", "walk", "result"}
                 /\ pc'["dev"] \in {"idle", "slot", "walk", "result", "insert"}
           /\ pc["dev"] \notin {"idle", "result"} => arg'["dev"] = arg["dev"]
           /\ pc'["dev"] = "insert" /\ pc["dev"] # "insert" =>
                 pc["dev"] = "result" /\ at["dev"] = NULL /\ arg'["dev"] = arg["dev"]
<1> USE ThreadNames DEF ThreadInv, sizeVars, searchVars
<1>1. CASE SearchBegin(t)
    BY <1>1 DEF SearchBegin
<1>2. CASE SearchSlot(t)
    BY <1>2 DEF SearchSlot
<1>3. CASE SearchWalk(t)
  <2>1. CASE at[t] = NULL \/ Matches(at[t], arg[t])
    BY <1>3, <2>1 DEF SearchWalk
  <2>2. CASE ~(at[t] = NULL \/ Matches(at[t], arg[t]))
    BY <1>3, <2>2 DEF SearchWalk
  <2> QED BY <2>1, <2>2
<1>4. CASE SearchFreed(t)
    BY <1>4 DEF SearchFreed
<1>5. CASE SearchEnd(t)
  <2>1. CASE t = "dev" /\ at[t] = NULL
    BY <1>5, <2>1 DEF SearchEnd
  <2>2. CASE ~(t = "dev" /\ at[t] = NULL)
    BY <1>5, <2>2 DEF SearchEnd
  <2> QED BY <2>1, <2>2
<1> QED BY <1>1, <1>2, <1>3, <1>4, <1>5 DEF Search

LEMMA SearchChains ==
    ASSUME TableInv, NEW t \in Searchers, Search(t)
    PROVE  ChainInv' /\ Linked' = Linked /\ Old' = Old /\ New' = New /\ Transit' = Transit
           /\ Expanding' = Expanding /\ Inserting' = Inserting
<1>1. Transit' = Transit /\ InTransit' = InTransit
    BY SearchStill DEF TableInv, Transit, InTransit
<1>2. ArrayLength' = ArrayLength /\ NewLength' = NewLength
    BY SearchStill DEF TableInv, ArrayLength, NewLength, Filling
<1>3. Expanding' = Expanding /\ Inserting' = Inserting
    BY SearchStill DEF TableInv, Expanding, Inserting, Filling
<1>4. pc'["dev"] = "swap" => Old = {}
    BY SearchStill DEF TableInv, ChainInv, OrderInv
<1> QED BY <1>1, <1>2, <1>3, <1>4, SearchStill, StillChains DEF TableInv

LEMMA CountChains ==
    ASSUME TableInv, InsertCount \/ ExpandFails
    PROVE  ChainInv' /\ Linked' = Linked /\ Old' = Old /\ New' = New
<1> USE DEF TableInv, ChainInv
<1>1. pc["dev"] = "insert" /\ pc["flush"] = "idle" /\ pc'["flush"] = "idle"
      /\ UNCHANGED <<table, key, next, used, hand, tablelength>>
    BY ThreadNames DEF InsertCount, ExpandFails, ThreadInv, sizeVars
<1>2. pc'["dev"] \in {"unlink", "alloc"}
    BY ThreadNames DEF InsertCount, ExpandFails, ThreadInv
<1>3. Transit = {} /\ Transit' = {} /\ InTransit = {} /\ InTransit' = {}
    BY <1>1, <1>2 DEF Transit, InTransit
<1>4. ArrayLength' = ArrayLength
    BY <1>1, <1>2 DEF ArrayLength
<1>5. CASE pc'["dev"] = "alloc"
  <2>1. newtable' = newtable
    BY <1>5, ThreadNames DEF InsertCount, ExpandFails, ThreadInv
  <2>2. NewLength' = NewLength
    BY <1>1, <1>5 DEF NewLength, Filling
  <2> QED BY <1>1, <1>3, <1>4, <1>5, <2>1, <2>2, StillChains
<1>6. CASE pc'["dev"] = "unlink"
  <2>1. newtable' = NewArray(primes[primeindex + 1])
    BY <1>6, ThreadNames DEF InsertCount, ExpandFails, ThreadInv
  <2>2. \A i \in DOMAIN newtable' : newtable'[i] = NULL
    BY <2>1 DEF NewArray
  <2>3. DOMAIN newtable = {}
    BY <1>1, Basics DEF NewLength, Filling
  <2>4. New = {} /\ New' = {} /\ Old' = Old
    BY <1>1, <2>2, <2>3, AllEmpty DEF New, Old
  <2>5. Heads' \subseteq Heads \cup {NULL}
    BY <1>1, <2>2 DEF Heads
  <2>6. HeapInv' /\ PlaceInv'
    BY <1>1, <1>3, <2>4 DEF HeapInv, PlaceInv
  <2>7. OrderInv'
    BY <1>1, <1>4, <1>6, <2>2, ReachNull DEF OrderInv, Old
  <2>8. LinkInv'
    BY <1>1, <2>4, <2>5 DEF LinkInv
  <2> QED BY <1>3, <2>4, <2>6, <2>7, <2>8, ChainsAre
<1> QED BY <1>2, <1>5, <1>6

LEMMA OldEmpty ==
    ASSUME FullBuckets = {} PROVE Old = {}
BY AllEmpty DEF FullBuckets, Old

\* The last steps of an expansion, and an insertion without memory.
LEMMA ExpandChains ==
    ASSUME TableInv, ExpandFree \/ ExpandLength \/ InsertOom
    PROVE  ChainInv' /\ Linked' = Linked /\ Old' = Old /\ New' = New
<1> USE DEF TableInv
<1>1. /\ UNCHANGED <<table, newtable, key, next, used, hand>> /\ pc["flush"] = "idle"
      /\ pc'["flush"] = "idle" /\ primeindex' = primeindex
    BY ThreadNames
       DEF ExpandFree, ExpandLength, InsertOom, ThreadInv, sizeVars, Step, Inserting, Expanding, Filling
<1>2. CASE ExpandFree
  <2>1. pc["dev"] = "unlink" /\ pc'["dev"] = "swap" /\ tablelength' = tablelength /\ Old = {}
    BY <1>2, ThreadNames, OldEmpty DEF ExpandFree, Step, ThreadInv, sizeVars
  <2>2. Transit' = Transit /\ InTransit' = InTransit /\ ArrayLength' = ArrayLength
        /\ NewLength' = NewLength
    BY <1>1, <2>1 DEF Transit, InTransit, ArrayLength, NewLength, Filling
  <2> QED BY <1>1, <2>1, <2>2, StillChains
<1>3. CASE ExpandLength
  <2>1. pc["dev"] = "length" /\ pc'["dev"] = "alloc" /\ tablelength' = primes[primeindex]
    BY <1>3, ThreadNames DEF ExpandLength, Step, ThreadInv
  <2>2. Transit' = Transit /\ InTransit' = InTransit /\ ArrayLength' = ArrayLength
        /\ NewLength' = NewLength
    BY <1>1, <2>1 DEF Transit, InTransit, ArrayLength, NewLength, Filling
  <2> QED BY <1>1, <2>1, <2>2, StillChains
<1>4. CASE InsertOom
  <2>1. pc["dev"] = "alloc" /\ pc'["dev"] = "idle" /\ tablelength' = tablelength
    BY <1>4, ThreadNames DEF InsertOom, ThreadInv, sizeVars
  <2>2. Transit' = Transit /\ InTransit' = InTransit /\ ArrayLength' = ArrayLength
        /\ NewLength' = NewLength
    BY <1>1, <2>1 DEF Transit, InTransit, ArrayLength, NewLength, Filling
  <2> QED BY <1>1, <2>1, <2>2, StillChains
<1> QED BY <1>2, <1>3, <1>4

LEMMA SwapChains ==
    ASSUME TableInv, ExpandSwap
    PROVE  ChainInv' /\ Linked' = Linked
<1> USE DEF TableInv, ChainInv
<1>1. /\ pc["dev"] = "swap" /\ pc'["dev"] = "length" /\ pc["flush"] = "idle" /\ pc'["flush"] = "idle"
      /\ UNCHANGED <<key, next, used, hand, primeindex>>
      /\ table' = newtable /\ newtable' = NewArray(0)
    BY ThreadNames DEF ExpandSwap, Step, ThreadInv, sizeVars, Inserting, Expanding, Filling
<1>2. Transit = {} /\ Transit' = {} /\ InTransit = {} /\ InTransit' = {}
    BY <1>1 DEF Transit, InTransit
<1>3. ArrayLength' = NewLength /\ DOMAIN newtable' = {}
    BY <1>1 DEF ArrayLength, NewLength, Filling, NewArray
<1>4. Old = {} /\ Old' = New /\ New' = {}
    BY <1>1, <1>3, AllEmpty DEF OrderInv, Old, New
<1>5. Heads' \subseteq Heads
    BY <1>1, <1>3 DEF Heads
<1>6. HeapInv' /\ PlaceInv'
    BY <1>1, <1>2, <1>4 DEF HeapInv, PlaceInv
<1>7. OrderInv'
    BY <1>1, <1>3 DEF OrderInv
<1>8. LinkInv'
    BY <1>1, <1>4, <1>5 DEF LinkInv
<1> QED BY <1>2, <1>4, <1>6, <1>7, <1>8, ChainsAre

Allocated(c) ==
    /\ c \in Cells \ used
    /\ used' = used \cup {c} /\ hand' = c /\ arg["dev"] \in Keys
    /\ key' = [key EXCEPT ![c] = arg["dev"]]
    /\ next' = [next EXCEPT ![c] = table[Bucket(arg["dev"])]]
    /\ table[Bucket(arg["dev"])] \in Cells \cup {NULL}
    /\ table' = table /\ newtable' = newtable
    /\ \A j \in DOMAIN table : Reach(next', table[j]) = Reach(next, table[j])
    /\ \A d \in Old : Reach(next', d) = Reach(next, d)
    /\ Old' = Old /\ New = {} /\ New' = {} /\ DOMAIN newtable = {}
    /\ Transit = {} /\ Transit' = {c} /\ used = Old
    /\ pc["dev"] = "alloc" /\ pc'["dev"] = "publish"

LEMMA AllocEffect ==
    ASSUME TableInv, InsertAlloc
    PROVE  \E c : Allocated(c)
<1> USE DEF TableInv, ChainInv
<1>0. /\ pc["dev"] = "alloc" /\ pc'["dev"] = "publish" /\ pc["flush"] = "idle" /\ pc'["flush"] = "idle"
      /\ arg["dev"] \in Keys /\ table' = table /\ newtable' = newtable
    BY ThreadNames DEF InsertAlloc, Step, ThreadInv, Inserting, Expanding, Filling
<1>1. PICK c \in Cells \ used :
          /\ used' = used \cup {c} /\ hand' = c /\ key' = [key EXCEPT ![c] = arg["dev"]]
          /\ next' = [next EXCEPT ![c] = table[Bucket(arg["dev"])]]
    BY DEF InsertAlloc
<1>2. Bucket(arg["dev"]) \in DOMAIN table
    BY <1>0, Basics, IndexType DEF Bucket, ArrayLength
<1>3. next \in Links /\ table[Bucket(arg["dev"])] \in Cells \cup {NULL}
    BY <1>2, Basics
<1>4. next' \in Links
    BY <1>1, <1>3 DEF Links
<1>5. Transit = {} /\ Transit' = {c}
    BY <1>0, <1>1 DEF Transit
<1>6. DOMAIN newtable = {} /\ New = {} /\ New' = {}
    BY <1>0, Basics, AllEmpty DEF NewLength, Filling, New
<1>7. used = Old
    BY <1>5, <1>6 DEF PlaceInv
<1>8. \A d \in All(next, table) : next'[d] = next[d]
    BY <1>1, <1>3, <1>7, Basics DEF Old, Links
<1>9. /\ All(next', table) = All(next, table)
      /\ \A j \in DOMAIN table : Reach(next', table[j]) = Reach(next, table[j])
      /\ \A d \in All(next, table) : Reach(next', d) = Reach(next, d)
    BY <1>3, <1>4, <1>8, Basics, AllFrame
<1>10. Old' = Old
    BY <1>0, <1>9 DEF Old
<1>11. \A d \in Old : Reach(next', d) = Reach(next, d)
    BY <1>9 DEF Old
<1> QED BY <1>0, <1>1, <1>3, <1>5, <1>6, <1>7, <1>9, <1>10, <1>11 DEF Allocated

LEMMA AllocChains ==
    ASSUME TableInv, InsertAlloc
    PROVE  ChainInv' /\ Linked' = Linked
<1> USE DEF TableInv, ChainInv
<1>1. PICK c : Allocated(c)
    BY AllocEffect
<1> USE DEF Allocated
<1>2. \A d \in Old : next'[d] = next[d] /\ key'[d] = key[d]
    BY <1>1, Basics DEF Links, HeapInv
<1>3. HeapInv'
    BY <1>1 DEF HeapInv, Links
<1>4. PlaceInv'
    BY <1>1, <1>2 DEF PlaceInv, HeapInv
<1>5. OrderInv'
  <2>1. \A j \in DOMAIN table : Reach(next, table[j]) \subseteq Old
    BY Basics, AllIn DEF Old
  <2>2. ArrayLength' = ArrayLength
    BY <1>1 DEF ArrayLength, InsertAlloc, sizeVars
  <2>3. \A j \in DOMAIN table : \A d \in Reach(next', table[j]) : indexFor(ArrayLength, hash(key'[d])) = j
    BY <1>1, <1>2, <2>1 DEF OrderInv
  <2>4. \A d : hash(key[d])' = hash(key'[d])
    BY DEF hash
  <2>5. table' = table /\ DOMAIN newtable' = {} /\ pc'["dev"] # "swap"
    BY <1>1
  <2> QED BY <2>2, <2>3, <2>4, <2>5 DEF OrderInv, indexFor
<1>6. LinkInv'
    BY <1>1, <1>2 DEF LinkInv, Heads
<1>7. InTransit = {} /\ InTransit' = {}
    BY <1>1 DEF InTransit
<1> QED BY <1>1, <1>3, <1>4, <1>5, <1>6, <1>7, ChainsAre

LEMMA PublishEffect ==
    ASSUME TableInv, InsertPublish
    PROVE  /\ hand \in Cells /\ hand \notin Old /\ key[hand] = arg["dev"] /\ arg["dev"] \in Keys
           /\ UNCHANGED <<newtable, key, next, used, tablelength>>
           /\ Bucket(arg["dev"]) \in DOMAIN table /\ DOMAIN table' = DOMAIN table
           /\ next[hand] = table[Bucket(arg["dev"])] /\ table'[Bucket(arg["dev"])] = hand
           /\ \A j \in DOMAIN table \ {Bucket(arg["dev"])} : table'[j] = table[j]
           /\ Reach(next, hand) = Reach(next, table[Bucket(arg["dev"])]) \cup {hand}
           /\ Old' = Old \cup {hand} /\ New = {} /\ New' = {} /\ DOMAIN newtable = {}
           /\ Transit = {hand} /\ Transit' = {} /\ used = Old \cup {hand}
           /\ pc["dev"] = "publish" /\ pc'["dev"] = "idle" /\ hand' = NULL
           /\ ArrayLength = tablelength /\ ArrayLength' = tablelength
<1> USE DEF TableInv, ChainInv
<1> DEFINE b == Bucket(arg["dev"])
<1>0. /\ pc["dev"] = "publish" /\ pc'["dev"] = "idle" /\ pc["flush"] = "idle" /\ pc'["flush"] = "idle"
      /\ arg["dev"] \in Keys /\ UNCHANGED <<newtable, key, next, used, tablelength>> /\ hand \in Cells
      /\ hand' = NULL /\ table' = [table EXCEPT ![b] = hand]
    BY ThreadNames DEF InsertPublish, ThreadInv, Inserting, Expanding, Filling, sizeVars
<1>1. key[hand] = arg["dev"] /\ next[hand] = table[b]
    BY <1>0 DEF KeyInv
<1>2. Transit = {hand} /\ Transit' = {} /\ ArrayLength = tablelength /\ ArrayLength' = tablelength
    BY <1>0 DEF Transit, ArrayLength
<1>3. b \in DOMAIN table
    BY <1>0, <1>2, Basics, IndexType DEF Bucket
<1>4. DOMAIN newtable = {} /\ New = {} /\ New' = {}
    BY <1>0, Basics, AllEmpty DEF NewLength, Filling, New
<1>5. hand \notin Old /\ used = Old \cup {hand}
    BY <1>2, <1>4 DEF PlaceInv
<1>6. Reach(next, hand) = Reach(next, table[b]) \cup {hand}
    BY <1>0, <1>1, Basics, ReachStep
<1>7. /\ DOMAIN table' = DOMAIN table /\ table'[b] = hand
      /\ \A j \in DOMAIN table \ {b} : table'[j] = table[j]
    BY <1>0, <1>3
<1>8. All(next, table') = All(next, table) \cup {hand}
    BY <1>3, <1>6, <1>7 DEF All
<1>9. Old' = Old \cup {hand}
    BY <1>0, <1>8 DEF Old
<1> QED BY <1>0, <1>1, <1>2, <1>3, <1>4, <1>5, <1>6, <1>7, <1>9

LEMMA PublishChains ==
    ASSUME TableInv, InsertPublish
    PROVE  ChainInv' /\ Linked = Old /\ Linked' = Old \cup {hand}
<1> USE PublishEffect DEF TableInv, ChainInv
<1>1. HeapInv'
    BY DEF HeapInv
<1>2. PlaceInv'
    BY DEF PlaceInv
<1>3. OrderInv'
  <2>1. \A j \in DOMAIN table : \A c \in Reach(next, table'[j]) : indexFor(ArrayLength, hash(key[c])) = j
    BY DEF OrderInv, Bucket
  <2> QED BY <2>1 DEF OrderInv
<1>4. LinkInv'
  <2>1. Heads' \subseteq Heads \cup {hand} /\ next[hand] \in Heads
    BY DEF Heads
  <2>2. \A c \in Old : next[c] \in Old \cup {NULL}
    BY Basics, AllClosed DEF Old
  <2>3. \A c \in Old : next[c] \in Heads' => next[c] = NULL
    BY <2>1, <2>2, CellAssumption DEF LinkInv
  <2>4. next[hand] \in Heads' => next[hand] = NULL
    <3> DEFINE n == table[Bucket(arg["dev"])]
    <3>1. SUFFICES ASSUME n \in Heads', n # NULL PROVE FALSE
        OBVIOUS
    <3>2. n \in Reach(next, n) /\ n \in Old
        BY <3>1, Basics, AllIn DEF Old
    <3>3. PICK j \in DOMAIN table : n = table'[j]
        BY <3>1 DEF Heads
    <3>4. j # Bucket(arg["dev"]) /\ n = table[j]
        BY <3>2, <3>3
    <3> QED BY <3>2, <3>4, OneChain
  <2>5. \A c \in Old : next[c] = next[hand] => next[c] = NULL
    BY <2>1 DEF LinkInv
  <2>6. (Old \cup New)' = Old \cup {hand}
    OBVIOUS
  <2>7. \A c, d \in Old \cup {hand} : next[c] = next[d] /\ next[c] # NULL => c = d
    BY <2>5 DEF LinkInv
  <2>8. \A c \in Old \cup {hand} : next[c] \in Heads' => next[c] = NULL
    BY <2>3, <2>4
  <2> QED BY <2>6, <2>7, <2>8 DEF LinkInv
<1>5. InTransit = {} /\ InTransit' = {}
    BY DEF InTransit
<1> QED BY <1>1, <1>2, <1>3, <1>4, <1>5, ChainsAre

\* Removing looks at the right chain, and at most one of its entries matches.
LEMMA VictimIs ==
    ASSUME TableInv, NEW k \in Keys
    PROVE  /\ Bucket(k) \in DOMAIN table
           /\ Victim(k) \in Cells \cup {NULL}
           /\ Victim(k) # NULL => Victim(k) \in Reach(next, table[Bucket(k)]) /\ Matches(Victim(k), k)
<1> USE DEF TableInv, ChainInv
<1> DEFINE hits == {c \in Chain(table[Bucket(k)]) : Matches(c, k)}
<1>1. Bucket(k) \in DOMAIN table
  <2>1. Bucket(k) \in 0 .. tablelength - 1 /\ tablelength <= ArrayLength
    BY Basics, IndexType DEF Bucket, ArrayLength, LengthInv, Expanding
  <2> QED BY <2>1, Basics
<1>2. Chain(table[Bucket(k)]) = Reach(next, table[Bucket(k)]) /\ hits \subseteq Old /\ hits \subseteq Linked
    BY <1>1, Basics, AllIn, ChainsAre DEF Chain, Old
<1>3. CASE hits = {}
    BY <1>1, <1>3 DEF Victim
<1>4. CASE hits # {}
  <2>1. PICK x : x \in hits
    BY <1>4
  <2>2. \A y \in hits : y = x
    BY <1>2, <2>1 DEF KeyInv, Matches
  <2>3. x \in Chain(x)
    BY <1>2, <2>1, Basics, ReachIn DEF Chain
  <2>4. x \in hits /\ hits \subseteq Chain(x)
    BY <2>1, <2>2, <2>3
  <2>5. Victim(k) = CHOOSE c \in hits : hits \subseteq Chain(c)
    BY <1>4 DEF Victim
  <2>6. Victim(k) \in hits
    BY <2>4, <2>5
  <2> QED BY <1>1, <1>2, <2>6, Basics
<1> QED BY <1>3, <1>4

Removed(k, e) ==
    /\ e \in Old
    /\ e \in Cells /\ hand' = e /\ Matches(e, k)
    /\ \A i \in DOMAIN table : Reach(next', table'[i]) = Reach(next, table[i]) \ {e}
    /\ DOMAIN table' = DOMAIN table /\ Old' = Old \ {e}
    /\ next' \in Links /\ next'[e] = next[e] /\ next[e] \in (Old \ {e}) \cup {NULL}
    /\ \A a \in Old : Reach(next, a) \subseteq Reach(next', a) \cup {e}
    /\ \A a \in Old \ {e} : next'[a] = next[a] \/ (next[a] = e /\ next'[a] = next[e])
    /\ \A i \in DOMAIN table : table'[i] = table[i] \/ (table[i] = e /\ table'[i] = next[e])
    /\ New = {} /\ New' = {} /\ DOMAIN newtable = {} /\ newtable' = newtable
    /\ Transit = {} /\ Transit' = {e} /\ used = Old
    /\ UNCHANGED <<key, used, tablelength, ArrayLength>>
    /\ ~Inserting /\ pc'["dev"] = pc["dev"] /\ pc["flush"] = "idle" /\ pc'["flush"] = "free"

LEMMA RemoveEffect ==
    ASSUME TableInv, NEW k \in Keys, RemoveUnlink(k)
    PROVE  \E e : Removed(k, e)
<1> USE DEF TableInv, ChainInv
<1> DEFINE e == Victim(k)
           b == Bucket(k)
           C == Reach(next, table[b])
<1>0. /\ pc'["dev"] = pc["dev"] /\ pc["flush"] = "idle" /\ pc'["flush"] = "free" /\ ~Inserting
      /\ UNCHANGED <<newtable, key, used, tablelength, primeindex>> /\ e # NULL /\ hand' = e
      /\ table' = [table EXCEPT ![b] = IF table[b] = e THEN next[e] ELSE table[b]]
      /\ next' = LinksWithout(b, e)
  <2>1. /\ pc'["dev"] = pc["dev"] /\ pc["flush"] = "idle" /\ pc'["flush"] = "free"
        /\ UNCHANGED <<newtable, key, used, tablelength, primeindex>> /\ mutex = "free"
    BY ThreadNames DEF RemoveUnlink, Step, ThreadInv, sizeVars
  <2>2. ~Inserting
    BY <2>1 DEF ThreadInv
  <2> QED BY <2>1, <2>2 DEF RemoveUnlink
<1>1. e \in C /\ Matches(e, k) /\ b \in DOMAIN table
    BY <1>0, VictimIs
<1>2. e \in Old /\ e \in Cells /\ next \in Links /\ C \subseteq Old /\ C \in SUBSET Cells
      /\ table[b] \in Cells
    BY <1>1, Basics, AllIn, ReachNull DEF Old
<1>3. Transit = {} /\ Transit' = {e} /\ ArrayLength' = ArrayLength
    BY <1>0 DEF Transit, ArrayLength, Inserting, Expanding, Filling
<1>4. DOMAIN newtable = {} /\ New = {} /\ New' = {} /\ used = Old
  <2>1. DOMAIN newtable = {}
    BY <1>0, Basics DEF NewLength, Inserting, Expanding
  <2>2. New = {} /\ New' = {}
    BY <1>0, <2>1, AllEmpty DEF New
  <2> QED BY <1>3, <2>1, <2>2 DEF PlaceInv
<1>5. next' = [c \in Cells |-> IF c \in C /\ next[c] = e THEN next[e] ELSE next[c]]
    BY <1>0 DEF LinksWithout, Chain
<1>6. next' \in Links
    BY <1>2, <1>5 DEF Links
<1>7. next[e] # e
  <2>1. CASE e = table[b]
    BY <1>1, <1>2, <2>1, CellAssumption DEF LinkInv, Heads
  <2>2. CASE e # table[b]
    <3>1. PICK p \in C \ {e} : next[p] = e
        BY <1>1, <1>2, <2>2, ReachBefore
    <3> QED BY <1>2, <3>1, CellAssumption DEF LinkInv
  <2> QED BY <2>1, <2>2
<1>8. next'[e] = next[e] /\ next[e] \in (Old \ {e}) \cup {NULL} /\ Closed(next, C)
  <2>1. next'[e] = next[e]
    BY <1>2, <1>5, <1>7
  <2>2. Closed(next, C)
    BY <1>2, ReachClosed DEF Closed
  <2> QED BY <1>1, <1>2, <1>7, <2>1, <2>2 DEF Closed
<1>9. ASSUME NEW a \in C
      PROVE  /\ Reach(next, a) \subseteq Reach(next', a) \cup {e}
             /\ a # e => Reach(next', a) \subseteq Reach(next, a) \ {e}
    BY <1>2, <1>5, <1>7, <1>8, ReachSkip
<1>10. ASSUME NEW j \in DOMAIN table, j # b
       PROVE  \A d \in Reach(next, table[j]) : d \notin C /\ next'[d] = next[d]
  <2>1. \A d \in Reach(next, table[j]) : d \notin C /\ d \in Cells
    BY <1>1, <1>10, OneChain, Basics, AllIn
  <2> QED BY <1>5, <2>1
<1>11. ASSUME NEW a \in Old PROVE Reach(next, a) \subseteq Reach(next', a) \cup {e}
  <2>1. PICK j \in DOMAIN table : a \in Reach(next, table[j])
    BY Basics, AllIn DEF Old
  <2>2. CASE j = b
    BY <1>9, <2>1, <2>2
  <2>3. CASE j # b
    <3>1. table[j] \in Cells /\ a \in Cells
        BY <2>1, Basics, ReachNull
    <3>2. Reach(next, a) \subseteq Reach(next, table[j])
        BY <1>2, <2>1, <3>1, ReachOn
    <3>3. \A d \in Reach(next, a) : next'[d] = next[d]
        BY <1>10, <2>3, <3>2
    <3>4. Reach(next', a) = Reach(next, a)
        BY <1>2, <1>6, <3>1, <3>3, ReachFrame
    <3> QED BY <3>4
  <2> QED BY <2>2, <2>3
<1>12. ASSUME NEW j \in DOMAIN table PROVE Reach(next', table'[j]) = Reach(next, table[j]) \ {e}
  <2>1. CASE j # b
    <3>1. table'[j] = table[j] /\ table[j] \in Cells \cup {NULL} /\ e \notin Reach(next, table[j])
        BY <1>0, <1>1, <1>10, <2>1, Basics
    <3>2. Reach(next', table[j]) = Reach(next, table[j])
        BY <1>2, <1>6, <1>10, <2>1, <3>1, ReachFrame
    <3> QED BY <3>1, <3>2
  <2>2. CASE j = b /\ table[b] # e
    <3>1. table'[j] = table[b] /\ table[b] \in C
        BY <1>0, <1>1, <1>2, <2>2, ReachIn
    <3> QED BY <1>9, <2>2, <3>1, <1>2, <1>5, <1>7, <1>8, ReachSkip
  <2>3. CASE j = b /\ table[b] = e
    <3>1. table'[j] = next[e]
        BY <1>0, <1>1, <2>3
    <3>2. Reach(next, next[e]) = C \ {e}
        BY <1>1, <1>2, <2>3, HeadOnce, CellAssumption
    <3>3. CASE next[e] = NULL
        BY <2>3, <3>1, <3>2, <3>3, ReachNull
    <3>4. CASE next[e] # NULL
      <4>1. next[e] \in C
        BY <1>1, <1>8, <3>4 DEF Closed
      <4>2. Reach(next', next[e]) \subseteq Reach(next, next[e]) \ {e}
            /\ Reach(next, next[e]) \subseteq Reach(next', next[e]) \cup {e}
        BY <1>7, <1>9, <4>1
      <4> QED BY <2>3, <3>1, <3>2, <4>2
    <3> QED BY <3>3, <3>4
  <2> QED BY <2>1, <2>2, <2>3
<1>13. DOMAIN table' = DOMAIN table
    BY <1>0
<1>14. Old' = Old \ {e}
    BY <1>12, <1>13 DEF Old, All
<1>15. \A a \in Old \ {e} : next'[a] = next[a] \/ (next[a] = e /\ next'[a] = next[e])
    BY <1>5, Basics
<1>16. \A i \in DOMAIN table : table'[i] = table[i] \/ (table[i] = e /\ table'[i] = next[e])
    BY <1>0
<1> QED BY <1>0, <1>1, <1>2, <1>3, <1>4, <1>6, <1>8, <1>11, <1>12, <1>13, <1>14, <1>15, <1>16 DEF Removed

LEMMA RemoveChains ==
    ASSUME TableInv, NEW k \in Keys, RemoveUnlink(k)
    PROVE  ChainInv' /\ Linked = Old /\ Linked' = Old'
<1> USE DEF TableInv, ChainInv
<1>1. PICK e : Removed(k, e)
    BY RemoveEffect
<1> USE DEF Removed
<1>2. HeapInv'
    BY <1>1 DEF HeapInv
<1>3. PlaceInv'
    BY <1>1 DEF PlaceInv
<1>4. OrderInv'
  <2>1. pc'["dev"] # "swap"
    BY <1>1 DEF Inserting, Expanding, Filling
  <2>2. \A i \in DOMAIN table : \A c \in Reach(next', table'[i]) : indexFor(ArrayLength, hash(key[c])) = i
    BY <1>1 DEF OrderInv
  <2> QED BY <1>1, <2>1, <2>2 DEF OrderInv
<1>5. LinkInv'
  <2>1. ASSUME NEW a \in Old \ {e}, NEW d \in Old \ {e}, next'[a] = next'[d], next'[a] # NULL
        PROVE  a = d
    <3>1. CASE next'[a] = next[a] /\ next'[d] = next[d]
        BY <2>1, <3>1 DEF LinkInv
    <3>2. CASE next[a] = e /\ next'[a] = next[e] /\ next[d] = e
        BY <1>1, <3>2, CellAssumption DEF LinkInv
    <3>3. CASE next[a] = e /\ next'[a] = next[e] /\ next'[d] = next[d]
        BY <1>1, <2>1, <3>3 DEF LinkInv
    <3>4. CASE next[d] = e /\ next'[d] = next[e] /\ next'[a] = next[a]
        BY <1>1, <2>1, <3>4 DEF LinkInv
    <3> QED BY <1>1, <3>1, <3>2, <3>3, <3>4
  <2>2. ASSUME NEW a \in Old \ {e}, NEW i \in DOMAIN table, next'[a] = table'[i], next'[a] # NULL
        PROVE  FALSE
    <3>1. table[i] \in Heads
        BY DEF Heads
    <3>2. CASE table'[i] = table[i]
        BY <1>1, <2>2, <3>1, <3>2 DEF LinkInv
    <3>3. CASE table[i] = e /\ table'[i] = next[e]
        BY <1>1, <2>2, <3>1, <3>3, CellAssumption DEF LinkInv
    <3> QED BY <1>1, <3>2, <3>3
  <2>3. \A a \in Old \ {e} : next'[a] \in Heads' => next'[a] = NULL
    BY <1>1, <2>2 DEF Heads
  <2> QED BY <1>1, <2>1, <2>3 DEF LinkInv
<1>6. InTransit = {} /\ InTransit' = {}
    BY <1>1 DEF InTransit, Inserting, Expanding, Filling
<1> QED BY <1>1, <1>2, <1>3, <1>4, <1>5, <1>6, ChainsAre

Freed ==
    /\ hand \in Cells /\ hand \notin Old /\ New = {} /\ New' = {} /\ DOMAIN newtable = {}
    /\ table' = table /\ newtable' = newtable /\ used' = used \ {hand} /\ used = Old \cup {hand}
    /\ key' = [key EXCEPT ![hand] = NULL] /\ next' = [next EXCEPT ![hand] = NULL] /\ hand' = NULL
    /\ \A j \in DOMAIN table : Reach(next', table[j]) = Reach(next, table[j])
    /\ \A d \in Old : Reach(next', d) = Reach(next, d)
    /\ Old' = Old /\ Transit = {hand} /\ Transit' = {}
    /\ ~Inserting /\ pc'["dev"] = pc["dev"] /\ pc["flush"] = "free" /\ pc'["flush"] = "idle"
    /\ tablelength' = tablelength /\ primeindex' = primeindex

LEMMA FreeEffect ==
    ASSUME TableInv, RemoveFree
    PROVE  Freed
<1> USE DEF TableInv, ChainInv
<1>0. /\ pc'["dev"] = pc["dev"] /\ pc["flush"] = "free" /\ pc'["flush"] = "idle"
      /\ table' = table /\ newtable' = newtable /\ used' = used \ {hand} /\ hand' = NULL
      /\ key' = [key EXCEPT ![hand] = NULL] /\ next' = [next EXCEPT ![hand] = NULL]
      /\ tablelength' = tablelength /\ primeindex' = primeindex /\ hand \in Cells
    BY ThreadNames DEF RemoveFree, Step, ThreadInv, sizeVars
<1>1. ~Inserting
    BY <1>0 DEF ThreadInv
<1>2. Transit = {hand} /\ Transit' = {}
    BY <1>0, <1>1 DEF Transit, Inserting, Expanding, Filling
<1>3. DOMAIN newtable = {}
    BY <1>1, Basics DEF NewLength, Inserting, Expanding
<1>4. New = {} /\ New' = {}
    BY <1>0, <1>3, AllEmpty DEF New
<1>5. hand \notin Old /\ used = Old \cup {hand}
    BY <1>2, <1>4 DEF PlaceInv
<1>6. next \in Links /\ next' \in Links
    BY <1>0, Basics DEF Links
<1>7. \A d \in All(next, table) : next'[d] = next[d]
    BY <1>0, <1>5, Basics DEF Old, Links
<1>8. /\ All(next', table) = All(next, table)
      /\ \A j \in DOMAIN table : Reach(next', table[j]) = Reach(next, table[j])
      /\ \A d \in All(next, table) : Reach(next', d) = Reach(next, d)
    BY <1>6, <1>7, Basics, AllFrame
<1>9. Old' = Old /\ \A d \in Old : Reach(next', d) = Reach(next, d)
    BY <1>0, <1>8 DEF Old
<1> QED BY <1>0, <1>1, <1>2, <1>3, <1>4, <1>5, <1>8, <1>9 DEF Freed

LEMMA FreeChains ==
    ASSUME TableInv, RemoveFree
    PROVE  ChainInv' /\ Linked = Old /\ Linked' = Old
<1> USE DEF TableInv, ChainInv
<1>0. Freed
    BY FreeEffect
<1>1. \A d \in Old : next'[d] = next[d] /\ key'[d] = key[d]
    BY <1>0, Basics DEF Freed, Links, HeapInv
<1>2. HeapInv'
    BY <1>0 DEF Freed, HeapInv, Links
<1>3. PlaceInv'
    BY <1>0, <1>1 DEF Freed, PlaceInv, HeapInv
<1>4. OrderInv'
  <2>1. \A j \in DOMAIN table : Reach(next, table[j]) \subseteq Old
    BY Basics, AllIn DEF Old
  <2>2. ArrayLength' = ArrayLength /\ pc'["dev"] # "swap"
    BY <1>0 DEF Freed, ArrayLength, Inserting, Expanding, Filling
  <2>3. \A j \in DOMAIN table : \A d \in Reach(next', table[j]) : indexFor(ArrayLength, hash(key'[d])) = j
    BY <1>0, <1>1, <2>1 DEF Freed, OrderInv
  <2>4. \A d : hash(key[d])' = hash(key'[d])
    BY DEF hash
  <2>5. table' = table /\ DOMAIN newtable' = {}
    BY <1>0 DEF Freed
  <2> QED BY <2>2, <2>3, <2>4, <2>5 DEF OrderInv, indexFor
<1>5. LinkInv'
    BY <1>0, <1>1 DEF Freed, LinkInv, Heads
<1>6. InTransit = {} /\ InTransit' = {}
    BY <1>0 DEF Freed, InTransit, Inserting, Expanding, Filling
<1> QED BY <1>0, <1>2, <1>3, <1>4, <1>5, <1>6, ChainsAre DEF Freed

LEMMA ChainInit == Init => ChainInv /\ Linked = {} /\ used = {}
<1> SUFFICES ASSUME Init PROVE ChainInv /\ Linked = {} /\ used = {}
    OBVIOUS
<1>1. /\ pc["dev"] = "idle" /\ pc["flush"] = "idle" /\ used = {} /\ hand = NULL
      /\ key = [c \in Cells |-> NULL] /\ next = [c \in Cells |-> NULL]
      /\ table = NewArray(tablelength) /\ newtable = NewArray(0)
    BY ThreadNames DEF Init
<1>2. Old = {} /\ New = {}
    BY <1>1, AllEmpty DEF Old, New, NewArray
<1>3. Transit = {} /\ InTransit = {}
    BY <1>1 DEF Transit, InTransit
<1>4. HeapInv
    BY <1>1 DEF HeapInv, Links
<1>5. PlaceInv /\ LinkInv
    BY <1>1, <1>2, <1>3 DEF PlaceInv, LinkInv
<1>6. OrderInv
    BY <1>1, <1>2, ReachNull DEF OrderInv, NewArray
<1> QED BY <1>1, <1>2, <1>3, <1>4, <1>5, <1>6, ChainsAre DEF ChainInv

-----------------------------------------------------------------------------
(* The keys in the table, and the number of entries.                       *)

\* A step after which the same entries with the same keys are in the table.
SameKeys == Linked' = Linked /\ \A c \in Linked : key'[c] = key[c]

LEMMA KeysSame ==
    ASSUME SameKeys
    PROVE  /\ \A k : (\E c \in Linked' : HashFn[key'[c]] = HashFn[k]) <=> IsIn(k)
           /\ (\A c, d \in Linked : hash(key[c]) = hash(key[d]) => c = d) =>
                 (\A c, d \in Linked : hash(key[c]) = hash(key[d]) => c = d)'
BY DEF SameKeys, IsIn, Matches, hash

\* Only a publication and a removal change what is in the table.
LEMMA KeysStay ==
    ASSUME TableInv, [Next]_vars, ~InsertPublish, \A k \in Keys : ~RemoveUnlink(k)
    PROVE  SameKeys
<1> USE DEF SameKeys
<1>1. ASSUME NEW t \in Searchers, Search(t) PROVE SameKeys
    BY <1>1, SearchChains, SearchStill DEF TableInv
<1>2. CASE InsertCount \/ ExpandFails
    BY <1>2, CountChains DEF InsertCount, ExpandFails
<1>3. CASE ExpandUnlink
    BY <1>3, UnlinkChains DEF ExpandUnlink
<1>4. CASE ExpandRelink
    BY <1>4, RelinkChains DEF ExpandRelink
<1>5. CASE ExpandFree \/ ExpandLength \/ InsertOom
    BY <1>5, ExpandChains DEF ExpandFree, ExpandLength, InsertOom
<1>6. CASE ExpandSwap
    BY <1>6, SwapChains DEF ExpandSwap
<1>7. CASE InsertAlloc
  <2>1. PICK c : Allocated(c)
    BY <1>7, AllocEffect
  <2>2. Linked' = Linked /\ Linked = Old
    BY <1>7, <2>1, AllocChains, ChainsAre DEF Allocated, InTransit
  <2> QED BY <2>1, <2>2, Basics DEF Allocated, TableInv, ChainInv, HeapInv
<1>8. CASE RemoveFree
    BY <1>8, FreeEffect, FreeChains, Basics DEF Freed, TableInv, ChainInv, HeapInv
<1>9. CASE UNCHANGED vars
    BY <1>9 DEF vars, Linked, ChainsOf, Chain, InTransit
<1> QED BY <1>1, <1>2, <1>3, <1>4, <1>5, <1>6, <1>7, <1>8, <1>9 DEF Next, Inserter, Search

LEMMA KeyStep ==
    ASSUME TableInv, SearchInv, [Next]_vars
    PROVE  KeyInv'
<1> USE DEF TableInv
<1>1. ASSUME NEW t \in Searchers, Search(t) PROVE KeyInv'
  <2>1. SameKeys
    BY <1>1, SearchChains, SearchStill DEF SameKeys
  <2>2. (\A c, d \in Linked : hash(key[c]) = hash(key[d]) => c = d)'
    BY <2>1, KeysSame DEF KeyInv
  <2>3. ASSUME Inserting' \/ pc'["dev"] = "insert" PROVE ~IsIn(arg["dev"])'
    <3>1. ~IsIn(arg["dev"]) /\ arg'["dev"] = arg["dev"]
        BY <1>1, <2>3, SearchStill DEF SearchInv, KeyInv, Inserting, Expanding, Filling
    <3> QED BY <2>1, <3>1, KeysSame DEF IsIn, Matches, hash
  <2>4. ASSUME pc'["dev"] = "publish"
        PROVE  (key[hand] = arg["dev"] /\ next[hand] = table[Bucket(arg["dev"])])'
    BY <1>1, <2>4, SearchStill DEF KeyInv, Bucket, hash, indexFor
  <2>5. ASSUME pc'["flush"] = "free" PROVE (next[hand] \in Old \cup {NULL})'
    BY <1>1, <2>5, SearchStill, SearchChains DEF KeyInv
  <2> QED BY <2>2, <2>3, <2>4, <2>5 DEF KeyInv
<1>2. CASE Inserter /\ ~InsertPublish
  <2>1. SameKeys
    BY <1>2, KeysStay DEF Inserter, InsertCount, ExpandFails, ExpandUnlink, ExpandRelink, ExpandFree,
                         ExpandSwap, ExpandLength, InsertAlloc, InsertOom, RemoveUnlink, Step
  <2>2. (\A c, d \in Linked : hash(key[c]) = hash(key[d]) => c = d)'
    BY <2>1, KeysSame DEF KeyInv
  <2>3. /\ Inserting \/ pc["dev"] = "insert"
        /\ arg' = arg \/ pc'["dev"] = "idle"
        /\ pc["flush"] = "idle" /\ pc'["flush"] = "idle"
        /\ pc'["dev"] = "publish" => InsertAlloc
    BY <1>2, ThreadNames
       DEF Inserter, InsertCount, ExpandFails, ExpandUnlink, ExpandRelink, ExpandFree, ExpandSwap,
           ExpandLength, InsertAlloc, InsertOom, Step, ThreadInv, Inserting, Expanding, Filling
  <2>4. ASSUME Inserting' \/ pc'["dev"] = "insert" PROVE ~IsIn(arg["dev"])'
    <3>1. ~IsIn(arg["dev"]) /\ arg' = arg
        BY <2>3, <2>4 DEF KeyInv, Inserting, Expanding, Filling
    <3> QED BY <2>1, <3>1, KeysSame DEF IsIn, Matches, hash
  <2>5. ASSUME pc'["dev"] = "publish"
        PROVE  (key[hand] = arg["dev"] /\ next[hand] = table[Bucket(arg["dev"])])'
    <3>1. PICK c : Allocated(c)
        BY <2>3, <2>5, AllocEffect
    <3>2. arg' = arg /\ tablelength' = tablelength
        BY <2>3, <2>5 DEF InsertAlloc, sizeVars
    <3> QED BY <3>1, <3>2 DEF Allocated, Bucket, hash, indexFor, ChainInv, HeapInv, Links
  <2> QED BY <2>2, <2>3, <2>4, <2>5 DEF KeyInv
<1>3. CASE InsertPublish
  <2>1. pc'["dev"] = "idle" /\ pc'["flush"] = "idle"
    BY <1>3, ThreadNames DEF InsertPublish, ThreadInv, Inserting
  <2>2. Linked = Old /\ Linked' = Old \cup {hand} /\ key' = key /\ key[hand] = arg["dev"]
    BY <1>3, PublishEffect, PublishChains
  <2>3. ~IsIn(arg["dev"])
    BY <1>3 DEF InsertPublish, KeyInv, Inserting
  <2>4. (\A c, d \in Linked : hash(key[c]) = hash(key[d]) => c = d)'
    BY <2>2, <2>3 DEF KeyInv, IsIn, Matches, hash
  <2> QED BY <2>1, <2>4 DEF KeyInv, Inserting, Expanding, Filling
<1>4. ASSUME NEW k \in Keys, RemoveUnlink(k) PROVE KeyInv'
  <2>1. PICK e : Removed(k, e)
    BY <1>4, RemoveEffect
  <2>2. Linked = Old /\ Linked' = Old \ {e} /\ key' = key /\ arg' = arg
    BY <1>4, <2>1, RemoveChains DEF Removed, RemoveUnlink
  <2>3. (\A c, d \in Linked : hash(key[c]) = hash(key[d]) => c = d)'
    BY <2>2 DEF KeyInv, hash
  <2>4. (Inserting \/ pc["dev"] = "insert" => ~IsIn(arg["dev"]))'
    BY <2>1, <2>2 DEF KeyInv, IsIn, Matches, hash, Removed, Inserting, Expanding, Filling
  <2>5. pc'["dev"] # "publish"
    BY <2>1 DEF Removed, Inserting
  <2>6. (next[hand] \in Old \cup {NULL})'
    BY <2>1 DEF Removed
  <2> QED BY <2>3, <2>4, <2>5, <2>6 DEF KeyInv
<1>5. CASE RemoveFree
  <2>1. SameKeys
    BY <1>5, FreeEffect, FreeChains, Basics DEF SameKeys, Freed, ChainInv, HeapInv
  <2>2. (\A c, d \in Linked : hash(key[c]) = hash(key[d]) => c = d)'
    BY <2>1, KeysSame DEF KeyInv
  <2>3. arg' = arg /\ pc'["dev"] = pc["dev"] /\ pc'["flush"] = "idle" /\ ~Inserting
    BY <1>5, FreeEffect DEF RemoveFree, Freed
  <2>4. (Inserting \/ pc["dev"] = "insert" => ~IsIn(arg["dev"]))'
    <3>1. ASSUME Inserting' \/ pc'["dev"] = "insert" PROVE ~IsIn(arg["dev"])
        BY <2>3, <3>1 DEF KeyInv, Inserting, Expanding, Filling
    <3> QED BY <2>1, <2>3, <3>1, KeysSame DEF IsIn, Matches, hash
  <2>5. pc'["dev"] # "publish"
    BY <2>3 DEF Inserting
  <2> QED BY <2>2, <2>3, <2>4, <2>5 DEF KeyInv
<1>6. CASE UNCHANGED vars
    BY <1>6 DEF vars, KeyInv, Inserting, Expanding, Filling, IsIn, Matches, Linked, ChainsOf, Chain,
                InTransit, Old, All, Bucket, sizeVars, hash
<1> QED BY <1>1, <1>2, <1>3, <1>4, <1>5, <1>6 DEF Next, Inserter, Search

LEMMA CountCells ==
    ASSUME NEW F \in SUBSET Cells
    PROVE  /\ Cardinality(F) \in Nat /\ Cardinality(F) <= Cardinality(Cells) /\ Cardinality(Cells) \in Nat
           /\ \A c \in F : Cardinality(F \ {c}) = Cardinality(F) - 1
           /\ \A c \in Cells \ F : Cardinality(F \cup {c}) = Cardinality(F) + 1
<1>1. IsFiniteSet(F) /\ Cardinality(F) <= Cardinality(Cells)
    BY CellAssumption, FS_Subset
<1> QED BY <1>1, CellAssumption, FS_CardinalityType, FS_AddElement, FS_RemoveElement

LEMMA CountStep ==
    ASSUME TableInv, [Next]_vars
    PROVE  CountInv'
<1> USE DEF TableInv, ChainInv
<1>0. used \in SUBSET Cells /\ Cardinality(used) \in Nat
    BY CountCells DEF HeapInv
<1> USE DEF CountInv, Extra, Expanding, Filling
<1>1. ASSUME NEW t \in Searchers, Search(t) PROVE CountInv'
    BY <1>1, SearchStill
<1>2. CASE InsertCount \/ ExpandFails
    BY <1>0, <1>2, ThreadNames DEF InsertCount, ExpandFails, ThreadInv
<1>3. CASE ExpandUnlink \/ ExpandRelink \/ ExpandFree \/ ExpandSwap \/ ExpandLength
    BY <1>3, ThreadNames
       DEF ExpandUnlink, ExpandRelink, ExpandFree, ExpandSwap, ExpandLength, Step, ThreadInv
<1>4. CASE InsertAlloc
  <2>1. PICK c : Allocated(c)
    BY <1>4, AllocEffect
  <2>2. Cardinality(used') = Cardinality(used) + 1 /\ entrycount' = entrycount
    BY <1>0, <1>4, <2>1, CountCells DEF Allocated, InsertAlloc
  <2> QED BY <1>0, <2>1, <2>2 DEF Allocated
<1>5. CASE InsertOom
    BY <1>0, <1>5, ThreadNames DEF InsertOom, ThreadInv, CountAfterOom
<1>6. CASE InsertPublish
    BY <1>6, ThreadNames DEF InsertPublish, ThreadInv
<1>7. ASSUME NEW k \in Keys, RemoveUnlink(k) PROVE CountInv'
    BY <1>7, ThreadNames DEF RemoveUnlink, Step, ThreadInv
<1>8. CASE RemoveFree
  <2>1. Cardinality(used') = Cardinality(used) - 1 /\ entrycount' = entrycount - 1
    BY <1>0, <1>8, FreeEffect, CountCells DEF Freed, RemoveFree
  <2> QED BY <1>0, <1>8, <2>1, FreeEffect DEF Freed, Inserting
<1>9. CASE UNCHANGED vars
    BY <1>9 DEF vars
<1> QED BY <1>1, <1>2, <1>3, <1>4, <1>5, <1>6, <1>7, <1>8, <1>9 DEF Next, Inserter, Search

LEMMA ChainStep ==
    ASSUME TableInv, [Next]_vars
    PROVE  ChainInv'
<1>1. CASE UNCHANGED vars
  <2>1. UNCHANGED <<table, newtable, key, next, used, hand, pc, primeindex, tablelength>>
    BY <1>1 DEF vars, sizeVars
  <2>2. Transit' = Transit /\ InTransit' = InTransit /\ ArrayLength' = ArrayLength
        /\ NewLength' = NewLength
    BY <2>1 DEF Transit, InTransit, ArrayLength, NewLength, Filling
  <2>3. pc'["dev"] = "swap" => Old = {}
    BY <2>1 DEF TableInv, ChainInv, OrderInv
  <2> QED BY <2>1, <2>2, <2>3, StillChains DEF TableInv
<1> QED BY <1>1, SearchChains, CountChains, UnlinkChains, RelinkChains, ExpandChains, SwapChains,
           AllocChains, PublishChains, RemoveChains, FreeChains DEF Next, Inserter, Search

LEMMA TableStep ==
    ASSUME TableInv, SearchInv, [Next]_vars
    PROVE  TableInv'
<1>1. FullBuckets # {} => Min(FullBuckets) \in FullBuckets
  <2>1. FullBuckets \in SUBSET Nat
    BY Basics DEF FullBuckets, TableInv, ChainInv
  <2> QED BY <2>1, MinExists
<1>2. ThreadInv'
    BY <1>1, VictimIs, ThreadStep, Basics DEF TableInv, ChainInv, SearchInv
<1>3. LengthInv'
    BY <1>1, VictimIs, LengthStep, Basics DEF TableInv, ChainInv
<1> QED BY <1>2, <1>3, ChainStep, KeyStep, CountStep DEF TableInv

LEMMA TableInit == Init => TableInv
<1> SUFFICES ASSUME Init PROVE TableInv
    OBVIOUS
<1>1. pc["dev"] = "idle" /\ pc["flush"] = "idle" /\ entrycount = 0
    BY ThreadNames DEF Init
<1>2. CountInv
    BY <1>1, ChainInit, FS_EmptySet DEF CountInv, Extra, Expanding, Filling
<1>3. KeyInv
    BY <1>1, ChainInit DEF KeyInv, Inserting, Expanding, Filling
<1> QED BY <1>2, <1>3, ThreadInit, LengthInit, ChainInit DEF TableInv

-----------------------------------------------------------------------------
(* Searches.                                                               *)

SearchTypes ==
    /\ at \in [Searchers -> Cells \cup {NULL}] /\ arg \in [Threads -> Keys \cup {NULL}]
    /\ always \in [Searchers -> BOOLEAN] /\ never \in [Searchers -> BOOLEAN]
    /\ calm \in [Searchers -> BOOLEAN] /\ lost \in [Searchers -> BOOLEAN]

LEMMA SearchTypeStep ==
    ASSUME TableInv, SearchInv, [Next]_vars
    PROVE  SearchTypes'
<1> USE ThreadNames DEF SearchInv, SearchTypes, searchVars
<1>0. next \in Links /\ table \in [DOMAIN table -> Cells \cup {NULL}] /\ hand \in Cells \cup {NULL}
    BY Basics DEF TableInv, ChainInv, HeapInv
<1>1. ASSUME NEW t \in Searchers, SearchBegin(t) PROVE SearchTypes'
  <2>1. PICK k \in Keys : /\ arg' = [arg EXCEPT ![t] = k]
                          /\ always' = [always EXCEPT ![t] = IsIn(k)]
                          /\ never' = [never EXCEPT ![t] = ~IsIn(k)]
    BY <1>1 DEF SearchBegin
  <2>2. (arg \in [Threads -> Keys \cup {NULL}] /\ at \in [Searchers -> Cells \cup {NULL}])'
    BY <1>1, <2>1 DEF SearchBegin
  <2>3. IsIn(k) \in BOOLEAN
    BY DEF IsIn
  <2>4. (always \in [Searchers -> BOOLEAN] /\ never \in [Searchers -> BOOLEAN])'
    BY <2>1, <2>3, Zenon
  <2>5. (calm \in [Searchers -> BOOLEAN] /\ lost \in [Searchers -> BOOLEAN])'
    BY <1>1, Zenon DEF SearchBegin
  <2> QED BY <2>2, <2>4, <2>5
<1>2. ASSUME NEW t \in Searchers, SearchSlot(t) PROVE SearchTypes'
  <2>1. idx[t] \in DOMAIN table
    <3>1. idx[t] \in Nat /\ idx[t] < tablelength /\ tablelength <= ArrayLength
        BY Basics DEF TableInv, ChainInv, LengthInv, ArrayLength, Expanding
    <3> QED BY <3>1, Basics DEF TableInv, ChainInv
  <2> QED BY <1>0, <1>2, <2>1 DEF SearchSlot
<1>3. ASSUME NEW t \in Searchers, SearchWalk(t) PROVE SearchTypes'
  <2>1. CASE at[t] = NULL \/ Matches(at[t], arg[t])
    BY <1>3, <2>1 DEF SearchWalk
  <2>2. CASE ~(at[t] = NULL \/ Matches(at[t], arg[t]))
    BY <1>0, <1>3, <2>2 DEF SearchWalk, Links
  <2> QED BY <2>1, <2>2
<1>4. ASSUME NEW t \in Searchers, SearchFreed(t) PROVE SearchTypes'
    BY <1>4 DEF SearchFreed
<1>5. ASSUME NEW t \in Searchers, SearchEnd(t) PROVE SearchTypes'
    BY <1>5 DEF SearchEnd
<1>6. CASE InsertCount
  <2>1. UNCHANGED <<at, arg, always, never, lost>>
    BY <1>6 DEF InsertCount
  <2>2. calm' \in [Searchers -> BOOLEAN]
    <3>1. CASE calm' = [t \in Searchers |-> calm[t] /\ ~Searching(t)]
        BY <3>1, Zenon
    <3> QED BY <1>6, <3>1 DEF InsertCount
  <2> QED BY <2>1, <2>2
<1>7. CASE ExpandFails \/ ExpandUnlink \/ ExpandRelink \/ ExpandFree \/ ExpandSwap \/ ExpandLength
           \/ InsertAlloc
    BY <1>7 DEF ExpandFails, ExpandUnlink, ExpandRelink, ExpandFree, ExpandSwap, ExpandLength, InsertAlloc
<1>8. CASE InsertOom
    BY <1>8 DEF InsertOom
<1>9. CASE InsertPublish
    BY <1>9 DEF InsertPublish
<1>10. ASSUME NEW k \in Keys, RemoveUnlink(k) PROVE SearchTypes'
    BY <1>10 DEF RemoveUnlink
<1>11. CASE RemoveFree
    BY <1>11 DEF RemoveFree
<1>12. CASE UNCHANGED vars
    BY <1>12 DEF vars
<1> QED BY <1>1, <1>2, <1>3, <1>4, <1>5, <1>6, <1>7, <1>8, <1>9, <1>10, <1>11, <1>12
        DEF Next, Inserter

\* A step that leaves a searcher alone, and the table too.
LEMMA TrackStill ==
    ASSUME NEW s \in Searchers, OnTrack(s), SameKeys, ~Expanding',
           pc'[s] = pc[s], arg'[s] = arg[s], idx'[s] = idx[s], at'[s] = at[s],
           lost'[s] = lost[s], always'[s] = always[s], never'[s] = never[s],
           UNCHANGED <<key, next, tablelength>>, Old' = Old, Transit' = Transit
    PROVE  OnTrack(s)'
<1>1. IsIn(arg[s])' <=> IsIn(arg[s])
    BY KeysSame DEF IsIn, Matches, hash
<1>2. Bucket(arg[s])' = Bucket(arg[s])
    BY DEF Bucket, indexFor, hash
<1>3. \A c : Matches(c, arg[s])' <=> Matches(c, arg[s])
    BY DEF Matches, hash
<1>4. Chain(at[s])' = Chain(at[s])
    BY DEF Chain
<1> QED BY <1>1, <1>2, <1>3, <1>4, Zenon DEF OnTrack

\* The new entry is nowhere that a search can come.
LEMMA TrackAlloc ==
    ASSUME TableInv, InsertAlloc, NEW s \in Searchers, OnTrack(s), pc'[s] = pc[s]
    PROVE  OnTrack(s)'
<1>1. PICK c : Allocated(c)
    BY AllocEffect
<1>2. UNCHANGED <<arg, idx, at, lost, always, never, tablelength>>
    BY DEF InsertAlloc, searchVars, sizeVars
<1>3. SameKeys
    BY <1>1, AllocChains, ChainsAre, Basics
       DEF SameKeys, Allocated, InTransit, TableInv, ChainInv, HeapInv
<1>4. IsIn(arg[s])' <=> IsIn(arg[s])
    BY <1>2, <1>3, KeysSame DEF IsIn, Matches, hash
<1>5. Bucket(arg[s])' = Bucket(arg[s]) /\ ~Expanding'
    BY <1>1, <1>2 DEF Bucket, indexFor, hash, Allocated, Expanding, Filling
<1>6. Old' = Old /\ Transit = {} /\ \A d \in Old : key'[d] = key[d] /\ Reach(next', d) = Reach(next, d)
    BY <1>1, Basics DEF Allocated, TableInv, ChainInv, HeapInv
<1>7. ASSUME pc[s] = "walk", ~lost[s] PROVE (at[s] \in Old \cup {NULL} \cup Transit)'
    BY <1>2, <1>6, <1>7 DEF OnTrack
<1>8. ASSUME pc[s] = "walk", ~lost[s], always[s]
      PROVE  (\E d \in Chain(at[s]) \cap Old : Matches(d, arg[s]))'
  <2>1. PICK d \in Chain(at[s]) \cap Old : Matches(d, arg[s])
    BY <1>8 DEF OnTrack
  <2>2. at[s] \in Old
    BY <1>6, <1>8, <2>1, ReachNull DEF OnTrack, Chain
  <2> QED BY <1>2, <1>6, <2>1, <2>2 DEF Chain, Matches, hash
<1>9. ASSUME pc[s] = "walk", ~lost[s], never[s], at[s] # NULL PROVE ~Matches(at[s], arg[s])'
  <2>1. at[s] \in Old /\ ~Matches(at[s], arg[s])
    BY <1>6, <1>9 DEF OnTrack
  <2> QED BY <1>2, <1>6, <2>1 DEF Matches, hash
<1> QED BY <1>2, <1>4, <1>5, <1>7, <1>8, <1>9, Zenon DEF OnTrack

\* The new entry appears before everything else in its chain.
LEMMA TrackPublish ==
    ASSUME TableInv, InsertPublish, NEW s \in Searchers, Searching(s), OnTrack(s), pc'[s] = pc[s], s # "dev"
    PROVE  OnTrack(s)'
<1>1. /\ UNCHANGED <<idx, at, lost, always, tablelength, key, next>> /\ arg'[s] = arg[s]
      /\ never'[s] => never[s] /\ hash(arg[s]) # hash(arg["dev"])
  <2>1. never'[s] = (never[s] /\ ~(Searching(s) /\ hash(arg[s]) = hash(arg["dev"])))
    BY DEF InsertPublish
  <2>2. UNCHANGED <<idx, at, lost, always, tablelength, key, next>> /\ arg'[s] = arg[s]
    BY DEF InsertPublish, sizeVars
  <2> QED BY <2>1, <2>2
<1>2. Linked = Old /\ Linked' = Old \cup {hand} /\ Old' = Old \cup {hand} /\ Transit = {hand}
      /\ key[hand] = arg["dev"]
    BY PublishChains, PublishEffect
<1>3. Bucket(arg[s])' = Bucket(arg[s]) /\ ~Expanding'
    BY <1>1, PublishEffect DEF Bucket, indexFor, hash, Expanding, Filling
<1>4. IsIn(arg[s]) => IsIn(arg[s])'
    BY <1>1, <1>2 DEF IsIn, Matches, hash
<1>5. ASSUME never'[s] PROVE ~IsIn(arg[s])'
    BY <1>1, <1>2, <1>5 DEF IsIn, Matches, hash, OnTrack
<1>6. \A c : Matches(c, arg[s])' <=> Matches(c, arg[s])
    BY <1>1 DEF Matches, hash
<1>7. Chain(at[s])' = Chain(at[s])
    BY <1>1 DEF Chain
<1>8. ASSUME pc[s] = "walk", ~lost[s]
      PROVE  /\ (at[s] \in Old \cup {NULL} \cup Transit)'
             /\ always[s] => (\E d \in Chain(at[s]) \cap Old : Matches(d, arg[s]))'
             /\ never'[s] /\ at[s] # NULL => ~Matches(at[s], arg[s])'
  <2>1. (at[s] \in Old \cup {NULL} \cup Transit)'
    BY <1>1, <1>2, <1>8 DEF OnTrack
  <2>2. ASSUME always[s] PROVE (\E d \in Chain(at[s]) \cap Old : Matches(d, arg[s]))'
    <3>1. PICK d \in Chain(at[s]) \cap Old : Matches(d, arg[s])
        BY <1>8, <2>2 DEF OnTrack
    <3> QED BY <1>2, <1>6, <1>7, <3>1
  <2> QED BY <1>1, <1>6, <1>8, <2>1, <2>2 DEF OnTrack
<1> QED BY <1>1, <1>3, <1>4, <1>5, <1>8, Zenon DEF OnTrack

\* A search goes on from an entry that has been taken out as from any other.
LEMMA TrackRemove ==
    ASSUME TableInv, NEW k \in Keys, RemoveUnlink(k), NEW s \in Searchers, Searching(s), OnTrack(s),
           pc'[s] = pc[s]
    PROVE  OnTrack(s)'
<1>1. PICK e : Removed(k, e)
    BY RemoveEffect
<1>2. /\ UNCHANGED <<idx, at, lost, never, tablelength, key, arg>>
      /\ always'[s] => always[s] /\ hash(arg[s]) # hash(k)
  <2>1. always'[s] = (always[s] /\ ~(Searching(s) /\ hash(arg[s]) = hash(k)))
    BY DEF RemoveUnlink
  <2>2. UNCHANGED <<idx, at, lost, never, tablelength, key, arg>>
    BY DEF RemoveUnlink, sizeVars
  <2> QED BY <2>1, <2>2
<1>3. Linked = Old /\ Linked' = Old \ {e} /\ Old' = Old \ {e} /\ Transit = {} /\ Transit' = {e}
    BY <1>1, RemoveChains DEF Removed
<1>4. Bucket(arg[s])' = Bucket(arg[s]) /\ ~Expanding'
    BY <1>1, <1>2 DEF Bucket, indexFor, hash, Removed, Inserting, Expanding, Filling
<1>5. \A c : Matches(c, arg[s])' <=> Matches(c, arg[s])
    BY <1>2 DEF Matches, hash
<1>6. ASSUME always'[s] PROVE ~Matches(e, arg[s])
    BY <1>1, <1>2, <1>6 DEF Removed, Matches
<1>7. ASSUME always'[s], pc[s] = "slot" PROVE IsIn(arg[s])'
  <2>1. PICK d \in Old : Matches(d, arg[s])
    BY <1>2, <1>3, <1>7 DEF OnTrack, IsIn
  <2> QED BY <1>3, <1>5, <1>6, <1>7, <2>1 DEF IsIn
<1>8. ASSUME never[s] PROVE ~IsIn(arg[s])'
    BY <1>3, <1>5, <1>8 DEF OnTrack, IsIn
<1>9. ASSUME pc[s] = "walk", ~lost[s]
      PROVE  /\ (at[s] \in Old \cup {NULL} \cup Transit)'
             /\ always'[s] => (\E d \in Chain(at[s]) \cap Old : Matches(d, arg[s]))'
             /\ never'[s] /\ at[s] # NULL => ~Matches(at[s], arg[s])'
  <2>1. (at[s] \in Old \cup {NULL} \cup Transit)'
    BY <1>2, <1>3, <1>9 DEF OnTrack
  <2>2. ASSUME always'[s] PROVE (\E d \in Chain(at[s]) \cap Old : Matches(d, arg[s]))'
    <3>1. PICK d \in Chain(at[s]) \cap Old : Matches(d, arg[s])
        BY <1>2, <1>9, <2>2 DEF OnTrack
    <3>2. at[s] \in Old
        BY <1>3, <1>9, <3>1, ReachNull DEF OnTrack, Chain
    <3>3. d # e /\ d \in Reach(next', at[s])
        BY <1>1, <1>6, <2>2, <3>1, <3>2 DEF Removed, Chain
    <3> QED BY <1>2, <1>3, <1>5, <3>1, <3>3 DEF Chain
  <2> QED BY <1>2, <1>5, <1>9, <2>1, <2>2 DEF OnTrack
<1> QED BY <1>2, <1>4, <1>7, <1>8, <1>9, Zenon DEF OnTrack

\* A search that stands on the entry is lost, the others do not come to it.
LEMMA TrackFree ==
    ASSUME TableInv, RemoveFree, NEW s \in Searchers, OnTrack(s), pc'[s] = pc[s]
    PROVE  OnTrack(s)'
<1>1. Freed
    BY FreeEffect
<1>2. /\ UNCHANGED <<idx, at, always, never, tablelength, arg>>
      /\ ~lost'[s] => ~lost[s] /\ ~(pc[s] = "walk" /\ at[s] = hand)
  <2>1. lost'[s] = (lost[s] \/ (pc[s] = "walk" /\ at[s] = hand))
    BY DEF RemoveFree
  <2>2. UNCHANGED <<idx, at, always, never, tablelength, arg>>
    BY DEF RemoveFree, sizeVars
  <2> QED BY <2>1, <2>2
<1>3. SameKeys
    BY FreeChains, <1>1, Basics DEF SameKeys, Freed, TableInv, ChainInv, HeapInv
<1>4. IsIn(arg[s])' <=> IsIn(arg[s])
    BY <1>2, <1>3, KeysSame DEF IsIn, Matches, hash
<1>5. Bucket(arg[s])' = Bucket(arg[s]) /\ ~Expanding'
    BY <1>1, <1>2 DEF Bucket, indexFor, hash, Freed, Inserting, Expanding, Filling
<1>6. Old' = Old /\ Transit = {hand} /\ \A d \in Old : key'[d] = key[d] /\ Reach(next', d) = Reach(next, d)
    BY <1>1, Basics DEF Freed, TableInv, ChainInv, HeapInv
<1>7. ASSUME pc[s] = "walk", ~lost'[s]
      PROVE  /\ (at[s] \in Old \cup {NULL} \cup Transit)'
             /\ always[s] => (\E d \in Chain(at[s]) \cap Old : Matches(d, arg[s]))'
             /\ never[s] /\ at[s] # NULL => ~Matches(at[s], arg[s])'
  <2>1. at[s] \in Old \cup {NULL} /\ ~lost[s]
    BY <1>2, <1>6, <1>7 DEF OnTrack
  <2>2. ASSUME always[s] PROVE (\E d \in Chain(at[s]) \cap Old : Matches(d, arg[s]))'
    <3>1. PICK d \in Chain(at[s]) \cap Old : Matches(d, arg[s])
        BY <1>7, <2>1, <2>2 DEF OnTrack
    <3>2. at[s] \in Old
        BY <2>1, <3>1, ReachNull DEF Chain
    <3> QED BY <1>2, <1>6, <3>1, <3>2 DEF Chain, Matches, hash
  <2>3. ASSUME never[s], at[s] # NULL PROVE ~Matches(at[s], arg[s])'
    <3>1. at[s] \in Old /\ ~Matches(at[s], arg[s])
        BY <1>7, <2>1, <2>3 DEF OnTrack
    <3> QED BY <1>2, <1>6, <3>1 DEF Matches, hash
  <2> QED BY <1>2, <1>6, <2>1, <2>2, <2>3
<1> QED BY <1>2, <1>4, <1>5, <1>7, Zenon DEF OnTrack

\* Outside an expansion the entries in the table are those of its chains.
LEMMA QuietLinked ==
    ASSUME TableInv, ~Expanding
    PROVE  /\ Linked = Old /\ ArrayLength = tablelength
           /\ \A c \in Old \cup Transit : next[c] \in Old \cup {NULL}
<1> USE DEF TableInv, ChainInv
<1>1. New = {} /\ InTransit = {}
  <2>1. DOMAIN newtable = {}
    BY Basics DEF NewLength, Expanding
  <2> QED BY <2>1, AllEmpty DEF New, InTransit, Expanding, Filling
<1>2. ArrayLength = tablelength
    BY DEF ArrayLength, Expanding
<1>3. \A c \in Old : next[c] \in Old \cup {NULL}
    BY Basics, AllClosed DEF Old
<1>4. ASSUME NEW c \in Transit PROVE next[c] \in Old \cup {NULL}
  <2>1. CASE pc["dev"] = "publish"
    <3>1. c = hand /\ next[hand] = table[Bucket(arg["dev"])] /\ arg["dev"] \in Keys
        BY <1>4, <2>1 DEF Transit, KeyInv, ThreadInv
    <3>2. Bucket(arg["dev"]) \in DOMAIN table
        BY <3>1, VictimIs
    <3> QED BY <3>1, <3>2, Basics, AllIn DEF Old
  <2>2. CASE pc["dev"] # "publish"
    BY <1>4, <2>2 DEF Transit, KeyInv, Expanding, Filling
  <2> QED BY <2>1, <2>2
<1> QED BY <1>1, <1>2, <1>3, <1>4, ChainsAre

LEMMA TrackBegin ==
    ASSUME TableInv, NEW t \in Searchers, SearchBegin(t), SearchInv, calm'[t]
    PROVE  OnTrack(t)'
<1>1. PICK k \in Keys : /\ arg' = [arg EXCEPT ![t] = k]
                        /\ idx' = [idx EXCEPT ![t] = indexFor(tablelength, hash(k))]
                        /\ always' = [always EXCEPT ![t] = IsIn(k)]
                        /\ never' = [never EXCEPT ![t] = ~IsIn(k)]
    BY DEF SearchBegin
<1>2. arg'[t] = k /\ idx'[t] = indexFor(tablelength, hash(k)) /\ pc'[t] = "slot"
    BY <1>1, ThreadNames DEF SearchBegin, SearchInv, TableInv, LengthInv, ThreadInv
<1>3. always'[t] = IsIn(k) /\ never'[t] = ~IsIn(k)
    BY <1>1, Zenon DEF SearchInv
<1>4. calm'[t] = (pc["dev"] \notin {"unlink", "relink", "swap", "length"})
    BY Zenon DEF SearchBegin, SearchInv
<1>5. ~Expanding
    BY <1>4 DEF Expanding, Filling
<1>6. ~Expanding' /\ SameKeys
    BY <1>5, SearchChains, SearchStill DEF Search, SameKeys, TableInv
<1>7. IsIn(arg[t])' <=> IsIn(k)
    BY <1>2, <1>6, KeysSame DEF IsIn, Matches, hash
<1>8. idx'[t] = Bucket(arg[t])'
    BY <1>2 DEF Bucket, hash, indexFor, SearchBegin, sizeVars
<1> QED BY <1>2, <1>3, <1>6, <1>7, <1>8, Zenon DEF OnTrack

LEMMA TrackSlot ==
    ASSUME TableInv, NEW t \in Searchers, SearchSlot(t), SearchInv, OnTrack(t)
    PROVE  OnTrack(t)'
<1> USE DEF TableInv, ChainInv
<1>1. /\ UNCHANGED <<arg, idx, always, never, lost, tablelength, key, next>> /\ pc[t] = "slot"
      /\ pc'[t] = "walk" /\ at'[t] = table[idx[t]]
    BY ThreadNames DEF SearchSlot, sizeVars, ThreadInv, SearchInv
<1>2. ~Expanding' /\ SameKeys /\ Old' = Old /\ Transit' = Transit
    BY SearchChains, SearchStill DEF Search, SameKeys, OnTrack
<1>3. IsIn(arg[t])' <=> IsIn(arg[t])
    BY <1>1, <1>2, KeysSame DEF IsIn, Matches, hash
<1>4. Bucket(arg[t])' = Bucket(arg[t]) /\ \A c : Matches(c, arg[t])' <=> Matches(c, arg[t])
    BY <1>1 DEF Bucket, indexFor, hash, Matches
<1>5. Linked = Old /\ ArrayLength = tablelength
    BY QuietLinked DEF OnTrack
<1>6. idx[t] \in DOMAIN table /\ idx[t] = Bucket(arg[t])
  <2>1. arg[t] \in Keys
    BY <1>1 DEF Searching, ThreadInv
  <2> QED BY <2>1, VictimIs DEF OnTrack
<1>7. at'[t] \in Old \cup {NULL}
    BY <1>1, <1>6, Basics, AllIn DEF Old
<1>8. ASSUME always[t] PROVE \E d \in Reach(next, at'[t]) \cap Old : Matches(d, arg[t])
  <2>1. PICK d \in Old : Matches(d, arg[t])
    BY <1>1, <1>5, <1>8 DEF OnTrack, IsIn
  <2>2. PICK i \in DOMAIN table : d \in Reach(next, table[i])
    BY Basics, AllIn DEF Old
  <2>3. i = idx[t]
    BY <1>5, <1>6, <2>1, <2>2 DEF OrderInv, Matches, Bucket
  <2> QED BY <1>1, <2>1, <2>2, <2>3
<1>9. ASSUME never[t], at'[t] # NULL PROVE ~Matches(at'[t], arg[t])
    BY <1>5, <1>7, <1>9 DEF OnTrack, IsIn
<1>10. /\ (at[t] \in Old \cup {NULL} \cup Transit)'
       /\ always'[t] => (\E d \in Chain(at[t]) \cap Old : Matches(d, arg[t]))'
       /\ never'[t] /\ at'[t] # NULL => ~Matches(at[t], arg[t])'
  <2>1. (at[t] \in Old \cup {NULL} \cup Transit)'
    BY <1>2, <1>7
  <2>2. ASSUME always[t] PROVE (\E d \in Chain(at[t]) \cap Old : Matches(d, arg[t]))'
    BY <1>1, <1>2, <1>8, <2>2 DEF Chain, Matches, hash
  <2>3. ASSUME never[t], at'[t] # NULL PROVE ~Matches(at[t], arg[t])'
    BY <1>1, <1>9, <2>3 DEF Matches, hash
  <2> QED BY <1>1, <2>1, <2>2, <2>3
<1> QED BY <1>1, <1>2, <1>3, <1>4, <1>10, Zenon DEF OnTrack

LEMMA TrackWalk ==
    ASSUME TableInv, NEW t \in Searchers, SearchWalk(t), SearchInv, OnTrack(t), pc'[t] = "walk"
    PROVE  OnTrack(t)'
<1> USE DEF TableInv, ChainInv
<1>1. /\ UNCHANGED <<arg, idx, always, never, lost, tablelength, key, next>> /\ pc[t] = "walk"
      /\ ~lost[t] /\ at[t] # NULL /\ ~Matches(at[t], arg[t]) /\ at'[t] = next[at[t]]
  <2>1. pc[t] = "walk" /\ ~lost[t]
    BY DEF SearchWalk
  <2>2. CASE at[t] = NULL \/ Matches(at[t], arg[t])
    BY <2>2, ThreadNames DEF SearchWalk, ThreadInv
  <2>3. CASE ~(at[t] = NULL \/ Matches(at[t], arg[t]))
    BY <2>1, <2>3 DEF SearchWalk, SearchInv, sizeVars
  <2> QED BY <2>2, <2>3
<1>2. ~Expanding' /\ SameKeys /\ Old' = Old /\ Transit' = Transit
    BY SearchChains, SearchStill DEF Search, SameKeys, OnTrack
<1>3. IsIn(arg[t])' <=> IsIn(arg[t])
    BY <1>1, <1>2, KeysSame DEF IsIn, Matches, hash
<1>4. Bucket(arg[t])' = Bucket(arg[t])
    BY <1>1 DEF Bucket, indexFor, hash
<1>5. Linked = Old /\ at'[t] \in Old \cup {NULL}
    BY <1>1, QuietLinked DEF OnTrack
<1>6. ASSUME always[t] PROVE \E d \in Reach(next, at'[t]) \cap Old : Matches(d, arg[t])
  <2>1. PICK d \in Reach(next, at[t]) \cap Old : Matches(d, arg[t])
    BY <1>1, <1>6 DEF OnTrack, Chain
  <2>2. Reach(next, at[t]) = {at[t]} \cup Reach(next, at'[t])
    BY <1>1, Basics, ReachStep DEF SearchInv
  <2> QED BY <1>1, <2>1, <2>2
<1>7. ASSUME never[t], at'[t] # NULL PROVE ~Matches(at'[t], arg[t])
    BY <1>5, <1>7 DEF OnTrack, IsIn
<1>8. /\ (at[t] \in Old \cup {NULL} \cup Transit)'
      /\ always'[t] => (\E d \in Chain(at[t]) \cap Old : Matches(d, arg[t]))'
      /\ never'[t] /\ at'[t] # NULL => ~Matches(at[t], arg[t])'
  <2>1. (at[t] \in Old \cup {NULL} \cup Transit)'
    BY <1>2, <1>5
  <2>2. ASSUME always[t] PROVE (\E d \in Chain(at[t]) \cap Old : Matches(d, arg[t]))'
    BY <1>1, <1>2, <1>6, <2>2 DEF Chain, Matches, hash
  <2>3. ASSUME never[t], at'[t] # NULL PROVE ~Matches(at[t], arg[t])'
    BY <1>1, <1>7, <2>3 DEF Matches, hash
  <2> QED BY <1>1, <2>1, <2>2, <2>3
<1>9. pc'[t] # "slot"
    OBVIOUS
<1>10. idx'[t] = Bucket(arg[t])'
    BY <1>1, <1>4 DEF OnTrack
<1>11. never'[t] => ~IsIn(arg[t])'
    BY <1>1, <1>3 DEF OnTrack
<1> QED BY <1>2, <1>8, <1>9, <1>10, <1>11, Zenon DEF OnTrack

LEMMA TrackOther ==
    ASSUME TableInv, SearchInv, NEW t \in Searchers, Search(t), NEW s \in Searchers, s # t, OnTrack(s)
    PROVE  OnTrack(s)'
<1> USE DEF TableInv, SearchInv, searchVars
<1>1. /\ pc'[s] = pc[s] /\ arg'[s] = arg[s] /\ idx'[s] = idx[s] /\ at'[s] = at[s]
      /\ lost'[s] = lost[s] /\ always'[s] = always[s] /\ never'[s] = never[s]
  <2>1. CASE SearchBegin(t)
    BY <2>1 DEF SearchBegin
  <2>2. CASE SearchSlot(t)
    BY <2>2 DEF SearchSlot
  <2>3. CASE SearchWalk(t)
    <3>1. UNCHANGED <<arg, idx, lost, always, never>>
        BY <2>3 DEF SearchWalk
    <3>2. pc'[s] = pc[s] /\ at'[s] = at[s]
      <4>1. CASE at[t] = NULL \/ Matches(at[t], arg[t])
        BY <2>3, <4>1, ThreadNames DEF SearchWalk, ThreadInv
      <4>2. CASE ~(at[t] = NULL \/ Matches(at[t], arg[t]))
        BY <2>3, <4>2 DEF SearchWalk
      <4> QED BY <4>1, <4>2
    <3> QED BY <3>1, <3>2
  <2>4. CASE SearchFreed(t)
    BY <2>4 DEF SearchFreed
  <2>5. CASE SearchEnd(t)
    BY <2>5 DEF SearchEnd
  <2> QED BY <2>1, <2>2, <2>3, <2>4, <2>5 DEF Search
<1>2. Old' = Old /\ Transit' = Transit /\ ~Expanding' /\ SameKeys
    BY SearchChains, SearchStill DEF SameKeys, OnTrack
<1> QED BY <1>1, <1>2, SearchStill, TrackStill

LEMMA TrackStep ==
    ASSUME TableInv, SearchInv, [Next]_vars, NEW s \in Searchers, calm'[s], Searching(s)'
    PROVE  OnTrack(s)'
<1> USE ThreadNames DEF TableInv
<1>0. pc \in [Threads -> Places] /\ (calm[s] /\ Searching(s) => OnTrack(s))
    BY DEF ThreadInv, SearchInv
<1>1. ASSUME NEW t \in Searchers, Search(t) PROVE OnTrack(s)'
  <2>1. CASE s # t
    <3>1. calm'[s] = calm[s] /\ pc'[s] = pc[s]
        BY <1>0, <1>1, <2>1 DEF Search, SearchBegin, SearchSlot, SearchWalk, SearchFreed, SearchEnd, SearchInv
    <3> QED BY <1>0, <1>1, <2>1, <3>1, TrackOther DEF Searching
  <2>2. CASE s = t /\ SearchBegin(t)
    BY <2>2, TrackBegin
  <2>3. CASE s = t /\ SearchSlot(t)
    <3>1. calm' = calm /\ Searching(s)
        BY <2>3 DEF SearchSlot, Searching
    <3> QED BY <1>0, <2>3, <3>1, TrackSlot
  <2>4. CASE s = t /\ SearchWalk(t)
    <3>1. calm' = calm /\ Searching(s) /\ pc'[s] = "walk"
      <4>1. calm' = calm /\ pc[s] = "walk"
        BY <2>4 DEF SearchWalk
      <4>2. pc'[s] \in {"walk", "result"}
        BY <1>0, <2>4 DEF SearchWalk
      <4> QED BY <4>1, <4>2 DEF Searching
    <3> QED BY <1>0, <2>4, <3>1, TrackWalk
  <2>5. CASE s = t /\ SearchFreed(t)
    <3>1. UNCHANGED <<pc, arg, idx, at, lost, always, never, calm>>
        BY <2>5 DEF SearchFreed, searchVars
    <3>2. OnTrack(s)
        BY <1>0, <3>1 DEF Searching
    <3>3. Old' = Old /\ Transit' = Transit /\ ~Expanding' /\ SameKeys
        BY <1>1, <3>2, SearchChains, SearchStill DEF SameKeys, OnTrack
    <3> QED BY <1>1, <3>1, <3>2, <3>3, SearchStill, TrackStill
  <2>6. CASE s = t /\ SearchEnd(t)
    BY <1>0, <2>6 DEF SearchEnd, Searching
  <2> QED BY <1>1, <2>1, <2>2, <2>3, <2>4, <2>5, <2>6 DEF Search
<1>2. CASE Inserter
  <2>1. s # "dev" /\ pc'[s] = pc[s]
    <3>1. pc' = [pc EXCEPT !["dev"] = pc'["dev"]] /\ pc'["dev"] \notin {"slot", "walk"}
        BY <1>0, <1>2 DEF Inserter, InsertCount, ExpandFails, ExpandUnlink, ExpandRelink, ExpandFree,
                          ExpandSwap, ExpandLength, InsertAlloc, InsertOom, InsertPublish, Step
    <3> QED BY <1>0, <3>1 DEF Searching
  <2>2. calm[s]
    BY <1>2 DEF Inserter, InsertCount, ExpandFails, ExpandUnlink, ExpandRelink, ExpandFree, ExpandSwap,
                ExpandLength, InsertAlloc, InsertOom, InsertPublish
  <2>3. OnTrack(s) /\ Searching(s)
    BY <1>0, <2>1, <2>2 DEF Searching
  <2>4. CASE pc'["dev"] \in {"alloc", "idle"} /\ (InsertCount \/ ExpandFails \/ InsertOom)
    <3>1. UNCHANGED <<idx, at, lost, always, never, tablelength, key, next>> /\ arg'[s] = arg[s]
      <4>1. arg \in [Threads -> Keys \cup {NULL}]
        BY DEF SearchInv
      <4>2. CASE InsertCount
        BY <4>2 DEF InsertCount, searchVars
      <4>3. CASE ExpandFails \/ InsertOom
        BY <2>1, <4>1, <4>3 DEF ExpandFails, InsertOom, searchVars, sizeVars
      <4> QED BY <2>4, <4>2, <4>3
    <3>2. Linked' = Linked /\ Old' = Old
        BY <2>4, CountChains, ExpandChains
    <3>3. pc["dev"] \in {"insert", "alloc"} /\ pc'["flush"] = pc["flush"] /\ hand' = hand
        BY <1>0, <2>4 DEF InsertCount, ExpandFails, InsertOom
    <3>4. Transit' = Transit /\ ~Expanding'
        BY <2>4, <3>3 DEF Transit, Expanding, Filling
    <3> QED BY <2>1, <2>3, <3>1, <3>2, <3>4, TrackStill DEF SameKeys
  <2>5. CASE InsertCount /\ pc'["dev"] \notin {"alloc", "idle"}
    <3>1. calm' = [t \in Searchers |-> calm[t] /\ ~Searching(t)]
        BY <1>0, <2>5 DEF InsertCount
    <3> QED BY <2>3, <3>1, Zenon
  <2>6. CASE ExpandUnlink \/ ExpandRelink \/ ExpandFree \/ ExpandSwap \/ ExpandLength
    BY <2>3, <2>6 DEF OnTrack, Expanding, Filling, ExpandUnlink, ExpandRelink, ExpandFree, ExpandSwap,
                      ExpandLength, Step
  <2>7. CASE InsertAlloc
    BY <2>1, <2>3, <2>7, TrackAlloc
  <2>8. CASE InsertPublish
    BY <2>1, <2>3, <2>8, TrackPublish
  <2>9. ExpandFails \/ InsertOom => pc'["dev"] \in {"alloc", "idle"}
    BY <1>0 DEF ExpandFails, InsertOom
  <2> QED BY <1>2, <2>4, <2>5, <2>6, <2>7, <2>8, <2>9 DEF Inserter
<1>3. ASSUME NEW k \in Keys, RemoveUnlink(k) PROVE OnTrack(s)'
  <2>1. pc'[s] = pc[s] /\ calm' = calm
    BY <1>0, <1>3 DEF RemoveUnlink, Step
  <2> QED BY <1>0, <1>3, <2>1, TrackRemove DEF Searching
<1>4. CASE RemoveFree
  <2>1. pc'[s] = pc[s] /\ calm' = calm
    BY <1>0, <1>4 DEF RemoveFree, Step
  <2> QED BY <1>0, <1>4, <2>1, TrackFree DEF Searching
<1>5. CASE UNCHANGED vars
  <2>1. UNCHANGED <<table, newtable, key, next, pc, hand, arg, idx, at, lost, always, never, calm, tablelength>>
    BY <1>5 DEF vars, searchVars, sizeVars
  <2>2. OnTrack(s)
    BY <1>0, <2>1 DEF Searching
  <2>3. Old' = Old /\ Transit' = Transit /\ ~Expanding' /\ SameKeys
    BY <2>1, <2>2 DEF OnTrack, Old, Transit, Expanding, Filling, SameKeys, Linked, ChainsOf, Chain, InTransit
  <2> QED BY <2>1, <2>2, <2>3, TrackStill
<1> QED BY <1>1, <1>2, <1>3, <1>4, <1>5 DEF Next, Search

\* Only a publication brings a key into the table.
LEMMA NotAdded ==
    ASSUME TableInv, [Next]_vars, ~InsertPublish, NEW k, ~IsIn(k)
    PROVE  ~\E c \in Linked' : HashFn[key'[c]] = HashFn[k]
<1>1. CASE \E j \in Keys : RemoveUnlink(j)
  <2>1. PICK j \in Keys : RemoveUnlink(j)
    BY <1>1
  <2>2. PICK e : Removed(j, e)
    BY <2>1, RemoveEffect
  <2>3. Linked' \subseteq Linked /\ key' = key
    BY <2>1, <2>2, RemoveChains DEF Removed
  <2> QED BY <2>3 DEF IsIn, Matches, hash
<1>2. CASE \A j \in Keys : ~RemoveUnlink(j)
    BY <1>2, KeysStay, KeysSame
<1> QED BY <1>1, <1>2

\* A removed key is gone: no other entry has its hash value.
LEMMA RemovedIsGone ==
    ASSUME TableInv, NEW k \in Keys, RemoveUnlink(k), NEW j, hash(j) = hash(k)
    PROVE  ~\E c \in Linked' : HashFn[key'[c]] = HashFn[j]
<1>1. PICK e : Removed(k, e)
    BY RemoveEffect
<1>2. Linked = Old /\ Linked' = Old \ {e} /\ key' = key /\ e \in Old /\ Matches(e, k)
    BY <1>1, RemoveChains DEF Removed
<1> QED BY <1>2 DEF TableInv, KeyInv, Matches, hash

\* The gateway thread inserts only what is not there.
DevInv ==
    /\ calm["dev"]
    /\ Searching("dev") /\ ~always["dev"] => ~IsIn(arg["dev"])
    /\ pc["dev"] = "result" /\ at["dev"] = NULL => ~IsIn(arg["dev"])

LEMMA DevStep ==
    ASSUME TableInv, SearchInv, [Next]_vars
    PROVE  DevInv'
<1> USE ThreadNames DEF TableInv, searchVars
<1>0. pc \in [Threads -> Places] /\ arg \in [Threads -> Keys \cup {NULL}] /\ DevInv
    BY DEF ThreadInv, SearchInv, DevInv
<1>1. CASE SearchBegin("dev")
  <2>1. PICK k \in Keys : arg' = [arg EXCEPT !["dev"] = k] /\ always' = [always EXCEPT !["dev"] = IsIn(k)]
    BY <1>1 DEF SearchBegin
  <2>2. arg'["dev"] = k /\ pc'["dev"] = "slot" /\ SameKeys
    BY <1>0, <1>1, <2>1, SearchChains, SearchStill DEF SearchBegin, Search, SameKeys
  <2>3. always'["dev"] = IsIn(k)
    BY <2>1, Zenon DEF SearchInv
  <2>4. calm'["dev"] = (pc["dev"] \notin {"unlink", "relink", "swap", "length"}) /\ pc["dev"] = "idle"
    BY <1>1, Zenon DEF SearchBegin, SearchInv
  <2>5. calm'["dev"]
    BY <2>4
  <2>6. IsIn(k) <=> IsIn(arg["dev"])'
    BY <2>2, KeysSame DEF IsIn, Matches, hash
  <2> QED BY <2>2, <2>3, <2>5, <2>6, Zenon DEF DevInv
<1>2. CASE SearchSlot("dev") \/ SearchFreed("dev")
  <2>1. UNCHANGED <<arg, always, calm>> /\ Searching("dev") /\ pc'["dev"] \in {"slot", "walk"}
    BY <1>0, <1>2 DEF SearchSlot, SearchFreed, Searching
  <2>2. SameKeys
    BY <1>2, SearchChains, SearchStill DEF Search, SameKeys
  <2>3. IsIn(arg["dev"]) <=> IsIn(arg["dev"])'
    BY <2>1, <2>2, KeysSame DEF IsIn, Matches, hash
  <2> QED BY <1>0, <2>1, <2>3 DEF DevInv
<1>3. CASE SearchWalk("dev")
  <2>1. UNCHANGED <<arg, always, calm>> /\ pc["dev"] = "walk" /\ ~lost["dev"]
    BY <1>3 DEF SearchWalk
  <2>2. SameKeys
    BY <1>3, SearchChains, SearchStill DEF Search, SameKeys
  <2>3. IsIn(arg["dev"]) <=> IsIn(arg["dev"])'
    BY <2>1, <2>2, KeysSame DEF IsIn, Matches, hash
  <2>4. ASSUME pc'["dev"] = "result", at'["dev"] = NULL PROVE ~IsIn(arg["dev"])
    <3>1. at["dev"] = NULL
        BY <1>0, <1>3, <2>1, <2>4 DEF SearchWalk
    <3>2. OnTrack("dev")
        BY <2>1 DEF SearchInv, Searching
    <3>3. ~always["dev"]
        BY <2>1, <3>1, <3>2, ReachNull DEF OnTrack, Chain
    <3> QED BY <1>0, <2>1, <3>3 DEF DevInv, Searching
  <2>5. ASSUME ~always["dev"] PROVE ~IsIn(arg["dev"])
    BY <1>0, <2>1, <2>5 DEF DevInv, Searching
  <2> QED BY <1>0, <2>1, <2>3, <2>4, <2>5 DEF DevInv
<1>4. CASE SearchEnd("dev")
  <2>1. pc'["dev"] \in {"insert", "idle"} /\ calm'["dev"] = TRUE
    BY <1>0, <1>4 DEF SearchEnd, SearchInv
  <2> QED BY <2>1 DEF DevInv, Searching
<1>5. CASE Inserter
  <2>1. pc'["dev"] \notin {"slot", "walk", "result"}
    BY <1>0, <1>5 DEF Inserter, InsertCount, ExpandFails, ExpandUnlink, ExpandRelink, ExpandFree,
                      ExpandSwap, ExpandLength, InsertAlloc, InsertOom, InsertPublish, Step
  <2>2. calm'["dev"]
    <3>1. CASE InsertCount
      <4>1. ~Searching("dev")
        BY <3>1 DEF InsertCount, Searching
      <4>2. CASE calm' = [t \in Searchers |-> calm[t] /\ ~Searching(t)]
        BY <1>0, <4>1, <4>2, Zenon DEF DevInv
      <4> QED BY <1>0, <3>1, <4>2 DEF InsertCount, DevInv
    <3>2. CASE ~InsertCount
        BY <1>0, <1>5, <3>2 DEF Inserter, ExpandFails, ExpandUnlink, ExpandRelink, ExpandFree,
                      ExpandSwap, ExpandLength, InsertAlloc, InsertOom, InsertPublish, DevInv
    <3> QED BY <3>1, <3>2
  <2> QED BY <2>1, <2>2 DEF DevInv, Searching
<1>6. CASE UNCHANGED <<pc["dev"], at["dev"], arg["dev"], calm["dev"]>> /\ ~InsertPublish
  <2>1. ~IsIn(arg["dev"]) => ~IsIn(arg["dev"])'
    BY <1>6, NotAdded DEF IsIn, Matches, hash
  <2>2. ASSUME Searching("dev"), ~always'["dev"] PROVE ~IsIn(arg["dev"])'
    <3>1. CASE always'["dev"] = always["dev"]
        BY <1>0, <2>1, <2>2, <3>1 DEF DevInv
    <3>2. ASSUME NEW k \in Keys, RemoveUnlink(k) PROVE ~IsIn(arg["dev"])'
      <4>1. always'["dev"] = (always["dev"] /\ ~(Searching("dev") /\ hash(arg["dev"]) = hash(k)))
        BY <3>2 DEF RemoveUnlink
      <4>2. CASE hash(arg["dev"]) = hash(k)
        BY <1>6, <3>2, <4>2, RemovedIsGone DEF IsIn, Matches, hash
      <4>3. CASE hash(arg["dev"]) # hash(k)
        BY <1>0, <2>1, <2>2, <4>1, <4>3 DEF DevInv
      <4> QED BY <4>2, <4>3
    <3>3. CASE \A k \in Keys : ~RemoveUnlink(k)
      <4>1. \/ \E t \in Searchers : Search(t)
            \/ Inserter \/ RemoveFree \/ UNCHANGED vars
        BY <3>3 DEF Next, Search
      <4>2. CASE Inserter
        BY <1>6, <2>2, <4>2 DEF Inserter, InsertCount, ExpandFails, ExpandUnlink, ExpandRelink, ExpandFree,
                      ExpandSwap, ExpandLength, InsertAlloc, InsertOom, InsertPublish, Step, Searching
      <4>3. CASE RemoveFree \/ UNCHANGED vars
        BY <3>1, <4>3 DEF RemoveFree, vars
      <4>4. ASSUME NEW t \in Searchers, Search(t), t # "dev" PROVE always'["dev"] = always["dev"]
        BY <4>4 DEF Search, SearchBegin, SearchSlot, SearchWalk, SearchFreed, SearchEnd, SearchInv
      <4>5. CASE Search("dev")
        <5>1. CASE SearchSlot("dev") \/ SearchWalk("dev") \/ SearchFreed("dev")
            BY <3>1, <5>1 DEF SearchSlot, SearchWalk, SearchFreed
        <5>2. CASE SearchBegin("dev") \/ SearchEnd("dev")
            BY <2>2, <5>2 DEF SearchBegin, SearchEnd, Searching
        <5> QED BY <4>5, <5>1, <5>2 DEF Search
      <4> QED BY <3>1, <4>1, <4>2, <4>3, <4>4, <4>5
    <3> QED BY <3>2, <3>3
  <2> QED BY <1>0, <1>6, <2>1, <2>2 DEF DevInv, Searching
<1>7. ASSUME NEW t \in Searchers, Search(t), t # "dev"
      PROVE  UNCHANGED <<pc["dev"], at["dev"], arg["dev"], calm["dev"]>> /\ ~InsertPublish
  <2>1. UNCHANGED <<pc["dev"], arg["dev"], calm["dev"]>>
    BY <1>0, <1>7 DEF Search, SearchBegin, SearchSlot, SearchWalk, SearchFreed, SearchEnd, SearchInv
  <2>2. at'["dev"] = at["dev"]
    BY <1>7 DEF Search, SearchBegin, SearchSlot, SearchWalk, SearchFreed, SearchEnd, SearchInv
  <2>3. ~InsertPublish
    BY <1>0, <2>1 DEF InsertPublish
  <2> QED BY <2>1, <2>2, <2>3
<1>8. ASSUME (\E k \in Keys : RemoveUnlink(k)) \/ RemoveFree \/ UNCHANGED vars
      PROVE  UNCHANGED <<pc["dev"], at["dev"], arg["dev"], calm["dev"]>> /\ ~InsertPublish
  <2>1. UNCHANGED <<pc["dev"], at["dev"], arg["dev"], calm["dev"]>>
    BY <1>0, <1>8 DEF RemoveUnlink, RemoveFree, Step, vars
  <2>2. ~InsertPublish
    BY <1>0, <2>1 DEF InsertPublish
  <2> QED BY <2>1, <2>2
<1> QED BY <1>1, <1>2, <1>3, <1>4, <1>5, <1>6, <1>7, <1>8 DEF Next, Search

LEMMA RightStep ==
    ASSUME TableInv, SearchInv, [Next]_vars
    PROVE  SearchIsRight'
<1> SUFFICES ASSUME NEW s \in Searchers, pc'[s] = "result", calm'[s]
             PROVE  (always'[s] => at'[s] # NULL) /\ (never'[s] => at'[s] = NULL)
    BY DEF SearchIsRight
<1> USE ThreadNames DEF TableInv, searchVars
<1>0. pc \in [Threads -> Places]
      /\ (pc[s] = "result" /\ calm[s] => (always[s] => at[s] # NULL) /\ (never[s] => at[s] = NULL))
    BY DEF ThreadInv, SearchInv, SearchIsRight
<1>1. CASE SearchWalk(s)
  <2>1. UNCHANGED <<always, never, calm>> /\ pc[s] = "walk" /\ ~lost[s]
    BY <1>1 DEF SearchWalk
  <2>2. at' = at /\ (at[s] = NULL \/ Matches(at[s], arg[s]))
    BY <1>0, <1>1, <2>1 DEF SearchWalk
  <2>3. OnTrack(s)
    BY <2>1 DEF SearchInv, Searching
  <2>4. always[s] => at[s] # NULL
    BY <2>1, <2>3, ReachNull DEF OnTrack, Chain
  <2>5. never[s] => at[s] = NULL
    BY <2>1, <2>2, <2>3 DEF OnTrack
  <2> QED BY <2>1, <2>2, <2>4, <2>5
<1>2. CASE /\ pc[s] = "result" /\ at'[s] = at[s] /\ calm[s]
           /\ always'[s] => always[s]
           /\ never'[s] => never[s]
    BY <1>0, <1>2
<1>3. ASSUME NEW t \in Searchers, Search(t), t # s
      PROVE  /\ pc[s] = "result" /\ at'[s] = at[s] /\ calm[s]
             /\ always'[s] => always[s]
             /\ never'[s] => never[s]
  <2>1. pc'[s] = pc[s] /\ always'[s] = always[s] /\ never'[s] = never[s] /\ calm'[s] = calm[s]
    BY <1>0, <1>3 DEF Search, SearchBegin, SearchSlot, SearchWalk, SearchFreed, SearchEnd, SearchInv
  <2>2. at'[s] = at[s]
    BY <1>3 DEF Search, SearchBegin, SearchSlot, SearchWalk, SearchFreed, SearchEnd, SearchInv
  <2> QED BY <2>1, <2>2
<1>4. CASE Search(s) /\ ~SearchWalk(s)
  <2>1. SearchFreed(s)
    BY <1>0, <1>4 DEF Search, SearchBegin, SearchSlot, SearchEnd
  <2> QED BY <1>2, <2>1 DEF SearchFreed
<1>5. CASE Inserter /\ ~InsertPublish
  <2>1. UNCHANGED <<at, always, never>> /\ calm[s]
    BY <1>5 DEF Inserter, InsertCount, ExpandFails, ExpandUnlink, ExpandRelink, ExpandFree, ExpandSwap,
                ExpandLength, InsertAlloc, InsertOom
  <2>2. pc[s] = "result"
    BY <1>0, <1>5 DEF Inserter, InsertCount, ExpandFails, ExpandUnlink, ExpandRelink, ExpandFree, ExpandSwap,
                ExpandLength, InsertAlloc, InsertOom, Step
  <2> QED BY <1>2, <2>1, <2>2
<1>6. CASE InsertPublish
  <2>1. never'[s] = (never[s] /\ ~(Searching(s) /\ hash(arg[s]) = hash(arg["dev"])))
    BY <1>6 DEF InsertPublish
  <2>2. UNCHANGED <<at, always, calm>> /\ pc[s] = "result"
    BY <1>0, <1>6 DEF InsertPublish
  <2> QED BY <1>2, <2>1, <2>2
<1>7. ASSUME NEW k \in Keys, RemoveUnlink(k)
      PROVE  (always'[s] => at'[s] # NULL) /\ (never'[s] => at'[s] = NULL)
  <2>1. always'[s] = (always[s] /\ ~(Searching(s) /\ hash(arg[s]) = hash(k)))
    BY <1>7 DEF RemoveUnlink
  <2>2. UNCHANGED <<at, never, calm>> /\ pc[s] = "result"
    BY <1>0, <1>7 DEF RemoveUnlink, Step
  <2> QED BY <1>2, <2>1, <2>2
<1>8. CASE RemoveFree \/ UNCHANGED vars
  <2>1. UNCHANGED <<at, always, never, calm>> /\ pc[s] = "result"
    BY <1>0, <1>8 DEF RemoveFree, Step, vars
  <2> QED BY <1>2, <2>1
<1> QED BY <1>1, <1>2, <1>3, <1>4, <1>5, <1>6, <1>7, <1>8 DEF Next, Search

LEMMA InvInit == Init => Inv
<1> SUFFICES ASSUME Init PROVE Inv
    OBVIOUS
<1>1. /\ pc = [t \in Threads |-> "idle"] /\ arg = [t \in Threads |-> NULL]
      /\ at = [t \in Searchers |-> NULL]
      /\ always = [t \in Searchers |-> FALSE] /\ never = [t \in Searchers |-> FALSE]
      /\ calm = [t \in Searchers |-> TRUE] /\ lost = [t \in Searchers |-> FALSE]
    BY DEF Init
<1>2. SearchTypes
    BY <1>1 DEF SearchTypes
<1>3. \A t \in Searchers : pc[t] = "idle"
    BY <1>1, ThreadNames
<1>4. calm["dev"]
    BY <1>1, ThreadNames, Zenon
<1>5. SearchInv
    BY <1>2, <1>3, <1>4, ThreadNames DEF SearchInv, SearchTypes, SearchIsRight, Searching
<1> QED BY <1>5, TableInit DEF Inv

LEMMA InvStep == Inv /\ [Next]_vars => Inv'
<1> SUFFICES ASSUME TableInv, SearchInv, [Next]_vars PROVE TableInv' /\ SearchInv'
    BY DEF Inv
<1>1. \A t \in Searchers : calm'[t] /\ Searching(t)' => OnTrack(t)'
    BY TrackStep
<1> QED BY <1>1, TableStep, SearchTypeStep, DevStep, RightStep DEF SearchInv, SearchTypes, DevInv

LEMMA Always == Spec => []Inv
BY InvInit, InvStep, PTL DEF Spec

-----------------------------------------------------------------------------
(* The theorems.                                                           *)

\* The table and its threads stay within their types.
THEOREM TypeCorrect == Spec => []TypeOK
<1>1. Inv => TypeOK
  <2> SUFFICES ASSUME Inv PROVE TypeOK
    OBVIOUS
  <2> USE DEF Inv, TableInv, ChainInv
  <2>1. primes[primeindex] \in Lengths /\ tablelength \in Lengths
    BY DEF LengthInv, Lengths
  <2>2. table \in UNION {[0 .. n - 1 -> Cells \cup {NULL}] : n \in Lengths}
    BY <2>1 DEF LengthInv, ArrayLength
  <2>3. newtable \in UNION {[0 .. n - 1 -> Cells \cup {NULL}] : n \in Lengths \cup {0}}
    BY <2>1 DEF LengthInv, NewLength
  <2>4. entrycount \in 0 .. Cardinality(Cells) + 1
    <3>1. Cardinality(used) \in Nat /\ Cardinality(used) <= Cardinality(Cells) /\ Cardinality(Cells) \in Nat
        BY CountCells DEF HeapInv
    <3> QED BY <3>1 DEF CountInv, Extra
  <2>5. mutex \in {"free", "dev", "flush"}
    BY DEF ThreadInv
  <2> QED BY <2>2, <2>3, <2>4, <2>5 DEF TypeOK, LengthInv, HeapInv, Links, SearchInv
<1> QED BY <1>1, Always, PTL

\* Whenever the mutex of dev_param is free, every allocated entry is counted
\* once, is in the chain of its bucket and is the only one with its hash value
\* (hash_table.c:68-94, 120-154 and 177-210).
THEOREM TableInOrder == Spec => []BucketsInOrder
<1>1. Inv => BucketsInOrder
  <2> SUFFICES ASSUME Inv, mutex = "free"
               PROVE  /\ used = ChainsOf(table) /\ entrycount = Cardinality(used)
                      /\ \A i \in DOMAIN table : \A c \in Chain(table[i]) : Bucket(key[c]) = i
                      /\ \A c, d \in used : hash(key[c]) = hash(key[d]) => c = d
    BY DEF BucketsInOrder
  <2> USE DEF Inv, TableInv, ChainInv
  <2>1. ~Inserting /\ pc["flush"] # "free"
    BY DEF ThreadInv
  <2>2. ~Expanding /\ Transit = {} /\ Extra = 0
    BY <2>1 DEF Inserting, Expanding, Filling, Transit, Extra
  <2>3. Linked = Old /\ ArrayLength = tablelength
    BY <2>2, QuietLinked
  <2>4. New \subseteq Linked /\ ChainsOf(table) = Old
    BY ChainsAre
  <2>5. used = Old
    BY <2>2, <2>3, <2>4 DEF PlaceInv
  <2>6. Cardinality(used) \in Nat
    BY CountCells DEF HeapInv
  <2>7. entrycount = Cardinality(used)
    BY <2>2, <2>6 DEF CountInv
  <2>8. \A i \in DOMAIN table : \A c \in Chain(table[i]) : Bucket(key[c]) = i
    BY <2>3 DEF OrderInv, Chain, Bucket
  <2> QED BY <2>3, <2>4, <2>5, <2>7, <2>8 DEF KeyInv
<1> QED BY <1>1, Always, PTL

\* A search without the mutex, beside any insertions and removals but no
\* expansion, is right about every key that was there all the time and about
\* every key that never was (hash_table.c:157-172).
THEOREM UnlockedSearchIsRight == Spec => []SearchIsRight
<1>1. Inv => SearchIsRight
    BY DEF Inv, SearchInv
<1> QED BY <1>1, Always, PTL

-----------------------------------------------------------------------------
(* The table is a map.                                                     *)

Holding(linked, keys, h) == {c \in linked : HashFn[keys[c]] = h}

KeyOf(S, keys) == IF S = {} THEN NULL ELSE keys[CHOOSE c \in S : TRUE]

Dict(linked, keys) == [h \in Hashes |-> KeyOf(Holding(linked, keys, h), keys)]

LEMMA ContentsAre == Contents = Dict(Linked, key) /\ Contents' = Dict(Linked', key')
BY DEF Contents, Dict, Holding, KeyOf, hash

LEMMA DictIs ==
    ASSUME NEW linked, NEW keys, NEW h \in Hashes,
           \A c, d \in linked : HashFn[keys[c]] = HashFn[keys[d]] => c = d
    PROVE  /\ \A c \in linked : HashFn[keys[c]] = h => Dict(linked, keys)[h] = keys[c]
           /\ (\A c \in linked : HashFn[keys[c]] # h) => Dict(linked, keys)[h] = NULL
<1>1. Dict(linked, keys)[h] = KeyOf(Holding(linked, keys, h), keys)
    BY DEF Dict
<1>2. ASSUME NEW c \in linked, HashFn[keys[c]] = h PROVE Dict(linked, keys)[h] = keys[c]
  <2>1. Holding(linked, keys, h) = {c}
    BY <1>2 DEF Holding
  <2> QED BY <1>1, <2>1 DEF KeyOf
<1>3. ASSUME \A c \in linked : HashFn[keys[c]] # h PROVE Dict(linked, keys)[h] = NULL
    BY <1>1, <1>3 DEF Holding, KeyOf
<1> QED BY <1>2, <1>3

LEMMA DictSame ==
    ASSUME SameKeys
    PROVE  Contents' = Contents
<1>1. ASSUME NEW h PROVE Holding(Linked, key', h) = Holding(Linked, key, h)
    BY DEF SameKeys, Holding
<1>2. ASSUME NEW S, S \subseteq Linked PROVE KeyOf(S, key') = KeyOf(S, key)
  <2>1. CASE S = {}
    BY <2>1 DEF KeyOf
  <2>2. CASE S # {}
    <3>1. (CHOOSE c \in S : TRUE) \in S
        BY <2>2
    <3> QED BY <1>2, <3>1 DEF KeyOf, SameKeys
  <2> QED BY <2>1, <2>2
<1>3. ASSUME NEW h PROVE KeyOf(Holding(Linked, key', h), key') = KeyOf(Holding(Linked, key, h), key)
  <2>1. Holding(Linked, key, h) \subseteq Linked
    BY DEF Holding
  <2> QED BY <1>1, <1>2, <2>1
<1>4. Dict(Linked, key') = Dict(Linked, key)
    BY <1>3 DEF Dict
<1> QED BY <1>4, ContentsAre DEF SameKeys

LEMMA HashIn == \A k \in Keys : HashFn[k] \in Hashes
BY DEF Hashes

LEMMA UniqueKeys ==
    ASSUME KeyInv
    PROVE  \A c, d \in Linked : HashFn[key[c]] = HashFn[key[d]] => c = d
BY DEF KeyInv, hash

\* The publication adds the pending key.
LEMMA PublishMap ==
    ASSUME TableInv, TableInv', InsertPublish
    PROVE  Contents' = [Contents EXCEPT ![HashFn[arg["dev"]]] = arg["dev"]]
<1> DEFINE k == arg["dev"]
<1>1. Linked = Old /\ Linked' = Old \cup {hand} /\ key' = key /\ key[hand] = k /\ k \in Keys
    BY PublishEffect, PublishChains
<1>2. \A c, d \in Linked : HashFn[key[c]] = HashFn[key[d]] => c = d
    BY UniqueKeys DEF TableInv
<1>3. \A c, d \in Linked' : HashFn[key[c]] = HashFn[key[d]] => c = d
    BY <1>1 DEF TableInv, KeyInv, hash
<1>4. ASSUME NEW h \in Hashes
      PROVE  Dict(Linked', key)[h] = IF h = HashFn[k] THEN k ELSE Dict(Linked, key)[h]
  <2>1. CASE h = HashFn[k]
    BY <1>1, <1>3, <2>1, DictIs
  <2>2. CASE h # HashFn[k] /\ \E c \in Linked : HashFn[key[c]] = h
    BY <1>1, <1>2, <1>3, <2>2, DictIs
  <2>3. CASE h # HashFn[k] /\ \A c \in Linked : HashFn[key[c]] # h
    <3>1. \A c \in Linked' : HashFn[key[c]] # h
        BY <1>1, <2>3
    <3>2. Dict(Linked, key)[h] = NULL /\ Dict(Linked', key)[h] = NULL
        BY <1>2, <1>3, <2>3, <3>1, DictIs
    <3> QED BY <2>3, <3>2
  <2> QED BY <2>1, <2>2, <2>3
<1>5. Dict(Linked', key) = [Dict(Linked, key) EXCEPT ![HashFn[k]] = k]
    BY <1>4 DEF Dict
<1> QED BY <1>1, <1>5, ContentsAre

\* The removal takes out the entry with the hash value of the key.
LEMMA RemoveMap ==
    ASSUME TableInv, TableInv', NEW k \in Keys, RemoveUnlink(k)
    PROVE  /\ Contents[HashFn[k]] # NULL
           /\ Contents' = [Contents EXCEPT ![HashFn[k]] = NULL]
<1>1. PICK e : Removed(k, e)
    BY RemoveEffect
<1>2. /\ Linked = Old /\ Linked' = Old \ {e} /\ key' = key /\ e \in Old /\ HashFn[key[e]] = HashFn[k]
      /\ key[e] \in Keys
    BY <1>1, RemoveChains DEF Removed, Matches, hash, TableInv, ChainInv, PlaceInv
<1>3. \A c, d \in Linked : HashFn[key[c]] = HashFn[key[d]] => c = d
    BY UniqueKeys DEF TableInv
<1>4. \A c, d \in Linked' : HashFn[key[c]] = HashFn[key[d]] => c = d
    BY <1>2, <1>3
<1>5. Dict(Linked, key)[HashFn[k]] # NULL
    BY <1>2, <1>3, HashIn, DictIs, CellAssumption
<1>6. ASSUME NEW h \in Hashes
      PROVE  Dict(Linked', key)[h] = IF h = HashFn[k] THEN NULL ELSE Dict(Linked, key)[h]
  <2>1. CASE h = HashFn[k]
    <3>1. \A c \in Linked' : HashFn[key[c]] # h
        BY <1>2, <1>3, <2>1
    <3> QED BY <1>4, <2>1, <3>1, DictIs
  <2>2. CASE h # HashFn[k] /\ \E c \in Linked' : HashFn[key[c]] = h
    BY <1>2, <1>3, <1>4, <2>2, DictIs
  <2>3. CASE h # HashFn[k] /\ \A c \in Linked' : HashFn[key[c]] # h
    <3>1. \A c \in Linked : HashFn[key[c]] # h
        BY <1>2, <2>3
    <3>2. Dict(Linked, key)[h] = NULL /\ Dict(Linked', key)[h] = NULL
        BY <1>3, <1>4, <2>3, <3>1, DictIs
    <3> QED BY <2>3, <3>2
  <2> QED BY <2>1, <2>2, <2>3
<1>7. Dict(Linked', key) = [Dict(Linked, key) EXCEPT ![HashFn[k]] = NULL]
    BY <1>6 DEF Dict
<1> QED BY <1>2, <1>5, <1>7, ContentsAre

MapNext == Map!EndInsert \/ \E k \in Keys : Map!BeginInsert(k) \/ Map!Remove(k)

LEMMA MapStep ==
    ASSUME TableInv, TableInv', [Next]_vars
    PROVE  MapNext \/ UNCHANGED <<Contents, Pending>>
<1> USE ThreadNames DEF TableInv
<1>1. CASE InsertCount \/ ExpandFails
  <2>1. /\ mutex = "free" /\ mutex' = "dev" /\ arg' = arg /\ pc["dev"] = "insert" /\ arg["dev"] \in Keys
        /\ Linked' = Linked /\ key' = key
    BY <1>1, CountChains DEF InsertCount, ExpandFails, ThreadInv
  <2>2. Contents' = Contents
    BY <2>1, DictSame DEF SameKeys
  <2>3. Pending = NULL /\ Pending' = arg["dev"]
    BY <2>1 DEF Pending
  <2>4. \A c \in Linked : HashFn[key[c]] # HashFn[arg["dev"]]
    BY <2>1 DEF KeyInv, IsIn, Matches, hash
  <2>5. Contents[HashFn[arg["dev"]]] = NULL
    BY <2>1, <2>4, UniqueKeys, HashIn, DictIs, ContentsAre
  <2> QED BY <2>1, <2>2, <2>3, <2>5 DEF MapNext, Map!BeginInsert
<1>2. CASE InsertPublish
  <2>1. mutex = "dev" /\ mutex' = "free" /\ arg["dev"] \in Keys
    BY <1>2 DEF InsertPublish, ThreadInv, Inserting
  <2>2. Pending = arg["dev"] /\ Pending' = NULL /\ Pending # NULL
    BY <2>1, CellAssumption DEF Pending
  <2>3. Contents' = [Contents EXCEPT ![HashFn[Pending]] = Pending]
    BY <1>2, <2>2, PublishMap
  <2> QED BY <2>2, <2>3 DEF MapNext, Map!EndInsert
<1>3. CASE InsertOom
  <2>1. mutex = "dev" /\ mutex' = "free" /\ arg["dev"] \in Keys /\ SameKeys
    BY <1>3, ExpandChains DEF InsertOom, ThreadInv, Inserting, SameKeys
  <2>2. Pending' = NULL /\ Pending # NULL /\ Contents' = Contents
    BY <2>1, CellAssumption, DictSame DEF Pending
  <2> QED BY <2>2 DEF MapNext, Map!EndInsert
<1>4. ASSUME NEW k \in Keys, RemoveUnlink(k) PROVE MapNext
  <2>1. mutex = "free" /\ mutex' = "flush"
    BY <1>4 DEF RemoveUnlink
  <2>2. Pending = NULL /\ Pending' = NULL
    BY <2>1 DEF Pending
  <2> QED BY <1>4, <2>2, RemoveMap DEF MapNext, Map!Remove
<1>5. CASE /\ ~InsertPublish /\ \A k \in Keys : ~RemoveUnlink(k)
           /\ Pending' = Pending
    BY <1>5, KeysStay, DictSame
<1>6. ASSUME NEW t \in Searchers, Search(t) PROVE MapNext \/ UNCHANGED <<Contents, Pending>>
  <2>1. SameKeys
    BY <1>6, SearchChains, SearchStill DEF SameKeys
  <2>2. mutex' = mutex /\ (mutex = "dev" => arg'["dev"] = arg["dev"])
    BY <1>6, SearchStill DEF ThreadInv, Inserting, Expanding, Filling
  <2> QED BY <2>1, <2>2, DictSame DEF Pending
<1>7. CASE ExpandUnlink \/ ExpandRelink \/ ExpandFree \/ ExpandSwap \/ ExpandLength \/ InsertAlloc
  <2>1. Pending' = Pending
    BY <1>7 DEF Pending, ExpandUnlink, ExpandRelink, ExpandFree, ExpandSwap, ExpandLength, InsertAlloc
  <2>2. ~InsertPublish /\ \A k \in Keys : ~RemoveUnlink(k)
    BY <1>7 DEF ExpandUnlink, ExpandRelink, ExpandFree, ExpandSwap, ExpandLength, InsertAlloc,
                InsertPublish, RemoveUnlink, Step, ThreadInv, Inserting, Expanding, Filling
  <2> QED BY <1>5, <2>1, <2>2
<1>8. CASE RemoveFree
  <2>1. SameKeys
    BY <1>8, FreeEffect, FreeChains, Basics DEF SameKeys, Freed, ChainInv, HeapInv
  <2>2. mutex = "flush" /\ mutex' = "free"
    BY <1>8 DEF RemoveFree, Step, ThreadInv
  <2> QED BY <2>1, <2>2, DictSame DEF Pending
<1>9. CASE UNCHANGED vars
  <2>1. SameKeys /\ Pending' = Pending
    BY <1>9 DEF vars, SameKeys, Linked, ChainsOf, Chain, InTransit, Pending
  <2> QED BY <2>1, DictSame
<1> QED BY <1>1, <1>2, <1>3, <1>4, <1>6, <1>7, <1>8, <1>9 DEF Next, Inserter, Search

\* The hash table is a map with one key per hash value: insertions, removals
\* and expansions that run entry by entry beside any number of searches change
\* it at one moment each (hash_table.c:68-94, 120-154 and 177-210, without the
\* expansion in place of lines 96-119).
THEOREM TableIsMap == Spec => ImplementsMap
<1>1. Init => Map!Empty
  <2> SUFFICES ASSUME Init PROVE Map!Empty
    OBVIOUS
  <2>1. Linked = {} /\ mutex = "free"
    BY ChainInit DEF Init
  <2>2. ASSUME NEW h PROVE KeyOf(Holding({}, key, h), key) = NULL
    BY DEF KeyOf, Holding
  <2>3. Contents = [h \in Hashes |-> NULL]
    BY <2>1, <2>2, ContentsAre DEF Dict
  <2>4. Pending = NULL
    BY <2>1 DEF Pending
  <2> QED BY <2>3, <2>4 DEF Map!Empty
<1>2. Inv /\ Inv' /\ [Next]_vars => [MapNext]_<<Contents, Pending>>
    BY MapStep DEF Inv
<1>3. Spec => Map!Empty /\ [][MapNext]_<<Contents, Pending>>
    BY <1>1, <1>2, Always, PTL DEF Spec
<1> QED BY <1>3 DEF ImplementsMap, Map!MapSpec, MapNext
=============================================================================
