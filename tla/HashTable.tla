------------------------------ MODULE HashTable ------------------------------
(***************************************************************************)
(* The chained hash table of project/msc100/src/device_manage/             *)
(* hash_table.c, as dev_param.c uses it: the gateway thread looks an id up *)
(* and inserts it if it is new, the flush thread removes ids, and Visitors *)
(* only look ids up.  Insertions and removals hold the mutex of dev_param, *)
(* searches do not.  The one visitor the code has is the client thread     *)
(* (clt_mgr.c:540 and 624); the two commands that lead there are commented *)
(* out of json_handle_tbl, so in today's build Visitors is empty, and the  *)
(* properties are stated for any set of them.                              *)
(*                                                                         *)
(* Memory is modelled at the level of entries: a cell is a struct entry,   *)
(* next its link.  The stores of an operation that a concurrent search can *)
(* tell apart are actions of their own, in the order of the code.  A       *)
(* search that reads a freed entry or a freed bucket array is undefined    *)
(* behaviour: the model stops there (wild = TRUE) and claims nothing.      *)
(***************************************************************************)
EXTENDS Naturals, Sequences, FiniteSets, FiniteSetsExt

CONSTANTS Keys,
          HashFn,     \* what hash() computes for each key: any function
          primes,     \* the table lengths
          minsize,    \* the argument of create_hashtable
          Cells,      \* the entries that malloc can return
          Visitors,   \* threads that only search
          NULL

ASSUME HashAssumption == HashFn \in [Keys -> Nat]
ASSUME PrimesAssumption ==
    /\ primes \in Seq(Nat \ {0}) /\ \A i, j \in DOMAIN primes : i < j => primes[i] < primes[j]
    /\ \E i \in DOMAIN primes : primes[i] > minsize
ASSUME CellAssumption == NULL \notin Cells \cup Keys /\ IsFiniteSet(Cells)
ASSUME VisitorAssumption == Visitors \cap {"dev", "flush"} = {}

VARIABLES table, tableFreed, newtable,       \* h->table, and the one being filled
          tablelength, primeindex, entrycount, loadlimit,
          key, next, used,                   \* the entries
          mutex,
          pc, arg, at, idx,                  \* per thread: operation and its locals
          hand,                              \* the entry an insertion or expansion works on
          always, never, calm, lost,         \* per searcher: see below
          wild

sizeVars == <<tablelength, primeindex, loadlimit>>
searchVars == <<at, idx, always, never, lost>>
vars == <<table, tableFreed, newtable, sizeVars, entrycount, key, next, used, mutex, pc, arg,
          hand, searchVars, calm, wild>>

Searchers == {"dev"} \cup Visitors
Threads == Searchers \cup {"flush"}
Hashes == {HashFn[k] : k \in Keys}

hash(k) == HashFn[k]
indexFor(length, h) == h % length

\* (unsigned int) ceil(size * 0.65)
LoadLimit(size) == (size * 65 + 99) \div 100

NewArray(length) == [i \in 0 .. length - 1 |-> NULL]

\* create_hashtable: the first prime above minsize.
Init ==
    /\ primeindex = Min({i \in DOMAIN primes : primes[i] > minsize})
    /\ tablelength = primes[primeindex] /\ loadlimit = LoadLimit(tablelength)
    /\ table = NewArray(tablelength) /\ tableFreed = FALSE /\ newtable = NewArray(0)
    /\ entrycount = 0
    /\ key = [c \in Cells |-> NULL] /\ next = [c \in Cells |-> NULL] /\ used = {}
    /\ mutex = "free"
    /\ pc = [t \in Threads |-> "idle"] /\ arg = [t \in Threads |-> NULL]
    /\ at = [t \in Searchers |-> NULL] /\ idx = [t \in Searchers |-> 0]
    /\ hand = NULL
    /\ always = [t \in Searchers |-> FALSE] /\ never = [t \in Searchers |-> FALSE]
    /\ calm = [t \in Searchers |-> TRUE] /\ lost = [t \in Searchers |-> FALSE]
    /\ wild = FALSE

-----------------------------------------------------------------------------
(* Chains, and what is in the table.                                       *)

Closed(links, S) == \A c \in S : links[c] \in S \cup {NULL}

\* The entries that are reached from entry c: the least set with c that holds
\* whatever its members link to.
Reach(links, c) ==
    IF c = NULL THEN {}
    ELSE {d \in Cells : \A S \in SUBSET Cells : c \in S /\ Closed(links, S) => d \in S}

Chain(c) == Reach(next, c)

ChainsOf(array) == UNION {Chain(array[i]) : i \in DOMAIN array}

\* The entry that hashtable_expand has taken out of the old table and not yet
\* put into the new one.
InTransit == IF pc["dev"] = "relink" THEN {hand} ELSE {}

Linked == ChainsOf(table) \cup ChainsOf(newtable) \cup InTransit

Matches(c, k) == hash(key[c]) = hash(k)

\* Some entry with the hash value of k is in the table.
IsIn(k) == \E c \in Linked : Matches(c, k)

-----------------------------------------------------------------------------
(***************************************************************************)
(* hashtable_search, without the mutex.  always and never record whether   *)
(* an entry for the key has been in the table ever since the search began, *)
(* or never; calm that no expansion has run in that time; lost that the    *)
(* entry the search stands on has been freed.                              *)
(***************************************************************************)
Searching(t) == pc[t] \in {"slot", "walk"}

SearchBegin(t) ==
    /\ pc[t] = "idle"
    /\ \E k \in Keys :
          /\ arg' = [arg EXCEPT ![t] = k]
          /\ idx' = [idx EXCEPT ![t] = indexFor(tablelength, hash(k))]
          /\ always' = [always EXCEPT ![t] = IsIn(k)]
          /\ never' = [never EXCEPT ![t] = ~IsIn(k)]
    /\ calm' = [calm EXCEPT ![t] = pc["dev"] \notin {"unlink", "relink", "swap", "length"}]
    /\ lost' = [lost EXCEPT ![t] = FALSE]
    /\ pc' = [pc EXCEPT ![t] = "slot"]
    /\ UNCHANGED <<table, tableFreed, newtable, sizeVars, entrycount, key, next, used, mutex,
                   at, hand, wild>>

\* e = h->table[index]
SearchSlot(t) ==
    /\ pc[t] = "slot" /\ ~tableFreed
    /\ at' = [at EXCEPT ![t] = table[idx[t]]]
    /\ pc' = [pc EXCEPT ![t] = "walk"]
    /\ UNCHANGED <<table, tableFreed, newtable, sizeVars, entrycount, key, next, used, mutex,
                   arg, idx, hand, always, never, calm, lost, wild>>

\* One round of the loop: return e->v, return NULL, or go to e->next.
SearchWalk(t) ==
    /\ pc[t] = "walk" /\ ~lost[t]
    /\ IF at[t] = NULL \/ Matches(at[t], arg[t])
       THEN pc' = [pc EXCEPT ![t] = "result"] /\ UNCHANGED at
       ELSE at' = [at EXCEPT ![t] = next[at[t]]] /\ UNCHANGED pc
    /\ UNCHANGED <<table, tableFreed, newtable, sizeVars, entrycount, key, next, used, mutex,
                   arg, idx, hand, always, never, calm, lost, wild>>

\* The search reads an array or an entry that has been freed.
SearchFreed(t) ==
    /\ (pc[t] = "slot" /\ tableFreed) \/ (pc[t] = "walk" /\ lost[t])
    /\ wild' = TRUE
    /\ UNCHANGED <<table, tableFreed, newtable, sizeVars, entrycount, key, next, used, mutex, pc,
                   arg, hand, searchVars, calm>>

\* The caller has the result.  The gateway thread registers an unknown id.
SearchEnd(t) ==
    /\ pc[t] = "result"
    /\ pc' = [pc EXCEPT ![t] = IF t = "dev" /\ at[t] = NULL THEN "insert" ELSE "idle"]
    /\ at' = [at EXCEPT ![t] = NULL] /\ idx' = [idx EXCEPT ![t] = 0]
    /\ always' = [always EXCEPT ![t] = FALSE] /\ never' = [never EXCEPT ![t] = FALSE]
    /\ calm' = [calm EXCEPT ![t] = TRUE] /\ lost' = [lost EXCEPT ![t] = FALSE]
    /\ arg' = [arg EXCEPT ![t] = IF pc'[t] = "insert" THEN @ ELSE NULL]
    /\ UNCHANGED <<table, tableFreed, newtable, sizeVars, entrycount, key, next, used, mutex,
                   hand, wild>>

-----------------------------------------------------------------------------
(* hashtable_insert and hashtable_expand, by the gateway thread.           *)

Step(t, from, to) == pc[t] = from /\ pc' = [pc EXCEPT ![t] = to]

MustExpand == entrycount + 1 > loadlimit /\ primeindex < Len(primes)

\* The mutex is taken, the entry counted, and the new array allocated.
InsertCount ==
    /\ pc["dev"] = "insert" /\ mutex = "free" /\ mutex' = "dev"
    /\ entrycount' = entrycount + 1
    /\ IF MustExpand
       THEN /\ primeindex' = primeindex + 1
            /\ newtable' = NewArray(primes[primeindex + 1])
            /\ calm' = [t \in Searchers |-> calm[t] /\ ~Searching(t)]
            /\ pc' = [pc EXCEPT !["dev"] = "unlink"]
       ELSE /\ pc' = [pc EXCEPT !["dev"] = "alloc"]
            /\ UNCHANGED <<primeindex, newtable, calm>>
    /\ UNCHANGED <<table, tableFreed, tablelength, loadlimit, key, next, used, arg, hand,
                   searchVars, wild>>

\* No memory for a larger array, neither by malloc nor by realloc: the entry
\* goes into the table as it is.  A realloc that succeeds where malloc failed
\* (Plan B) starts with a memset at an address read from memory that was never
\* written (line 103): it is not modelled.
ExpandFails ==
    /\ pc["dev"] = "insert" /\ mutex = "free" /\ mutex' = "dev"
    /\ MustExpand
    /\ entrycount' = entrycount + 1
    /\ pc' = [pc EXCEPT !["dev"] = "alloc"]
    /\ UNCHANGED <<table, tableFreed, newtable, sizeVars, key, next, used, arg, hand,
                   searchVars, calm, wild>>

FullBuckets == {i \in DOMAIN table : table[i] # NULL}

DropChain(i) == NULL

BucketAfterTake(i) == next[table[i]]

\* h->table[i] = e->next
ExpandUnlink ==
    /\ Step("dev", "unlink", "relink")
    /\ FullBuckets # {}
    /\ LET i == Min(FullBuckets) IN
          /\ hand' = table[i]
          /\ table' = [table EXCEPT ![i] = BucketAfterTake(i)]
    /\ UNCHANGED <<tableFreed, newtable, sizeVars, entrycount, key, next, used, mutex, arg,
                   searchVars, calm, wild>>

RehashOld(c) == indexFor(tablelength, hash(key[c]))

Rehash(c) == indexFor(Cardinality(DOMAIN newtable), hash(key[c]))

\* e->next = newtable[index]; newtable[index] = e
ExpandRelink ==
    /\ Step("dev", "relink", "unlink")
    /\ LET i == Rehash(hand) IN
          /\ next' = [next EXCEPT ![hand] = newtable[i]]
          /\ newtable' = [newtable EXCEPT ![i] = hand]
    /\ hand' = NULL
    /\ UNCHANGED <<table, tableFreed, sizeVars, entrycount, key, used, mutex, arg, searchVars,
                   calm, wild>>

\* free(h->table)
ExpandFree ==
    /\ Step("dev", "unlink", "swap")
    /\ FullBuckets = {}
    /\ tableFreed' = TRUE
    /\ UNCHANGED <<table, newtable, sizeVars, entrycount, key, next, used, mutex, arg, hand,
                   searchVars, calm, wild>>

\* h->table = newtable
ExpandSwap ==
    /\ Step("dev", "swap", "length")
    /\ table' = newtable /\ newtable' = NewArray(0) /\ tableFreed' = FALSE
    /\ UNCHANGED <<sizeVars, entrycount, key, next, used, mutex, arg, hand, searchVars, calm, wild>>

\* h->tablelength and h->loadlimit
ExpandLength ==
    /\ Step("dev", "length", "alloc")
    /\ tablelength' = primes[primeindex] /\ loadlimit' = LoadLimit(tablelength')
    /\ UNCHANGED <<table, tableFreed, newtable, primeindex, entrycount, key, next, used, mutex,
                   arg, hand, searchVars, calm, wild>>

Bucket(k) == indexFor(tablelength, hash(k))

\* The new entry points to the head of its chain.
InsertAlloc ==
    /\ Step("dev", "alloc", "publish")
    /\ \E c \in Cells \ used :
          /\ used' = used \cup {c} /\ hand' = c
          /\ key' = [key EXCEPT ![c] = arg["dev"]]
          /\ next' = [next EXCEPT ![c] = table[Bucket(arg["dev"])]]
    /\ UNCHANGED <<table, tableFreed, newtable, sizeVars, entrycount, mutex, arg, searchVars,
                   calm, wild>>

CountKept == entrycount

CountAfterOom == entrycount - 1

InsertOom ==
    /\ pc["dev"] = "alloc"
    /\ entrycount' = CountAfterOom
    /\ mutex' = "free"
    /\ pc' = [pc EXCEPT !["dev"] = "idle"] /\ arg' = [arg EXCEPT !["dev"] = NULL]
    /\ UNCHANGED <<table, tableFreed, newtable, sizeVars, key, next, used, hand, searchVars,
                   calm, wild>>

\* h->table[index] = e, and the mutex is released.
InsertPublish ==
    /\ pc["dev"] = "publish"
    /\ table' = [table EXCEPT ![Bucket(arg["dev"])] = hand]
    /\ never' = [t \in Searchers |->
                    never[t] /\ ~(Searching(t) /\ hash(arg[t]) = hash(arg["dev"]))]
    /\ hand' = NULL /\ mutex' = "free"
    /\ pc' = [pc EXCEPT !["dev"] = "idle"] /\ arg' = [arg EXCEPT !["dev"] = NULL]
    /\ UNCHANGED <<tableFreed, newtable, sizeVars, entrycount, key, next, used, at, idx, always,
                   calm, lost, wild>>

Inserter ==
    \/ InsertCount \/ ExpandFails \/ ExpandUnlink \/ ExpandRelink \/ ExpandFree \/ ExpandSwap
    \/ ExpandLength \/ InsertAlloc \/ InsertOom \/ InsertPublish

-----------------------------------------------------------------------------
(* hashtable_remove, by the flush thread with the mutex held.              *)

\* The first entry of k's chain that matches k, NULL if none does.
Victim(k) ==
    LET hits == {c \in Chain(table[Bucket(k)]) : Matches(c, k)}
    IN  IF hits = {} THEN NULL ELSE CHOOSE c \in hits : hits \subseteq Chain(c)

LinksCleared(b, e) ==
    [c \in Cells |-> IF c = e THEN NULL ELSE IF c \in Chain(table[b]) /\ next[c] = e THEN next[e] ELSE next[c]]

\* The entry before e skips it; e itself keeps its link.
LinksWithout(b, e) ==
    [c \in Cells |-> IF c \in Chain(table[b]) /\ next[c] = e THEN next[e] ELSE next[c]]

\* *pE = e->next, where pE is the bucket or the link of the entry before.
RemoveUnlink(k) ==
    /\ Step("flush", "idle", "free")
    /\ mutex = "free" /\ mutex' = "flush"
    /\ LET e == Victim(k)
           b == Bucket(k)
       IN  /\ e # NULL
           /\ hand' = e
           /\ table' = [table EXCEPT ![b] = IF @ = e THEN next[e] ELSE @]
           /\ next' = LinksWithout(b, e)
    /\ always' = [t \in Searchers |-> always[t] /\ ~(Searching(t) /\ hash(arg[t]) = hash(k))]
    /\ UNCHANGED <<tableFreed, newtable, sizeVars, entrycount, key, used, arg, at, idx, never,
                   calm, lost, wild>>

\* entrycount--, free(e), and the mutex is released.
RemoveFree ==
    /\ Step("flush", "free", "idle")
    /\ entrycount' = entrycount - 1
    /\ used' = used \ {hand} /\ key' = [key EXCEPT ![hand] = NULL] /\ next' = [next EXCEPT ![hand] = NULL]
    /\ lost' = [t \in Searchers |-> lost[t] \/ (pc[t] = "walk" /\ at[t] = hand)]
    /\ hand' = NULL /\ mutex' = "free"
    /\ UNCHANGED <<table, tableFreed, newtable, sizeVars, arg, at, idx, always, never, calm, wild>>

Next ==
    /\ ~wild
    /\ \/ \E t \in Searchers : SearchBegin(t) \/ SearchSlot(t) \/ SearchWalk(t) \/ SearchFreed(t)
                              \/ SearchEnd(t)
       \/ Inserter
       \/ (\E k \in Keys : RemoveUnlink(k)) \/ RemoveFree

Spec == Init /\ [][Next]_vars

-----------------------------------------------------------------------------
(* Properties                                                              *)

Lengths == {primes[i] : i \in DOMAIN primes}

\* Type invariant of the table, its entries and the three threads.
TypeOK ==
    /\ table \in UNION {[0 .. n - 1 -> Cells \cup {NULL}] : n \in Lengths}
    /\ newtable \in UNION {[0 .. n - 1 -> Cells \cup {NULL}] : n \in Lengths \cup {0}}
    /\ tablelength \in Lengths /\ primeindex \in DOMAIN primes
    /\ loadlimit = LoadLimit(tablelength) /\ entrycount \in 0 .. Cardinality(Cells) + 1
    /\ used \subseteq Cells /\ key \in [Cells -> Keys \cup {NULL}]
    /\ next \in [Cells -> Cells \cup {NULL}]
    /\ mutex \in {"free", "dev", "flush"} /\ hand \in Cells \cup {NULL}
    /\ arg \in [Threads -> Keys \cup {NULL}] /\ at \in [Searchers -> Cells \cup {NULL}]

\* While nobody changes the table every entry is allocated, counted once and
\* in the bucket of its hash value, and no two entries share a hash value
\* (hash_table.c:137-153 and 189-201).
BucketsInOrder ==
    mutex = "free" =>
        /\ used = ChainsOf(table) /\ entrycount = Cardinality(used)
        /\ \A i \in DOMAIN table : \A c \in Chain(table[i]) : Bucket(key[c]) = i
        /\ \A c, d \in used : hash(key[c]) = hash(key[d]) => c = d

\* The table as a map from hash values to keys.
Contents ==
    LET linked == Linked
        With(h) == {c \in linked : hash(key[c]) = h}
    IN  [h \in Hashes |-> IF With(h) = {} THEN NULL ELSE key[CHOOSE c \in With(h) : TRUE]]

Pending == IF mutex = "dev" THEN arg["dev"] ELSE NULL

Map == INSTANCE HashMap WITH dict <- Contents, pending <- Pending, NoKey <- NULL

\* The table implements a map: an insertion adds its key and nothing else, a
\* removal takes out the entry with the hash of its key and nothing else, and
\* an expansion changes nothing, whether it succeeds, by a new array, or fails
\* (hash_table.c:68-94 and 120-122, 132-154 and 177-210; Plan B, the expansion
\* in place of lines 96-119, is not modelled).
ImplementsMap == Map!MapSpec

\* A search that runs without the mutex beside insertions and removals, but
\* not beside an expansion, finds a key that was in the table all the time
\* and does not find one that never was (hash_table.c:157-172 against 151-152
\* and 196).
SearchIsRight ==
    \A t \in Searchers :
        (pc[t] = "result" /\ calm[t]) => /\ always[t] => at[t] # NULL
                                         /\ never[t] => at[t] = NULL
=============================================================================
