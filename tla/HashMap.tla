------------------------------ MODULE HashMap -------------------------------
(***************************************************************************)
(* deepx_core::HashMap, the table under every SparseRowMatrix: open        *)
(* addressing, linear probing, erased slots marked and not emptied.        *)
(*                                                                         *)
(* A call is one action; a call whose probe finds neither its key nor an   *)
(* empty slot never returns, and is the last thing the map does.  Iterator *)
(* loops are modelled by remove_if, the one the program uses.              *)
(***************************************************************************)
EXTENDS Naturals, FiniteSets, Functions, FiniteSetsExt

CONSTANTS Key, Val, NoVal, NoKey,
          Hash,         \* key_hash_
          MinBucket,    \* HASH_MAP_MIN_BUCKET_SIZE, a power of 2
          MaxSize       \* bound: entries

\* What the constants may be.
HashMapConstants ==
  /\ Hash \in [Key -> Nat]
  /\ NoKey \notin Key /\ NoVal \notin Val
  /\ MinBucket \in Nat \ {0, 1} /\ MaxSize \in Nat

VARIABLES meta,              \* a flag per slot
          bucket,            \* the key and the value in each slot, used, erased or new
          size,              \* size_
          rehash_threshold,  \* rehash_threshold_
          reply,             \* what the last call returned
          stuck,             \* a call probes for ever
          filled             \* history: entries added since the last rehash, reserve or
                             \* clear, counted up to the number of slots

table == <<meta, bucket, size, rehash_threshold>>
hashVars == <<table, reply, stuck, filled>>

Vacant == [key |-> NoKey, val |-> NoVal]
BucketSize == Cardinality(DOMAIN meta)
Used == {i \in DOMAIN meta : meta[i] = "used"}

Pow2[e \in Nat] == IF e = 0 THEN 1 ELSE 2 * Pow2[e - 1]

\* RoundUpPow2 of twice the size, at least MinBucket.
NextSize(n) == Max({MinBucket, Min({p \in {Pow2[e] : e \in 0..(2 * n)} : p >= 2 * n})})

\* Mutant: the table is never too full.
ThresholdFull(n) == n + 1

\* n / 1.5
Threshold(n) == (2 * n) \div 3

HashInit ==
  /\ meta = [i \in {} |-> "empty"] /\ bucket = [i \in {} |-> Vacant]
  /\ size = 0 /\ rehash_threshold = 0
  /\ reply = NoVal /\ stuck = FALSE /\ filled = 0

-----------------------------------------------------------------------------
(* Probing. *)

\* The j-th slot looked at for k in a table of n slots.
Probe(k, j, n) == (Hash[k] + j) % n

\* What ends a probe: the key or an empty slot, but not an erased one.
Stops(m, b, k, i) == m[i] = "empty" \/ (m[i] = "used" /\ b[i].key = k)

Ends(m, b, k) == \E i \in DOMAIN m : Stops(m, b, k, i)

\* find_used_slot, if it returns: the slot it stops at, used or not.
Stop(m, b, k) ==
  LET n == Cardinality(DOMAIN m)
      j == Min({j \in 0..(n - 1) : Stops(m, b, k, Probe(k, j, n))})
  IN Probe(k, j, n)

\* find_slot: for a new key the first erased slot on the way, if there is one.
Slot(m, b, k) ==
  LET n == Cardinality(DOMAIN m)
      last == Stop(m, b, k)
      upto == Min({j \in 0..(n - 1) : Probe(k, j, n) = last})
      erased == {j \in 0..upto : m[Probe(k, j, n)] = "deleted"}
  IN IF m[last] = "used" \/ erased = {} THEN last ELSE Probe(k, Min(erased), n)

\* The table t, flags and entries, with what slot i of the old table holds.
Inserted(t, i) ==
  LET s == Slot(t[1], t[2], bucket[i].key)
  IN IF i \in Used THEN <<[t[1] EXCEPT ![s] = "used"], [t[2] EXCEPT ![s] = bucket[i]]>> ELSE t

\* do_rehash: the used slots, in the order of the old table, in n new ones.
Rehashed(n) ==
  LET T[i \in 0..BucketSize] ==
        IF i = 0 THEN <<[s \in 0..(n - 1) |-> "empty"], [s \in 0..(n - 1) |-> Vacant]>>
                 ELSE Inserted(T[i - 1], i - 1)
  IN T[BucketSize]

-----------------------------------------------------------------------------
(* Calls. *)

Hangs ==
  /\ stuck' = TRUE
  /\ UNCHANGED <<table, reply, filled>>

\* find, count, at
Find(k) ==
  IF meta = <<>> THEN reply' = NoVal /\ UNCHANGED <<table, stuck, filled>>
  ELSE IF ~Ends(meta, bucket, k) THEN Hangs
  ELSE /\ LET s == Stop(meta, bucket, k)
          IN reply' = IF meta[s] = "used" THEN bucket[s].val ELSE NoVal
       /\ UNCHANGED <<table, stuck, filled>>

\* rehash_for_emplace, then find_slot: emplace keeps a value that is there,
\* operator[] followed by an assignment does not.
Put(k, v, keep) ==
  LET full == size >= rehash_threshold
      new == IF full THEN Rehashed(NextSize(size + 1)) ELSE <<meta, bucket>>
      m == new[1]
      b == new[2]
      s == Slot(m, b, k)
      found == m[s] = "used"
  IN
  IF ~Ends(m, b, k) THEN Hangs
  ELSE
  /\ found \/ size < MaxSize
  /\ meta' = [m EXCEPT ![s] = "used"]
  /\ bucket' = [b EXCEPT ![s] = [key |-> k, val |-> IF found /\ keep THEN @.val ELSE v]]
  /\ reply' = IF found THEN b[s].val ELSE NoVal
  /\ size' = IF found THEN size ELSE size + 1
  /\ rehash_threshold' = IF full THEN Threshold(Cardinality(DOMAIN m)) ELSE rehash_threshold
  /\ filled' = IF found THEN IF full THEN size ELSE filled
                ELSE Min({IF full THEN size + 1 ELSE filled + 1, Cardinality(DOMAIN m)})
  /\ UNCHANGED stuck

\* Mutant: erase empties the slot.
ErasedFlagEmpty == "empty"

ErasedFlag == "deleted"

\* remove_if: erase at each entry whose key is in S.  The slot is marked, and
\* keeps what it held.
RemoveIf(S) ==
  LET gone == {i \in Used : bucket[i].key \in S} IN
  /\ gone # {}
  /\ meta' = [i \in DOMAIN meta |-> IF i \in gone THEN ErasedFlag ELSE meta[i]]
  /\ size' = size - Cardinality(gone)
  /\ UNCHANGED <<bucket, rehash_threshold, reply, stuck, filled>>

\* clear: the slots and what they held stay, and the next emplace rehashes, to
\* MinBucket.
Clear ==
  /\ meta' = [i \in DOMAIN meta |-> "empty"]
  /\ size' = 0 /\ rehash_threshold' = 0 /\ filled' = 0
  /\ UNCHANGED <<bucket, reply, stuck>>

\* reserve, rehash: the table only grows.
Reserve(n) ==
  /\ NextSize(n) > BucketSize
  /\ meta' = Rehashed(NextSize(n))[1] /\ bucket' = Rehashed(NextSize(n))[2]
  /\ rehash_threshold' = Threshold(NextSize(n))
  /\ filled' = size
  /\ UNCHANGED <<size, reply, stuck>>

Call ==
  \/ \E k \in Key : Find(k) \/ \E v \in Val, keep \in BOOLEAN : Put(k, v, keep)
  \/ \E S \in SUBSET Key : RemoveIf(S)
  \/ Clear
  \/ \E n \in 0..MaxSize : Reserve(n)

HashNext == ~stuck /\ Call

HashSpec == HashInit /\ [][HashNext]_hashVars

-----------------------------------------------------------------------------
(* Properties. *)

Content == [k \in {bucket[i].key : i \in Used} |->
              bucket[CHOOSE i \in Used : bucket[i].key = k].val]

\* Every call answers as a map would, whatever was erased, marked, moved by a
\* rehash or probed past before: no key is found in two slots, none is lost
\* behind a slot that was freed, no erased entry comes back.
Map == INSTANCE PartialMap WITH map <- Content
MapSpec == Map!Spec

\* A lookup can only fail to end when erased entries are to blame: their marks
\* take up a third of the slots, and as many entries have come since the last
\* rehash or clear as there are slots.
LookupsEnd ==
  stuck => /\ 3 * Cardinality({i \in DOMAIN meta : meta[i] = "deleted"}) >= BucketSize
           /\ filled = BucketSize

\* Every lookup returns: find of a key that is not there is end().
EveryLookupEnds == ~stuck
=============================================================================
