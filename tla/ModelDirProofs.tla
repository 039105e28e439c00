--------------------------- MODULE ModelDirProofs ---------------------------
(***************************************************************************)
(* Proofs about ModelDir for any directories and feature ids, any number   *)
(* of shards of any job, any thresholds, and any number of jobs, warm-ups  *)
(* and saves that are cut off in any number of shards.                     *)
(***************************************************************************)
EXTENDS ModelDir, TLAPS

Kinds == {"model", "optimizer", "ts", "freq"}

JobType == [size : 1..MaxShard, in : Dir \cup {NoDir}, warm : Dir \cup {NoDir}, out : Dir,
            stores : BOOLEAN, clean : BOOLEAN, warmed : BOOLEAN]

IsFn(f) == f = [x \in DOMAIN f |-> f[x]]

\* The rows whose optimizer row is theirs: those that are not removed as zeros.
Paired == FeatureId \ (IF RemoveZeros THEN ZeroId ELSE {})

\* The four maps of a shard, or of a save, belong together.
Together(s, stores, warmed) ==
  /\ \A k \in Kinds : IsFn(s[k]) /\ DOMAIN s[k] \subseteq FeatureId
  /\ \A x \in Paired :
       /\ x \in DOMAIN s.model <=> x \in DOMAIN s.optimizer
       /\ x \in DOMAIN s.model => s.model[x] = s.optimizer[x]
  /\ stores => DOMAIN s.model \subseteq DOMAIN s.ts /\ DOMAIN s.model \subseteq DOMAIN s.freq
  /\ stores /\ ~warmed => \A x \in DOMAIN s.model : s.freq[x] = "many"

\* Each file that can be read is its shard's part of the save, and a complete
\* save has them all.
Holds(d) ==
  LET o == origin[d]
      m == dir[d].size
  IN /\ o.stores \in BOOLEAN /\ o.warmed \in BOOLEAN
     /\ Together(o, o.stores, o.warmed)
     /\ \A k \in Kinds, i \in 0..(m - 1) : dir[d][k][i].ok =>
          /\ dir[d][k][i].data = Only(o[k], Own(i, m))
          /\ k \in {"ts", "freq"} => o.stores
     /\ o.what = "complete" =>
          /\ m > 0
          /\ \A i \in 0..(m - 1) :
               /\ dir[d].model[i].ok /\ dir[d].optimizer[i].ok
               /\ o.stores => dir[d].ts[i].ok /\ dir[d].freq[i].ok

DirAt(d) ==
  /\ dir[d].size \in 0..MaxShard
  /\ origin[d] = Nothing =>
       dir[d].size = 0 /\ \A k \in Kinds, i \in Shards : ~dir[d][k][i].ok
  /\ OneSave(d) => Holds(d)

DirInv == \A d \in Dir : DirAt(d)

\* Shard i of n has what belongs together, of its own ids.
Share(s, i, n, stores, warmed) ==
  /\ Together(s, stores, warmed)
  /\ \A k \in Kinds : DOMAIN s[k] \subseteq Own(i, n)

MemInv ==
  job # NoJob =>
    /\ job \in JobType /\ DOMAIN mem = 0..(job.size - 1)
    /\ job.clean => \A i \in 0..(job.size - 1) :
         Share(mem[i], i, job.size, job.stores, job.warmed)

IInv == DOMAIN dir = Dir /\ DOMAIN origin = Dir /\ run \in Nat /\ DirInv /\ MemInv

-----------------------------------------------------------------------------
(* Facts about maps and shares. *)

\* Every id is one shard's.
LEMMA OwnFacts ==
  ASSUME DirConstants, NEW n \in 1..MaxShard
  PROVE  /\ \A i : Own(i, n) \subseteq FeatureId
         /\ \A x \in FeatureId : x % n \in 0..(n - 1) /\ x \in Own(x % n, n)
         /\ \A i : \A x \in Own(i, n) : x % n = i
BY DEF Own, DirConstants

LEMMA SameMap ==
  ASSUME NEW f, NEW g, IsFn(f), IsFn(g), DOMAIN f = DOMAIN g, \A x \in DOMAIN f : f[x] = g[x]
  PROVE  f = g
<1>1. [x \in DOMAIN f |-> f[x]] = [x \in DOMAIN g |-> g[x]]  OBVIOUS
<1> QED  BY <1>1, Zenon DEF IsFn

LEMMA BuiltMap ==
  ASSUME NEW S, NEW F(_), NEW f, f = [x \in S |-> F(x)]
  PROVE  IsFn(f)
BY DEF IsFn

LEMMA OnlyFacts ==
  ASSUME NEW f, NEW S
  PROVE  /\ IsFn(Only(f, S)) /\ DOMAIN Only(f, S) = DOMAIN f \cap S
         /\ \A x \in DOMAIN f \cap S : Only(f, S)[x] = f[x]
BY DEF Only, Restrict, IsFn

LEMMA EmplaceFacts ==
  ASSUME NEW f, NEW g
  PROVE  /\ IsFn(Emplace(f, g)) /\ DOMAIN Emplace(f, g) = DOMAIN f \cup DOMAIN g
         /\ \A x \in DOMAIN f : Emplace(f, g)[x] = f[x]
         /\ \A x \in DOMAIN g \ DOMAIN f : Emplace(f, g)[x] = g[x]
BY DEF Emplace, IsFn

\* A map is made of its shards' parts.
LEMMA UnionFacts ==
  ASSUME DirConstants, NEW n \in 1..MaxShard, NEW f, DOMAIN f \subseteq FeatureId, NEW P,
         \A i \in 0..(n - 1) : P[i] = Only(f, Own(i, n))
  PROVE  /\ \A i \in 0..(n - 1) : \A x \in DOMAIN P[i] : x \in DOMAIN f /\ i = x % n /\ P[i][x] = f[x]
         /\ \A x \in DOMAIN f : x % n \in 0..(n - 1) /\ x \in DOMAIN P[x % n]
<1>1. \A i \in 0..(n - 1) : DOMAIN P[i] = DOMAIN f \cap Own(i, n)
  BY OnlyFacts
<1>2. ASSUME NEW i \in 0..(n - 1), NEW x \in DOMAIN P[i]
      PROVE  x \in DOMAIN f /\ i = x % n /\ P[i][x] = f[x]
  <2>1. x \in DOMAIN f /\ x \in Own(i, n)  BY <1>1
  <2>2. Only(f, Own(i, n))[x] = f[x]  BY <2>1 DEF Only, Restrict
  <2> QED  BY <2>1, <2>2, OwnFacts
<1>3. ASSUME NEW x \in DOMAIN f PROVE x % n \in 0..(n - 1) /\ x \in DOMAIN P[x % n]
  BY <1>1, OwnFacts
<1> QED  BY <1>2, <1>3

-----------------------------------------------------------------------------
(* Loading. *)

LEMMA Smallest == ASSUME NEW a \in Nat PROVE Min({a}) = a
BY DEF Min

\* What shard i of n reads is its part of what was saved, by however many.
LEMMA ReadFacts ==
  ASSUME DirConstants, NEW d \in Dir, Holds(d), dir[d].size \in 1..MaxShard,
         NEW k \in Kinds, NEW n \in 1..MaxShard, NEW i \in 0..(n - 1), Read(d, k, i, n).ok
  PROVE  /\ Read(d, k, i, n).data = Only(origin[d][k], Own(i, n))
         /\ k \in {"ts", "freq"} => origin[d].stores
<1> DEFINE m == dir[d].size
           o == origin[d][k]
           F == dir[d][k]
           P == [j \in 0..(m - 1) |-> F[j].data]
<1>1. \A j \in 0..(m - 1) : F[j].ok =>
        F[j].data = Only(o, Own(j, m)) /\ (k \in {"ts", "freq"} => origin[d].stores)
  BY DEF Holds
<1>2. CASE m = n
  BY <1>1, <1>2 DEF Read
<1>3. CASE m # n
  <2>1. (\A j \in 0..(m - 1) : F[j].ok) /\ Read(d, k, i, n) = Written(Merged(F, m, Own(i, n)))
    BY <1>3 DEF Read, Unreadable
  <2>2. Read(d, k, i, n).data = Merged(F, m, Own(i, n))  BY <2>1 DEF Written
  <2>3. DOMAIN o \subseteq FeatureId  BY DEF Holds, Together
  <2>4. m \in 1..MaxShard  OBVIOUS
  <2>5. \A j \in 0..(m - 1) : P[j] = Only(o, Own(j, m))  BY <1>1, <2>1
  <2>6. \A j \in 0..(m - 1) : P[j] = F[j].data  OBVIOUS
  <2> HIDE DEF P, F, o, m
  <2>7. /\ \A j \in 0..(m - 1) : \A x \in DOMAIN P[j] : x \in DOMAIN o /\ j = x % m /\ P[j][x] = o[x]
        /\ \A x \in DOMAIN o : x % m \in 0..(m - 1) /\ x \in DOMAIN P[x % m]
    BY <2>3, <2>4, <2>5, UnionFacts
  <2>8. UNION {DOMAIN F[j].data : j \in 0..(m - 1)} = DOMAIN o
    <3>1. ASSUME NEW x \in UNION {DOMAIN F[j].data : j \in 0..(m - 1)} PROVE x \in DOMAIN o
      <4>1. PICK j \in 0..(m - 1) : x \in DOMAIN F[j].data  OBVIOUS
      <4> QED  BY <4>1, <2>6, <2>7
    <3>2. ASSUME NEW x \in DOMAIN o PROVE x \in UNION {DOMAIN F[j].data : j \in 0..(m - 1)}
      <4>1. x % m \in 0..(m - 1) /\ x \in DOMAIN F[x % m].data  BY <2>6, <2>7
      <4> QED  BY <4>1
    <3> QED  BY <3>1, <3>2
  <2>9. ASSUME NEW x \in DOMAIN o
        PROVE  F[Min({j \in 0..(m - 1) : x \in DOMAIN F[j].data})].data[x] = o[x]
    <3>1. {j \in 0..(m - 1) : x \in DOMAIN F[j].data} = {x % m}  BY <2>6, <2>7
    <3>2. x % m \in Nat  BY <2>7
    <3>3. Min({x % m}) = x % m  BY <3>2, Smallest
    <3>4. F[x % m].data[x] = o[x]  BY <2>6, <2>7
    <3> QED  BY <3>1, <3>3, <3>4
  <2>10. Merged(F, m, Own(i, n))
           = [x \in Own(i, n) \cap DOMAIN o |->
                F[Min({j \in 0..(m - 1) : x \in DOMAIN F[j].data})].data[x]]
    BY <2>8 DEF Merged
  <2>11. Merged(F, m, Own(i, n)) = [x \in DOMAIN o \cap Own(i, n) |-> o[x]]
    <3>1. Own(i, n) \cap DOMAIN o = DOMAIN o \cap Own(i, n)  OBVIOUS
    <3> QED  BY <2>9, <2>10, <3>1
  <2>12. Merged(F, m, Own(i, n)) = Only(o, Own(i, n))  BY <2>11 DEF Only, Restrict
  <2>13. 0 \in 0..(m - 1)  BY <2>4
  <2>14. k \in {"ts", "freq"} => origin[d].stores  BY <1>1, <2>1, <2>13
  <2> QED  BY <2>2, <2>12, <2>14 DEF o
<1> QED  BY <1>2, <1>3

\* A timestamp or count of a row is the saved one or made up; and if the file is
\* there the store is shard i's part of the saved one.
Stores(s, d, i, n, now) ==
  LET o == origin[d] IN
  /\ \A x \in DOMAIN s.model :
       /\ s.ts[x] = now \/ (o.stores /\ s.ts[x] = o.ts[x])
       /\ s.freq[x] = "many" \/ (o.stores /\ s.freq[x] = o.freq[x])
  /\ Read(d, "ts", i, n).ok => s.ts = Only(o.ts, Own(i, n))
  /\ Read(d, "freq", i, n).ok => s.freq = Only(o.freq, Own(i, n))

\* What a shard of n gets from a directory that one save has filled.
LEMMA LoadFacts ==
  ASSUME DirConstants, DirInv, NEW d \in Dir, OneSave(d), NEW n \in 1..MaxShard, Loadable(d, n),
         NEW i \in 0..(n - 1), NEW stores \in BOOLEAN, NEW now,
         NEW s, s = LoadShard(d, i, n, stores, now)
  PROVE  /\ s.model = Only(origin[d].model, Own(i, n))
         /\ s.optimizer = Only(origin[d].optimizer, Own(i, n))
         /\ Share(s, i, n, stores, origin[d].warmed)
         /\ stores => Stores(s, d, i, n, now)
<1> DEFINE o == origin[d]
<1>1. Holds(d) /\ dir[d].size \in 1..MaxShard
  <2>1. dir[d].size \in 0..MaxShard /\ dir[d].size > 0 /\ Holds(d)  BY DEF DirInv, DirAt, Loadable
  <2> QED  BY <2>1 DEF DirConstants
<1>2. Read(d, "model", i, n).ok /\ Read(d, "optimizer", i, n).ok  BY DEF Loadable
<1>3. /\ s.model = Read(d, "model", i, n).data
      /\ s.optimizer = Read(d, "optimizer", i, n).data
      /\ s.ts = IF stores THEN StoreOr(Read(d, "ts", i, n), s.model, now) ELSE NoMap
      /\ s.freq = IF stores THEN StoreOr(Read(d, "freq", i, n), s.model, "many") ELSE NoMap
      /\ s["model"] = s.model /\ s["optimizer"] = s.optimizer /\ s["ts"] = s.ts /\ s["freq"] = s.freq
  BY DEF LoadShard
<1>4. s.model = Only(o.model, Own(i, n)) /\ s.optimizer = Only(o.optimizer, Own(i, n))
  <2>1. "model" \in Kinds /\ "optimizer" \in Kinds  BY DEF Kinds
  <2> QED  BY <1>1, <1>2, <1>3, <2>1, ReadFacts
<1>5. /\ IsFn(s.model) /\ DOMAIN s.model = DOMAIN o.model \cap Own(i, n)
      /\ \A x \in DOMAIN o.model \cap Own(i, n) : s.model[x] = o.model[x]
      /\ IsFn(s.optimizer) /\ DOMAIN s.optimizer = DOMAIN o.optimizer \cap Own(i, n)
      /\ \A x \in DOMAIN o.optimizer \cap Own(i, n) : s.optimizer[x] = o.optimizer[x]
  BY <1>4 DEF Only, Restrict, IsFn
<1>6. IsFn(NoMap) /\ DOMAIN NoMap = {}  BY DEF IsFn, NoMap
<1>7. ASSUME NEW k \in {"ts", "freq"}, NEW v, NEW f, f = StoreOr(Read(d, k, i, n), s.model, v)
      PROVE  /\ IsFn(f) /\ DOMAIN s.model \subseteq DOMAIN f /\ DOMAIN f \subseteq Own(i, n)
             /\ \A x \in DOMAIN s.model : f[x] = v \/ (o.stores /\ f[x] = o[k][x])
             /\ Read(d, k, i, n).ok => f = Only(o[k], Own(i, n))
  <2>1. CASE Read(d, k, i, n).ok
    <3>1. f = Only(o[k], Own(i, n)) /\ o.stores
      BY <1>1, <1>7, <2>1, ReadFacts DEF StoreOr, Kinds
    <3>2. DOMAIN o.model \subseteq DOMAIN o[k]  BY <1>1, <3>1 DEF Holds, Together
    <3>3. /\ IsFn(f) /\ DOMAIN f = DOMAIN o[k] \cap Own(i, n)
          /\ \A x \in DOMAIN o[k] \cap Own(i, n) : f[x] = o[k][x]
      BY <3>1 DEF Only, Restrict, IsFn
    <3> QED  BY <1>5, <3>1, <3>2, <3>3
  <2>2. CASE ~Read(d, k, i, n).ok
    <3>1. f = [x \in DOMAIN s.model |-> v]  BY <1>7, <2>2 DEF StoreOr
    <3>2. IsFn(f)  BY <3>1 DEF IsFn
    <3> QED  BY <1>5, <2>2, <3>1, <3>2
  <2> QED  BY <2>1, <2>2
<1>8. ASSUME stores
      PROVE  /\ IsFn(s.ts) /\ DOMAIN s.ts \subseteq Own(i, n) /\ DOMAIN s.model \subseteq DOMAIN s.ts
             /\ IsFn(s.freq) /\ DOMAIN s.freq \subseteq Own(i, n) /\ DOMAIN s.model \subseteq DOMAIN s.freq
             /\ Stores(s, d, i, n, now)
  <2>1. /\ s.ts = StoreOr(Read(d, "ts", i, n), s.model, now)
        /\ s.freq = StoreOr(Read(d, "freq", i, n), s.model, "many")
    BY <1>3, <1>8
  <2>2. \A k \in {"ts", "freq"} : \A v, f : f = StoreOr(Read(d, k, i, n), s.model, v) =>
          /\ IsFn(f) /\ DOMAIN s.model \subseteq DOMAIN f /\ DOMAIN f \subseteq Own(i, n)
          /\ \A x \in DOMAIN s.model : f[x] = v \/ (o.stores /\ f[x] = o[k][x])
          /\ Read(d, k, i, n).ok => f = Only(o[k], Own(i, n))
    BY <1>7
  <2>3. /\ IsFn(s.ts) /\ DOMAIN s.model \subseteq DOMAIN s.ts /\ DOMAIN s.ts \subseteq Own(i, n)
        /\ \A x \in DOMAIN s.model : s.ts[x] = now \/ (o.stores /\ s.ts[x] = o["ts"][x])
        /\ Read(d, "ts", i, n).ok => s.ts = Only(o["ts"], Own(i, n))
    BY <2>1, <2>2
  <2>4. /\ IsFn(s.freq) /\ DOMAIN s.model \subseteq DOMAIN s.freq /\ DOMAIN s.freq \subseteq Own(i, n)
        /\ \A x \in DOMAIN s.model : s.freq[x] = "many" \/ (o.stores /\ s.freq[x] = o["freq"][x])
        /\ Read(d, "freq", i, n).ok => s.freq = Only(o["freq"], Own(i, n))
    BY <2>1, <2>2
  <2>5. Stores(s, d, i, n, now)  BY <2>3, <2>4 DEF Stores
  <2> QED  BY <2>3, <2>4, <2>5
<1>stores. IsFn(s.ts) /\ DOMAIN s.ts \subseteq Own(i, n) /\ IsFn(s.freq) /\ DOMAIN s.freq \subseteq Own(i, n)
  BY <1>3, <1>6, <1>8
<1>9. Own(i, n) \subseteq FeatureId  BY OwnFacts
<1>10. \A k \in Kinds : IsFn(s[k]) /\ DOMAIN s[k] \subseteq Own(i, n)
  BY <1>3, <1>5, <1>stores DEF Kinds
<1>11. /\ \A x \in Paired : /\ x \in DOMAIN o.model <=> x \in DOMAIN o.optimizer
                            /\ x \in DOMAIN o.model => o.model[x] = o.optimizer[x]
       /\ o.stores /\ ~o.warmed => \A x \in DOMAIN o.model : o.freq[x] = "many"
  BY <1>1 DEF Holds, Together
<1>12. Together(s, stores, o.warmed)
  <2>1. \A k \in Kinds : IsFn(s[k]) /\ DOMAIN s[k] \subseteq FeatureId  BY <1>9, <1>10
  <2>2. \A x \in Paired : /\ x \in DOMAIN s.model <=> x \in DOMAIN s.optimizer
                          /\ x \in DOMAIN s.model => s.model[x] = s.optimizer[x]
    BY <1>5, <1>11
  <2>3. stores => DOMAIN s.model \subseteq DOMAIN s.ts /\ DOMAIN s.model \subseteq DOMAIN s.freq
    BY <1>8
  <2>4. ASSUME stores, ~o.warmed, NEW x \in DOMAIN s.model PROVE s.freq[x] = "many"
    <3>1. s.freq[x] = "many" \/ (o.stores /\ s.freq[x] = o.freq[x])
      BY <1>8, <2>4 DEF Stores
    <3>2. o.stores => o.freq[x] = "many"  BY <1>5, <1>11, <2>4
    <3> QED  BY <3>1, <3>2
  <2> QED  BY <2>1, <2>2, <2>3, <2>4 DEF Together
<1> QED  BY <1>4, <1>8, <1>10, <1>12 DEF Share

-----------------------------------------------------------------------------
(* Warming up. *)

\* The rows r has are in s as they were.
Keeps(s, r) == \A x \in DOMAIN r.model : x \in DOMAIN s.model /\ s.model[x] = r.model[x]

\* A warm-up leaves what is there, and all together.
LEMMA WarmFacts ==
  ASSUME DirConstants, DirInv, NEW d \in Dir, OneSave(d), NEW n \in 1..MaxShard,
         NEW i \in 0..(n - 1), NEW stores \in BOOLEAN, Warmable(d, n, stores),
         NEW r, NEW w, Share(r, i, n, stores, w),
         NEW s, s = Warm(r, d, i, n, stores)
  PROVE  /\ Keeps(s, r)
         /\ Share(s, i, n, stores, TRUE)
<1> DEFINE o == origin[d]
           E(k) == Emplace(r[k], Only(o[k], Own(i, n)))
<1>1. Holds(d) /\ dir[d].size \in 1..MaxShard
  <2>1. dir[d].size \in 0..MaxShard /\ dir[d].size > 0 /\ Holds(d)  BY DEF DirInv, DirAt, Warmable, Loadable
  <2> QED  BY <2>1 DEF DirConstants
<1>2. /\ \A k \in {"model", "optimizer"} : Read(d, k, i, n).ok
      /\ stores => \A k \in Kinds : Read(d, k, i, n).ok
  BY DEF Warmable, Loadable, Kinds
<1>3. /\ \A k \in {"model", "optimizer"} : s[k] = E(k)
      /\ stores => o.stores /\ \A k \in {"ts", "freq"} : s[k] = E(k)
      /\ ~stores => s.ts = r.ts /\ s.freq = r.freq
  <2>1. /\ s["model"] = Emplace(r["model"], Read(d, "model", i, n).data)
        /\ s["optimizer"] = Emplace(r["optimizer"], Read(d, "optimizer", i, n).data)
        /\ stores => /\ s["ts"] = Emplace(r["ts"], Read(d, "ts", i, n).data)
                     /\ s["freq"] = Emplace(r["freq"], Read(d, "freq", i, n).data)
        /\ ~stores => s.ts = r.ts /\ s.freq = r.freq
    BY DEF Warm
  <2>2. \A k \in Kinds : Read(d, k, i, n).ok =>
          /\ Read(d, k, i, n).data = Only(o[k], Own(i, n))
          /\ k \in {"ts", "freq"} => o.stores
    BY <1>1, ReadFacts
  <2> QED  BY <1>2, <2>1, <2>2 DEF Kinds
<1>4. \A k \in Kinds :
        /\ IsFn(E(k)) /\ DOMAIN E(k) = DOMAIN r[k] \cup (DOMAIN o[k] \cap Own(i, n))
        /\ \A x \in DOMAIN r[k] : E(k)[x] = r[k][x]
        /\ \A x \in (DOMAIN o[k] \cap Own(i, n)) \ DOMAIN r[k] : E(k)[x] = o[k][x]
  BY DEF Only, Restrict, Emplace, IsFn
<1> HIDE DEF E
<1>5. /\ Together(o, o.stores, o.warmed) /\ Own(i, n) \subseteq FeatureId /\ Together(r, stores, w)
      /\ \A k \in Kinds : IsFn(r[k]) /\ DOMAIN r[k] \subseteq Own(i, n)
  BY <1>1, OwnFacts DEF Holds, Together, Share
<1>6. \A k \in Kinds : s[k] = E(k) \/ (~stores /\ s[k] = r[k])
  BY <1>3 DEF Kinds
<1>7. \A k \in Kinds : IsFn(s[k]) /\ DOMAIN s[k] \subseteq Own(i, n)
  BY <1>4, <1>5, <1>6
<1>8. /\ s.model = E("model") /\ s.optimizer = E("optimizer")
      /\ stores => s.ts = E("ts") /\ s.freq = E("freq")
  BY <1>3
<1>9. \A x \in DOMAIN r.model : x \in DOMAIN s.model /\ s.model[x] = r.model[x]
  BY <1>4, <1>8 DEF Kinds
<1>10. \A x \in Paired : /\ x \in DOMAIN s.model <=> x \in DOMAIN s.optimizer
                         /\ x \in DOMAIN s.model => s.model[x] = s.optimizer[x]
  BY <1>4, <1>5, <1>8 DEF Together, Kinds
<1>11. stores => DOMAIN s.model \subseteq DOMAIN s.ts /\ DOMAIN s.model \subseteq DOMAIN s.freq
  <2> SUFFICES ASSUME stores PROVE DOMAIN s.model \subseteq DOMAIN s.ts /\ DOMAIN s.model \subseteq DOMAIN s.freq
    OBVIOUS
  <2>1. /\ DOMAIN r.model \subseteq DOMAIN r.ts /\ DOMAIN r.model \subseteq DOMAIN r.freq
        /\ DOMAIN o.model \subseteq DOMAIN o.ts /\ DOMAIN o.model \subseteq DOMAIN o.freq
    BY <1>3, <1>5 DEF Together
  <2>2. /\ DOMAIN s.model = DOMAIN r.model \cup (DOMAIN o.model \cap Own(i, n))
        /\ DOMAIN s.ts = DOMAIN r.ts \cup (DOMAIN o.ts \cap Own(i, n))
        /\ DOMAIN s.freq = DOMAIN r.freq \cup (DOMAIN o.freq \cap Own(i, n))
    BY <1>4, <1>8 DEF Kinds
  <2> QED  BY <2>1, <2>2
<1>12. Together(s, stores, TRUE)  BY <1>5, <1>7, <1>10, <1>11 DEF Together
<1> QED  BY <1>7, <1>9, <1>12 DEF Share, Keeps

-----------------------------------------------------------------------------
(* The steps. *)

\* A directory that is left alone is as before.
LEMMA SameDir ==
  ASSUME NEW d \in Dir, DirAt(d), dir'[d] = dir[d], origin'[d] = origin[d]
  PROVE  DirAt(d)'
<1>1. OneSave(d)' <=> OneSave(d)  BY DEF OneSave
<1>2. Holds(d) => Holds(d)'  BY DEF Holds
<1> QED  BY <1>1, <1>2 DEF DirAt

LEMMA BlankFacts ==
  ASSUME NEW i, NEW n, NEW stores \in BOOLEAN, NEW w
  PROVE  Share(Blank, i, n, stores, w)
<1>1. IsFn(NoMap) /\ DOMAIN NoMap = {}  BY DEF IsFn, NoMap
<1>2. \A k \in Kinds : Blank[k] = NoMap  BY DEF Kinds, Blank
<1>3. Blank.model = NoMap /\ Blank.optimizer = NoMap /\ Blank.ts = NoMap /\ Blank.freq = NoMap
  BY DEF Blank
<1> QED  BY <1>1, <1>2, <1>3 DEF Share, Together

\* What the shards of a job that loads whole saves have after Init; and what the
\* model they start from had is still in it.
LEMMA InitializedFacts ==
  ASSUME DirConstants, IInv, NEW j \in Flags, NEW i \in 0..(j.size - 1),
         j.in # NoDir => OneSave(j.in) /\ Loadable(j.in, j.size),
         j.warm # NoDir => OneSave(j.warm) /\ Warmable(j.warm, j.size, j.stores),
         NEW w, w = (j.warm # NoDir \/ (j.in # NoDir /\ origin[j.in].warmed)),
         NEW s, s = Initialized(j)[i]
  PROVE  /\ Share(s, i, j.size, j.stores, w)
         /\ j.in # NoDir => \A x \in DOMAIN origin[j.in].model \cap Own(i, j.size) :
              x \in DOMAIN s.model /\ s.model[x] = origin[j.in].model[x]
<1>1. /\ j.size \in 1..MaxShard /\ j.in \in Dir \cup {NoDir} /\ j.warm \in Dir \cup {NoDir}
      /\ j.stores \in BOOLEAN /\ DirInv
  BY DEF Flags, IInv
<1>2. PICK r : r = IF j.in = NoDir THEN Blank
                   ELSE LoadShard(j.in, i, j.size, j.stores, TsNow(run + 1))
  OBVIOUS
<1>3. s = IF j.warm = NoDir THEN r ELSE Warm(r, j.warm, i, j.size, j.stores)
  BY <1>2 DEF Initialized
<1>4. PICK v : v = (j.in # NoDir /\ origin[j.in].warmed)  OBVIOUS
<1>5. /\ Share(r, i, j.size, j.stores, v)
      /\ j.in # NoDir => \A x \in DOMAIN origin[j.in].model \cap Own(i, j.size) :
           x \in DOMAIN r.model /\ r.model[x] = origin[j.in].model[x]
  <2>1. CASE j.in = NoDir  BY <1>1, <1>2, <2>1, BlankFacts
  <2>2. CASE j.in # NoDir
    <3>1. r = LoadShard(j.in, i, j.size, j.stores, TsNow(run + 1)) /\ j.in \in Dir  BY <1>1, <1>2, <2>2
    <3>2. /\ r.model = Only(origin[j.in].model, Own(i, j.size))
          /\ Share(r, i, j.size, j.stores, origin[j.in].warmed)
      BY <1>1, <2>2, <3>1, LoadFacts
    <3>3. origin[j.in].warmed \in BOOLEAN  BY <1>1, <2>2, <3>1 DEF DirInv, DirAt, Holds
    <3>4. v = origin[j.in].warmed  BY <1>4, <2>2, <3>3
    <3> QED  BY <3>2, <3>4 DEF Only, Restrict
  <2> QED  BY <2>1, <2>2
<1>6. CASE j.warm = NoDir  BY <1>3, <1>4, <1>5, <1>6
<1>7. CASE j.warm # NoDir
  <2>1. s = Warm(r, j.warm, i, j.size, j.stores) /\ j.warm \in Dir /\ w = TRUE  BY <1>1, <1>3, <1>7
  <2>2. /\ Keeps(s, r)
        /\ Share(s, i, j.size, j.stores, TRUE)
    <3>1. PICK n \in 1..MaxShard, st \in BOOLEAN, d \in Dir : n = j.size /\ st = j.stores /\ d = j.warm
      BY <1>1, <2>1
    <3>2. /\ i \in 0..(n - 1) /\ OneSave(d) /\ Warmable(d, n, st) /\ Share(r, i, n, st, v) /\ DirInv
          /\ s = Warm(r, d, i, n, st)
      BY <1>1, <1>5, <1>7, <2>1, <3>1
    <3>3. Keeps(s, r) /\ Share(s, i, n, st, TRUE)
      BY <3>2, WarmFacts, Zenon
    <3> QED  BY <3>1, <3>3
  <2> QED  BY <1>5, <2>1, <2>2 DEF Keeps
<1> QED  BY <1>6, <1>7

\* The flags of the job that Start leaves behind.
LEMMA StartedJob ==
  ASSUME NEW j \in Flags, NEW trainer \in BOOLEAN, Start(j, trainer)
  PROVE  /\ job' \in JobType /\ job' # NoJob
         /\ job'.size = j.size /\ job'.in = j.in /\ job'.warm = j.warm /\ job'.stores = j.stores
         /\ job'.clean => /\ \A d \in {j.in, j.warm} \ {NoDir} : OneSave(d)
                          /\ job'.warmed = (j.warm # NoDir \/ (j.in # NoDir /\ origin[j.in].warmed))
<1>1. PICK b \in BOOLEAN, w \in BOOLEAN :
        /\ job' = [j EXCEPT !.clean = b, !.warmed = w]
        /\ b = (\A d \in {j.in, j.warm} \ {NoDir} : OneSave(d))
        /\ w = (j.warm # NoDir \/ \E d \in {j.in} \ {NoDir} : OneSave(d) /\ origin[d].warmed)
  BY Zenon DEF Start
<1>2. /\ job' \in JobType
      /\ job'.size = j.size /\ job'.in = j.in /\ job'.warm = j.warm /\ job'.stores = j.stores
      /\ job'.clean = b /\ job'.warmed = w
  BY <1>1 DEF Flags, JobType
<1>3. job' # NoJob
  <2>1. j.size \in 1..MaxShard /\ NoJob.size = 0  BY DEF Flags, NoJob
  <2>2. j.size # 0  BY <2>1
  <2> QED  BY <1>2, <2>1, <2>2
<1>4. ASSUME b
      PROVE  /\ \A d \in {j.in, j.warm} \ {NoDir} : OneSave(d)
             /\ w = (j.warm # NoDir \/ (j.in # NoDir /\ origin[j.in].warmed))
  BY <1>1, <1>4
<1> QED  BY <1>2, <1>3, <1>4

LEMMA StepStart ==
  ASSUME DirConstants, IInv, NEW j \in Flags, NEW trainer \in BOOLEAN, Start(j, trainer)
  PROVE  IInv'
<1>1. /\ job' \in JobType /\ job'.size = j.size /\ job'.stores = j.stores
      /\ job'.clean => /\ \A d \in {j.in, j.warm} \ {NoDir} : OneSave(d)
                       /\ job'.warmed = (j.warm # NoDir \/ (j.in # NoDir /\ origin[j.in].warmed))
  BY StartedJob
<1>2. DOMAIN mem' = 0..(job'.size - 1)  BY <1>1 DEF Start, Initialized
<1>3. ASSUME job'.clean, NEW i \in 0..(job'.size - 1)
      PROVE  Share(mem'[i], i, job'.size, job'.stores, job'.warmed)
  <2>1. mem' = Initialized(j)  BY DEF Start
  <2>2. /\ j.in # NoDir => OneSave(j.in) /\ Loadable(j.in, j.size)
        /\ j.warm # NoDir => OneSave(j.warm) /\ Warmable(j.warm, j.size, j.stores)
    BY <1>1, <1>3 DEF Start
  <2>3. PICK w, s : w = job'.warmed /\ s = Initialized(j)[i]  OBVIOUS
  <2>4. w = (j.warm # NoDir \/ (j.in # NoDir /\ origin[j.in].warmed))  BY <1>1, <1>3, <2>3
  <2>5. i \in 0..(j.size - 1)  BY <1>1
  <2>6. Share(s, i, j.size, j.stores, w)  BY <2>2, <2>3, <2>4, <2>5, InitializedFacts
  <2> QED  BY <1>1, <2>1, <2>3, <2>6
<1>4. (\A i \in 0..(job.size - 1) : Share(mem[i], i, job.size, job.stores, job.warmed))'
        <=> \A i \in 0..(job'.size - 1) : Share(mem'[i], i, job'.size, job'.stores, job'.warmed)
  BY DEF Share, Together, Own, Paired
<1>5. MemInv'  BY <1>1, <1>2, <1>3, <1>4 DEF MemInv
<1>6. ASSUME NEW d \in Dir PROVE DirAt(d)'
  <2>1. DirAt(d) /\ DOMAIN dir = Dir /\ DOMAIN origin = Dir  BY DEF IInv, DirInv
  <2>2. CASE trainer /\ d = j.out
    <3>1. dir'[d] = EmptyDir /\ origin'[d] = Nothing  BY <2>1, <2>2 DEF Start
    <3>2. EmptyDir.size = 0 /\ \A k \in Kinds, i \in Shards : EmptyDir[k][i] = Unreadable
      BY DEF EmptyDir, Kinds
    <3>3. ~Unreadable.ok  BY DEF Unreadable
    <3>4. ~OneSave(d)'  BY <3>1 DEF OneSave, Nothing
    <3> QED  BY <3>1, <3>2, <3>3, <3>4 DEF DirAt, DirConstants
  <2>3. CASE ~(trainer /\ d = j.out)
    <3>1. dir'[d] = dir[d] /\ origin'[d] = origin[d]  BY <2>1, <2>3 DEF Start
    <3> QED  BY <2>1, <3>1, SameDir
  <2> QED  BY <2>2, <2>3
<1>7. DOMAIN dir' = Dir /\ DOMAIN origin' = Dir /\ run' \in Nat  BY DEF Start, IInv
<1> QED  BY <1>5, <1>6, <1>7 DEF IInv, DirInv

LEMMA StepTrain ==
  ASSUME DirConstants, IInv, NEW Often \in SUBSET FeatureId, NEW Rarely \in SUBSET FeatureId,
         Train(Often, Rarely)
  PROVE  IInv'
<1>1. job # NoJob /\ job \in JobType /\ DOMAIN mem = 0..(job.size - 1)  BY DEF Train, IInv, MemInv
<1>2. UNCHANGED <<dir, job, run, crashes, origin>> /\ DOMAIN mem' = DOMAIN mem  BY DEF Train
<1>3. ASSUME job.clean, NEW i \in 0..(job.size - 1)
      PROVE  Share(mem'[i], i, job.size, job.stores, job.warmed)
  <2>1. Share(mem[i], i, job.size, job.stores, job.warmed)  BY <1>1, <1>3 DEF IInv, MemInv
  <2>2. PICK s, t, O, n : s = mem[i] /\ t = mem'[i] /\ O = Own(i, job.size) /\ n = job.size  OBVIOUS
  <2> DEFINE Now(S, v) == [x \in S \cap O |-> v]
             U == Emplace(Now(Often, "many"), s.freq)
             M == Emplace(Now(Often, run), s.model)
             P == Emplace(Now(Often, run), s.optimizer)
             T == Emplace(Now(Often, TsNow(run)), s.ts)
             F == Emplace(U, Now(Rarely, "few"))
  <2>3. /\ t.model = M /\ t.optimizer = P
        /\ t.ts = IF job.stores THEN T ELSE NoMap
        /\ t.freq = IF job.stores THEN F ELSE NoMap
        /\ t["model"] = t.model /\ t["optimizer"] = t.optimizer /\ t["ts"] = t.ts /\ t["freq"] = t.freq
    BY <1>1, <2>2 DEF Train
  <2>4. /\ IsFn(M) /\ DOMAIN M = (Often \cap O) \cup DOMAIN s.model
        /\ \A x \in Often \cap O : M[x] = run
        /\ \A x \in DOMAIN s.model \ (Often \cap O) : M[x] = s.model[x]
    BY DEF Emplace, IsFn
  <2>5. /\ IsFn(P) /\ DOMAIN P = (Often \cap O) \cup DOMAIN s.optimizer
        /\ \A x \in Often \cap O : P[x] = run
        /\ \A x \in DOMAIN s.optimizer \ (Often \cap O) : P[x] = s.optimizer[x]
    BY DEF Emplace, IsFn
  <2>6. IsFn(T) /\ DOMAIN T = (Often \cap O) \cup DOMAIN s.ts
    BY DEF Emplace, IsFn
  <2>7. /\ DOMAIN U = (Often \cap O) \cup DOMAIN s.freq
        /\ \A x \in Often \cap O : U[x] = "many"
        /\ \A x \in DOMAIN s.freq \ (Often \cap O) : U[x] = s.freq[x]
    BY DEF Emplace
  <2>8. /\ IsFn(F) /\ DOMAIN F = DOMAIN U \cup (Rarely \cap O)
        /\ \A x \in DOMAIN U : F[x] = U[x]
    <3> HIDE DEF U
    <3> QED  BY DEF Emplace, IsFn
  <2> HIDE DEF M, P, T, U, F
  <2>9. IsFn(NoMap) /\ DOMAIN NoMap = {}  BY DEF IsFn, NoMap
  <2>10. O \subseteq FeatureId
    <3>1. job.size \in 1..MaxShard  BY <1>1 DEF JobType
    <3> QED  BY <2>2, <3>1, OwnFacts
  <2>11. /\ \A k \in Kinds : IsFn(s[k]) /\ DOMAIN s[k] \subseteq O
         /\ Together(s, job.stores, job.warmed)
    BY <2>1, <2>2 DEF Share, Together
  <2>12. /\ DOMAIN s.model \subseteq O /\ DOMAIN s.optimizer \subseteq O
         /\ DOMAIN s.ts \subseteq O /\ DOMAIN s.freq \subseteq O
    BY <2>11 DEF Kinds
  <2>13. /\ IsFn(t.model) /\ IsFn(t.optimizer) /\ IsFn(t.ts) /\ IsFn(t.freq)
         /\ DOMAIN t.model \subseteq O /\ DOMAIN t.optimizer \subseteq O
         /\ DOMAIN t.ts \subseteq O /\ DOMAIN t.freq \subseteq O
    BY <2>3, <2>4, <2>5, <2>6, <2>7, <2>8, <2>9, <2>12
  <2>14. \A k \in Kinds : IsFn(t[k]) /\ DOMAIN t[k] \subseteq O  BY <2>3, <2>13 DEF Kinds
  <2>15. \A x \in Paired : /\ x \in DOMAIN t.model <=> x \in DOMAIN t.optimizer
                           /\ x \in DOMAIN t.model => t.model[x] = t.optimizer[x]
    <3>1. \A x \in Paired : /\ x \in DOMAIN s.model <=> x \in DOMAIN s.optimizer
                            /\ x \in DOMAIN s.model => s.model[x] = s.optimizer[x]
      BY <2>11 DEF Together
    <3> QED  BY <2>3, <2>4, <2>5, <3>1
  <2>16. job.stores => DOMAIN t.model \subseteq DOMAIN t.ts /\ DOMAIN t.model \subseteq DOMAIN t.freq
    <3>1. job.stores => DOMAIN s.model \subseteq DOMAIN s.ts /\ DOMAIN s.model \subseteq DOMAIN s.freq
      BY <2>11 DEF Together
    <3> QED  BY <2>3, <2>4, <2>6, <2>7, <2>8, <3>1
  <2>17. ASSUME job.stores, ~job.warmed, NEW x \in DOMAIN t.model PROVE t.freq[x] = "many"
    <3>1. /\ DOMAIN s.model \subseteq DOMAIN s.freq
          /\ \A y \in DOMAIN s.model : s.freq[y] = "many"
      BY <2>11, <2>17 DEF Together
    <3>2. x \in Often \cap O \/ x \in DOMAIN s.model \ (Often \cap O)  BY <2>3, <2>4, <2>17
    <3>3. x \in DOMAIN U /\ U[x] = "many"  BY <2>7, <3>1, <3>2
    <3> QED  BY <2>3, <2>8, <2>17, <3>3
  <2>18. Together(t, job.stores, job.warmed)
    BY <2>10, <2>14, <2>15, <2>16, <2>17 DEF Together
  <2> QED  BY <2>2, <2>14, <2>18 DEF Share
<1>4. (\A i \in 0..(job.size - 1) : Share(mem[i], i, job.size, job.stores, job.warmed))'
        <=> \A i \in 0..(job'.size - 1) : Share(mem'[i], i, job'.size, job'.stores, job'.warmed)
  BY DEF Share, Together, Own, Paired
<1>5. MemInv'  BY <1>1, <1>2, <1>3, <1>4 DEF MemInv
<1>6. \A d \in Dir : DirAt(d)'  BY <1>2, SameDir DEF IInv, DirInv
<1> QED  BY <1>2, <1>5, <1>6 DEF IInv, DirInv

-----------------------------------------------------------------------------
(* Saving. *)

\* What a shard saves belongs together.
LEMMA ToSaveFacts ==
  ASSUME DirConstants, IInv, job # NoJob, job.clean, NEW i \in 0..(job.size - 1),
         NEW s, s = ToSave(i)
  PROVE  Share(s, i, job.size, job.stores, job.warmed)
<1>1. Share(mem[i], i, job.size, job.stores, job.warmed)  BY DEF IInv, MemInv
<1>2. PICK r, O : r = mem[i] /\ O = Own(i, job.size)  OBVIOUS
<1>3. PICK gone, zeros :
        /\ zeros = IF RemoveZeros THEN ZeroId ELSE {}
        /\ s.model = Only(r.model, FeatureId \ (zeros \cup gone))
        /\ s.optimizer = Only(r.optimizer, FeatureId \ gone)
        /\ s.ts = Only(r.ts, FeatureId \ gone) /\ s.freq = Only(r.freq, FeatureId \ gone)
        /\ s["model"] = s.model /\ s["optimizer"] = s.optimizer /\ s["ts"] = s.ts /\ s["freq"] = s.freq
  <2>1. PICK gone : gone = {x \in DOMAIN r.ts : ExpireThreshold > 0 /\ TsNow(run) > ExpireThreshold + r.ts[x]}
    OBVIOUS
  <2> QED  BY <1>2, <2>1 DEF ToSave
<1>4. /\ \A k \in Kinds : IsFn(r[k]) /\ DOMAIN r[k] \subseteq O
      /\ Together(r, job.stores, job.warmed) /\ O \subseteq FeatureId
  <2>1. job.size \in 1..MaxShard  BY DEF IInv, MemInv, JobType
  <2> QED  BY <1>1, <1>2, <2>1, OwnFacts DEF Share, Together
<1>6. /\ IsFn(s.model) /\ IsFn(s.optimizer) /\ IsFn(s.ts) /\ IsFn(s.freq)
      /\ DOMAIN s.model = DOMAIN r.model \cap (FeatureId \ (zeros \cup gone))
      /\ DOMAIN s.optimizer = DOMAIN r.optimizer \cap (FeatureId \ gone)
      /\ DOMAIN s.ts = DOMAIN r.ts \cap (FeatureId \ gone)
      /\ DOMAIN s.freq = DOMAIN r.freq \cap (FeatureId \ gone)
  BY <1>3 DEF Only, Restrict, IsFn
<1>7. /\ \A x \in DOMAIN s.model : s.model[x] = r.model[x]
      /\ \A x \in DOMAIN s.optimizer : s.optimizer[x] = r.optimizer[x]
      /\ \A x \in DOMAIN s.freq : s.freq[x] = r.freq[x]
  BY <1>3 DEF Only, Restrict
<1>8. /\ DOMAIN r.model \subseteq O /\ DOMAIN r.optimizer \subseteq O
      /\ DOMAIN r.ts \subseteq O /\ DOMAIN r.freq \subseteq O
  BY <1>4 DEF Kinds
<1>9. \A k \in Kinds : IsFn(s[k]) /\ DOMAIN s[k] \subseteq O
  BY <1>3, <1>6, <1>8 DEF Kinds
<1>10. \A x \in Paired : /\ x \in DOMAIN s.model <=> x \in DOMAIN s.optimizer
                         /\ x \in DOMAIN s.model => s.model[x] = s.optimizer[x]
  <2>1. \A x \in Paired : /\ x \in DOMAIN r.model <=> x \in DOMAIN r.optimizer
                          /\ x \in DOMAIN r.model => r.model[x] = r.optimizer[x]
    BY <1>4 DEF Together
  <2>2. \A x \in Paired : x \notin zeros  BY <1>3 DEF Paired
  <2> QED  BY <1>6, <1>7, <2>1, <2>2
<1>11. job.stores => DOMAIN s.model \subseteq DOMAIN s.ts /\ DOMAIN s.model \subseteq DOMAIN s.freq
  BY <1>4, <1>6 DEF Together
<1>12. job.stores /\ ~job.warmed => \A x \in DOMAIN s.model : s.freq[x] = "many"
  BY <1>4, <1>6, <1>7, <1>11 DEF Together
<1>13. Together(s, job.stores, job.warmed)
  BY <1>4, <1>9, <1>10, <1>11, <1>12 DEF Together
<1> QED  BY <1>2, <1>9, <1>13 DEF Share

\* The maps of o are those of n shards, put together.
WholeOf(o, P, n) ==
  \A k \in Kinds :
    o[k] = [x \in UNION {DOMAIN P[i][k] : i \in 0..(n - 1)} |-> P[x % n][k][x]]

SaveOf(o, n) ==
  \A k \in Kinds :
    o[k] = [x \in UNION {DOMAIN ToSave(i)[k] : i \in 0..(n - 1)} |-> ToSave(x % n)[k][x]]

\* The shards' parts make up the save.
LEMMA WholeFacts ==
  ASSUME DirConstants, NEW n \in 1..MaxShard, NEW stores \in BOOLEAN, NEW w \in BOOLEAN, NEW P,
         \A i \in 0..(n - 1) : Share(P[i], i, n, stores, w),
         NEW o, WholeOf(o, P, n)
  PROVE  /\ Together(o, stores, w)
         /\ \A k \in Kinds, i \in 0..(n - 1) : P[i][k] = Only(o[k], Own(i, n))
<1>1. ASSUME NEW k \in Kinds, NEW i \in 0..(n - 1)
      PROVE  /\ IsFn(P[i][k]) /\ DOMAIN P[i][k] \subseteq FeatureId
             /\ \A x \in DOMAIN P[i][k] : i = x % n /\ x \in Own(i, n)
  <2>1. Share(P[i], i, n, stores, w)  OBVIOUS
  <2>2. IsFn(P[i][k]) /\ DOMAIN P[i][k] \subseteq FeatureId /\ DOMAIN P[i][k] \subseteq Own(i, n)
    BY <2>1 DEF Share, Together
  <2> QED  BY <2>2, OwnFacts
<1>2. ASSUME NEW k \in Kinds
      PROVE  /\ IsFn(o[k]) /\ DOMAIN o[k] \subseteq FeatureId
             /\ \A x \in DOMAIN o[k] : x \in DOMAIN P[x % n][k] /\ o[k][x] = P[x % n][k][x]
             /\ \A i \in 0..(n - 1) : DOMAIN P[i][k] \subseteq DOMAIN o[k]
  <2>1. o[k] = [x \in UNION {DOMAIN P[i][k] : i \in 0..(n - 1)} |-> P[x % n][k][x]]
    BY DEF WholeOf
  <2>2. DOMAIN o[k] = UNION {DOMAIN P[i][k] : i \in 0..(n - 1)}  BY <2>1
  <2>3. IsFn(o[k])  BY <2>1 DEF IsFn
  <2>4. ASSUME NEW x \in DOMAIN o[k]
        PROVE  x \in FeatureId /\ x \in DOMAIN P[x % n][k] /\ o[k][x] = P[x % n][k][x]
    <3>1. PICK i \in 0..(n - 1) : x \in DOMAIN P[i][k]  BY <2>2
    <3> QED  BY <1>1, <2>1, <3>1
  <2> QED  BY <2>2, <2>3, <2>4
<1>3. ASSUME NEW k \in Kinds, NEW i \in 0..(n - 1) PROVE P[i][k] = Only(o[k], Own(i, n))
  <2>1. DOMAIN P[i][k] = DOMAIN o[k] \cap Own(i, n)  BY <1>1, <1>2, OwnFacts
  <2>2. \A x \in DOMAIN P[i][k] : P[i][k][x] = o[k][x]  BY <1>1, <1>2
  <2>3. P[i][k] = [x \in DOMAIN P[i][k] |-> P[i][k][x]]  BY <1>1 DEF IsFn
  <2>4. Only(o[k], Own(i, n)) = [x \in DOMAIN o[k] \cap Own(i, n) |-> o[k][x]]  BY DEF Only, Restrict
  <2> QED  BY <2>1, <2>2, <2>3, <2>4
<1>4. \A i \in 0..(n - 1) : Together(P[i], stores, w)  BY DEF Share
<1>5. /\ \A x \in DOMAIN o.model : x \in DOMAIN P[x % n].model /\ o.model[x] = P[x % n].model[x]
      /\ \A x \in DOMAIN o.optimizer : x \in DOMAIN P[x % n].optimizer /\ o.optimizer[x] = P[x % n].optimizer[x]
      /\ \A x \in DOMAIN o.freq : o.freq[x] = P[x % n].freq[x]
      /\ \A i \in 0..(n - 1) :
           /\ DOMAIN P[i].model \subseteq DOMAIN o.model /\ DOMAIN P[i].optimizer \subseteq DOMAIN o.optimizer
           /\ DOMAIN P[i].ts \subseteq DOMAIN o.ts /\ DOMAIN P[i].freq \subseteq DOMAIN o.freq
  BY <1>2 DEF Kinds
<1>6. \A x \in FeatureId : x % n \in 0..(n - 1)  BY OwnFacts
<1>7. /\ DOMAIN o.model \subseteq FeatureId /\ DOMAIN o.optimizer \subseteq FeatureId
      /\ DOMAIN o.freq \subseteq FeatureId
  BY <1>2 DEF Kinds
<1>8. \A x \in Paired : /\ x \in DOMAIN o.model <=> x \in DOMAIN o.optimizer
                        /\ x \in DOMAIN o.model => o.model[x] = o.optimizer[x]
  <2> SUFFICES ASSUME NEW x \in Paired
               PROVE  /\ x \in DOMAIN o.model <=> x \in DOMAIN o.optimizer
                      /\ x \in DOMAIN o.model => o.model[x] = o.optimizer[x]
    OBVIOUS
  <2>1. x \in FeatureId /\ x % n \in 0..(n - 1)  BY <1>6 DEF Paired
  <2>2. /\ x \in DOMAIN P[x % n].model <=> x \in DOMAIN P[x % n].optimizer
        /\ x \in DOMAIN P[x % n].model => P[x % n].model[x] = P[x % n].optimizer[x]
    BY <1>4, <2>1 DEF Together
  <2> QED  BY <1>5, <2>1, <2>2
<1>9. ASSUME stores, NEW x \in DOMAIN o.model
      PROVE  x \in DOMAIN o.ts /\ x \in DOMAIN o.freq /\ (~w => o.freq[x] = "many")
  <2>1. x % n \in 0..(n - 1) /\ x \in DOMAIN P[x % n].model  BY <1>5, <1>6, <1>7
  <2>2. /\ x \in DOMAIN P[x % n].ts /\ x \in DOMAIN P[x % n].freq
        /\ ~w => P[x % n].freq[x] = "many"
    BY <1>4, <1>9, <2>1 DEF Together
  <2> QED  BY <1>5, <2>1, <2>2
<1>10. Together(o, stores, w)  BY <1>2, <1>8, <1>9 DEF Together
<1> QED  BY <1>3, <1>10

LEMMA Places == Place("model") = 2 /\ Place("optimizer") = 3 /\ Place("ts") = 4 /\ Place("freq") = 5
<1>1. DOMAIN Order = 1..5  BY DEF Order
<1>2. /\ Order[1] = "size" /\ Order[2] = "model" /\ Order[3] = "optimizer"
      /\ Order[4] = "ts" /\ Order[5] = "freq"
  BY DEF Order
<1> HIDE DEF Order
<1>3. \A k \in 1..5 : k = 1 \/ k = 2 \/ k = 3 \/ k = 4 \/ k = 5  OBVIOUS
<1> QED  BY <1>1, <1>2, <1>3 DEF Place

\* What a save leaves in its directory, file by file, and what is said of it.
LEMMA SavedDir ==
  ASSUME DirConstants, IInv, NEW done \in Progress, NEW torn \in SUBSET DOMAIN mem, Save(done, torn),
         NEW d, d = job.out
  PROVE  /\ d \in Dir /\ dir'[d].size = IF done[0] >= 1 THEN job.size
                                        ELSE IF 0 \in torn /\ done[0] = 0 THEN 0 ELSE dir[d].size
         /\ \A k \in Kinds, i \in Shards : dir'[d][k][i] = Saved(dir[d][k][i], k, i, done, torn)
         /\ \A e \in Dir \ {d} : dir'[e] = dir[e] /\ origin'[e] = origin[e]
         /\ DOMAIN dir' = Dir /\ DOMAIN origin' = Dir
<1>1. d \in Dir /\ DOMAIN dir = Dir /\ DOMAIN origin = Dir
  BY DEF Save, IInv, MemInv, JobType
<1> DEFINE file(kind) == [i \in Shards |-> Saved(dir[d][kind][i], kind, i, done, torn)]
           sized == IF done[0] >= 1 THEN job.size ELSE IF 0 \in torn /\ done[0] = 0 THEN 0
                    ELSE dir[d].size
<1>2. dir' = [dir EXCEPT ![d] =
        [size |-> sized, model |-> file("model"), optimizer |-> file("optimizer"),
         ts |-> file("ts"), freq |-> file("freq")]]
  <2>1. Saved(dir[d].model[0], "model", 0, done, torn) = Saved(dir[d]["model"][0], "model", 0, done, torn)
    OBVIOUS
  <2> QED  BY <2>1, Zenon DEF Save
<1>3. dir'[d] = [size |-> sized, model |-> file("model"), optimizer |-> file("optimizer"),
                 ts |-> file("ts"), freq |-> file("freq")]
  BY <1>1, <1>2
<1>4. \A e \in Dir \ {d} : dir'[e] = dir[e]  BY <1>1, <1>2
<1>5. DOMAIN origin' = Dir /\ \A e \in Dir \ {d} : origin'[e] = origin[e]
  BY <1>1 DEF Save
<1>6. \A k \in Kinds : dir'[d][k] = file(k)
  <2> HIDE DEF file
  <2> QED  BY <1>3 DEF Kinds
<1>7. \A k \in Kinds, i \in Shards : dir'[d][k][i] = Saved(dir[d][k][i], k, i, done, torn)
  BY <1>6
<1>8. dir'[d].size = sized
  <2> HIDE DEF file, sized
  <2> QED  BY <1>3
<1> QED  BY <1>1, <1>2, <1>4, <1>5, <1>7, <1>8

\* The save as the history has it: what the shards of a clean job wanted to save.
LEMMA SavedMaps ==
  ASSUME DirConstants, IInv, job # NoJob, job.clean, NEW n, n = job.size,
         NEW o, SaveOf(o, n)
  PROVE  /\ Together(o, job.stores, job.warmed)
         /\ \A k \in Kinds, i \in 0..(n - 1) : ToSave(i)[k] = Only(o[k], Own(i, n))
<1>1. n \in 1..MaxShard /\ job.stores \in BOOLEAN /\ job.warmed \in BOOLEAN
  BY DEF IInv, MemInv, JobType
<1>st. PICK st \in BOOLEAN, w \in BOOLEAN : st = job.stores /\ w = job.warmed  BY <1>1
<1>2. PICK P : P = [i \in 0..(n - 1) |-> ToSave(i)]  OBVIOUS
<1>3. \A i \in 0..(n - 1) : P[i] = ToSave(i)  BY <1>2
<1>4. \A i \in 0..(n - 1) : Share(P[i], i, n, st, w)  BY <1>3, <1>st, ToSaveFacts
<1>5. ASSUME NEW k \in Kinds
      PROVE  o[k] = [x \in UNION {DOMAIN P[i][k] : i \in 0..(n - 1)} |-> P[x % n][k][x]]
  <2>1. ASSUME NEW x \in UNION {DOMAIN P[i][k] : i \in 0..(n - 1)}
        PROVE  ToSave(x % n)[k][x] = P[x % n][k][x]
    <3>1. PICK i \in 0..(n - 1) : x \in DOMAIN P[i][k]  OBVIOUS
    <3>2. DOMAIN P[i][k] \subseteq Own(i, n)  BY <1>4 DEF Share
    <3>3. x % n = i  BY <1>1, <3>1, <3>2, OwnFacts
    <3> QED  BY <1>3, <3>3
  <2>2. {DOMAIN ToSave(i)[k] : i \in 0..(n - 1)} = {DOMAIN P[i][k] : i \in 0..(n - 1)}
    BY <1>3
  <2>3. o[k] = [x \in UNION {DOMAIN ToSave(i)[k] : i \in 0..(n - 1)} |-> ToSave(x % n)[k][x]]
    BY DEF SaveOf
  <2> QED  BY <2>1, <2>2, <2>3
<1>whole. WholeOf(o, P, n)  BY <1>5 DEF WholeOf
<1>6. /\ Together(o, st, w)
      /\ \A k \in Kinds, i \in 0..(n - 1) : P[i][k] = Only(o[k], Own(i, n))
  BY <1>1, <1>4, <1>whole, WholeFacts
<1> QED  BY <1>3, <1>6, <1>st

LEMMA StepSave ==
  ASSUME DirConstants, IInv, NEW done \in Progress, NEW torn \in SUBSET DOMAIN mem, Save(done, torn)
  PROVE  IInv'
<1>1. PICK d, n, old, m : d = job.out /\ n = job.size /\ old = dir[d] /\ m = dir'[d].size  OBVIOUS
<1>2. /\ d \in Dir /\ DOMAIN dir' = Dir /\ DOMAIN origin' = Dir
      /\ m = IF done[0] >= 1 THEN n ELSE IF 0 \in torn /\ done[0] = 0 THEN 0 ELSE old.size
      /\ \A k \in Kinds, i \in Shards : dir'[d][k][i] = Saved(old[k][i], k, i, done, torn)
      /\ \A e \in Dir \ {d} : dir'[e] = dir[e] /\ origin'[e] = origin[e]
  BY <1>1, SavedDir
<1>3. /\ job # NoJob /\ job' = NoJob /\ run' = run
      /\ n \in 1..MaxShard /\ DOMAIN mem = 0..(n - 1) /\ 0 \in DOMAIN mem
      /\ job.stores \in BOOLEAN /\ job.warmed \in BOOLEAN /\ DirAt(d) /\ DOMAIN origin = Dir
      /\ \A i \in torn : done[i] < LastFile
  <2>1. job # NoJob /\ job' = NoJob /\ run' = run /\ \A i \in torn : done[i] < LastFile
    BY DEF Save
  <2>2. job \in JobType /\ DOMAIN mem = 0..(n - 1)  BY <1>1, <2>1 DEF IInv, MemInv
  <2>3. n \in 1..MaxShard /\ job.stores \in BOOLEAN /\ job.warmed \in BOOLEAN
    BY <1>1, <2>2 DEF JobType
  <2>4. 0 \in DOMAIN mem  BY <2>2, <2>3 DEF DirConstants
  <2>5. DirAt(d) /\ DOMAIN origin = Dir  BY <1>2 DEF IInv, DirInv
  <2> QED  BY <2>1, <2>2, <2>3, <2>4, <2>5
<1>4. /\ \A i \in 0..(n - 1) : done[i] \in 0..LastFile /\ done[i] >= First(i)
      /\ LastFile = IF job.stores THEN 5 ELSE 3
  BY <1>3 DEF Progress, LastFile
<1>5. 0..(n - 1) \subseteq Shards /\ m \in 0..MaxShard /\ old.size \in 0..MaxShard
  BY <1>1, <1>2, <1>3, <1>4 DEF Shards, DirConstants, DirAt
<1>6. \A k \in Kinds, i \in Shards \ (0..(n - 1)) : dir'[d][k][i] = old[k][i]
  BY <1>2, <1>3 DEF Saved
<1>7. \A k \in Kinds, i \in 0..(n - 1) : Place(k) <= done[i] => dir'[d][k][i] = Written(ToSave(i)[k])
  BY <1>2, <1>3, <1>5 DEF Saved
<1>8. \A k \in Kinds, i \in 0..(n - 1) : ~(Place(k) <= done[i]) =>
        dir'[d][k][i] = Unreadable \/ dir'[d][k][i] = old[k][i]
  BY <1>2, <1>3, <1>5 DEF Saved
<1>9. \A k \in Kinds, i \in 0..(n - 1) : ~(Place(k) <= done[i]) /\ i \notin torn =>
        dir'[d][k][i] = old[k][i]
  BY <1>2, <1>3, <1>5 DEF Saved
<1>10. ~Unreadable.ok /\ \A f : Written(f).ok = TRUE /\ Written(f).data = f  BY DEF Unreadable, Written
<1> DEFINE nothing == torn = {} /\ \A i \in DOMAIN mem : done[i] = First(i)
           complete == \A i \in DOMAIN mem : done[i] = LastFile
           stale == ~job.stores /\ \E i \in Shards : old.ts[i].ok \/ old.freq[i].ok
           whole(kind) == [x \in UNION {DOMAIN ToSave(i)[kind] : i \in DOMAIN mem} |->
                             ToSave(x % job.size)[kind][x]]
           this(what) == [what |-> what, stores |-> job.stores, warmed |-> job.warmed,
                          model |-> whole("model"), optimizer |-> whole("optimizer"),
                          ts |-> whole("ts"), freq |-> whole("freq")]
<1>11. \/ nothing /\ origin'[d] = origin[d]
       \/ origin'[d] = Mixed
       \/ job.clean /\ complete /\ ~stale /\ origin'[d] = this("complete")
       \/ job.clean /\ ~complete /\ origin[d] = Nothing /\ origin'[d] = this("part")
  <2>1. origin' = [origin EXCEPT ![d] =
          IF nothing THEN @
          ELSE IF ~job.clean THEN Mixed
          ELSE IF complete THEN IF stale THEN Mixed ELSE this("complete")
          ELSE IF @ = Nothing THEN this("part") ELSE Mixed]
    BY <1>1, Zenon DEF Save
  <2> HIDE DEF nothing, complete, stale, this
  <2> QED  BY <1>2, <1>3, <2>1
<1>12. ASSUME NEW o, NEW what, o = this(what), job.clean, what \in {"part", "complete"}
       PROVE  /\ o.what = what /\ o # Nothing /\ o.stores = job.stores /\ o.warmed = job.warmed
              /\ Together(o, o.stores, o.warmed)
              /\ \A k \in Kinds, i \in 0..(n - 1) : ToSave(i)[k] = Only(o[k], Own(i, n))
  <2>1. o.what = what /\ o.stores = job.stores /\ o.warmed = job.warmed  BY <1>12
  <2>2. o # Nothing  BY <1>12, <2>1 DEF Nothing
  <2>3. \A k \in Kinds : o[k] = whole(k)
    <3> HIDE DEF whole
    <3> QED  BY <1>12 DEF Kinds
  <2>4. SaveOf(o, n)  BY <1>1, <1>3, <2>3 DEF SaveOf
  <2> HIDE DEF this, whole
  <2>5. /\ Together(o, job.stores, job.warmed)
        /\ \A k \in Kinds, i \in 0..(n - 1) : ToSave(i)[k] = Only(o[k], Own(i, n))
    BY <1>1, <1>3, <1>12, <2>4, SavedMaps, Zenon
  <2> QED  BY <2>1, <2>2, <2>5
<1>13. ASSUME nothing, origin'[d] = origin[d] PROVE DirAt(d)'
  <2>1. ASSUME NEW k \in Kinds, NEW i \in 0..(n - 1) PROVE dir'[d][k][i] = old[k][i]
    <3>1. done[i] <= 1 /\ i \notin torn  BY <1>3, <1>13 DEF First
    <3>2. Place(k) \in 2..5  BY Places DEF Kinds
    <3>3. ~(Place(k) <= done[i])
      <4>1. done[i] \in 0..LastFile /\ LastFile \in Nat  BY <1>4
      <4> QED  BY <3>1, <3>2, <4>1
    <3> QED  BY <1>9, <3>1, <3>3
  <2>2. \A k \in Kinds, i \in Shards : dir'[d][k][i] = old[k][i]  BY <1>6, <2>1
  <2>3. m = old.size
    <3>1. done[0] = 0 /\ torn = {}  BY <1>3, <1>13 DEF First
    <3> QED  BY <1>2, <3>1
  <2>4. OneSave(d)' <=> OneSave(d)  BY <1>13 DEF OneSave
  <2>5. /\ \A i \in Shards : dir'[d].model[i] = old.model[i] /\ dir'[d].optimizer[i] = old.optimizer[i]
        /\ \A i \in Shards : dir'[d].ts[i] = old.ts[i] /\ dir'[d].freq[i] = old.freq[i]
    BY <2>2 DEF Kinds
  <2>6. 0..(m - 1) \subseteq Shards  BY <1>5 DEF Shards, DirConstants
  <2>7. ASSUME Holds(d) PROVE Holds(d)'
    <3>1. /\ origin'[d].stores \in BOOLEAN /\ origin'[d].warmed \in BOOLEAN
          /\ Together(origin'[d], origin'[d].stores, origin'[d].warmed)
      BY <1>13, <2>7 DEF Holds
    <3>2. \A k \in Kinds, i \in 0..(m - 1) : dir'[d][k][i].ok =>
            /\ dir'[d][k][i].data = Only(origin'[d][k], Own(i, m))
            /\ k \in {"ts", "freq"} => origin'[d].stores
      BY <1>1, <1>13, <2>2, <2>3, <2>6, <2>7 DEF Holds
    <3>3. origin'[d].what = "complete" =>
            /\ m > 0
            /\ \A i \in 0..(m - 1) :
                 /\ dir'[d].model[i].ok /\ dir'[d].optimizer[i].ok
                 /\ origin'[d].stores => dir'[d].ts[i].ok /\ dir'[d].freq[i].ok
      BY <1>1, <1>13, <2>3, <2>5, <2>6, <2>7 DEF Holds
    <3> QED  BY <1>1, <3>1, <3>2, <3>3 DEF Holds
  <2>8. DirAt(d)'  BY <1>1, <1>3, <1>5, <1>13, <2>2, <2>3, <2>4, <2>7 DEF DirAt, Shards
  <2> QED  BY <2>8
<1>14. ASSUME origin'[d] = Mixed PROVE DirAt(d)'
  <2>1. Mixed # Nothing /\ Mixed.what = "mixed"
    <3>1. Mixed.what = "mixed" /\ Nothing.what = "nothing"  BY DEF Mixed, Nothing
    <3> QED  BY <3>1
  <2>2. ~OneSave(d)'  BY <1>14, <2>1 DEF OneSave
  <2> QED  BY <1>1, <1>5, <1>14, <2>1, <2>2 DEF DirAt
<1>15. ASSUME job.clean, complete, ~stale, origin'[d] = this("complete") PROVE DirAt(d)'
  <2>1. PICK o : o = this("complete") /\ origin'[d] = o  BY <1>15
  <2>2. /\ o.what = "complete" /\ o # Nothing /\ o.stores = job.stores /\ o.warmed = job.warmed
        /\ Together(o, o.stores, o.warmed)
        /\ \A k \in Kinds, i \in 0..(n - 1) : ToSave(i)[k] = Only(o[k], Own(i, n))
    <3> HIDE DEF this
    <3> QED  BY <1>12, <1>15, <2>1
  <2> HIDE DEF this, whole
  <2>3. \A i \in 0..(n - 1) : done[i] = LastFile /\ i \notin torn  BY <1>3, <1>4, <1>15
  <2>4. m = n
    <3>1. done[0] = LastFile  BY <1>3, <2>3
    <3> QED  BY <1>2, <1>4, <3>1
  <2>5. \A i \in 0..(n - 1), k \in Kinds : k \in {"model", "optimizer"} \/ job.stores =>
          dir'[d][k][i] = Written(ToSave(i)[k])
    BY <1>4, <1>7, <2>3, Places DEF Kinds
  <2>6. ASSUME ~job.stores, NEW i \in 0..(n - 1), NEW k \in {"ts", "freq"} PROVE ~dir'[d][k][i].ok
    <3>1. ~(Place(k) <= done[i])  BY <1>4, <2>3, <2>6, Places
    <3>2. dir'[d][k][i] = old[k][i]  BY <1>9, <2>3, <3>1 DEF Kinds
    <3>3. ~old.ts[i].ok /\ ~old.freq[i].ok  BY <1>5, <1>15, <2>6
    <3> QED  BY <3>2, <3>3
  <2>7. \A k \in Kinds, i \in 0..(m - 1) : dir'[d][k][i].ok =>
          /\ dir'[d][k][i].data = Only(o[k], Own(i, m))
          /\ k \in {"ts", "freq"} => o.stores
    BY <1>10, <2>2, <2>4, <2>5, <2>6 DEF Kinds
  <2>8. \A i \in 0..(m - 1) :
          /\ dir'[d].model[i].ok /\ dir'[d].optimizer[i].ok
          /\ o.stores => dir'[d].ts[i].ok /\ dir'[d].freq[i].ok
    BY <1>10, <2>2, <2>4, <2>5 DEF Kinds
  <2>9. Holds(d)'
    BY <1>1, <1>3, <2>1, <2>2, <2>4, <2>7, <2>8 DEF Holds
  <2> QED  BY <1>1, <1>5, <2>1, <2>2, <2>9 DEF DirAt
<1>16. ASSUME job.clean, ~complete, origin[d] = Nothing, origin'[d] = this("part") PROVE DirAt(d)'
  <2>1. PICK o : o = this("part") /\ origin'[d] = o  BY <1>16
  <2>2. /\ o.what = "part" /\ o # Nothing /\ o.stores = job.stores /\ o.warmed = job.warmed
        /\ Together(o, o.stores, o.warmed)
        /\ \A k \in Kinds, i \in 0..(n - 1) : ToSave(i)[k] = Only(o[k], Own(i, n))
    <3> HIDE DEF this
    <3> QED  BY <1>12, <1>16, <2>1
  <2> HIDE DEF this, whole, complete
  <2>3. old.size = 0 /\ \A k \in Kinds, i \in Shards : ~old[k][i].ok  BY <1>1, <1>3, <1>16 DEF DirAt
  <2>4. m = n \/ m = 0  BY <1>2, <2>3
  <2>5. ASSUME NEW k \in Kinds, NEW i \in 0..(m - 1), dir'[d][k][i].ok
        PROVE  /\ dir'[d][k][i].data = Only(o[k], Own(i, m))
               /\ k \in {"ts", "freq"} => o.stores
    <3>1. m = n /\ i \in 0..(n - 1)  BY <1>3, <2>4
    <3>2. Place(k) <= done[i]  BY <1>5, <1>8, <1>10, <2>3, <2>5, <3>1
    <3>3. dir'[d][k][i] = Written(ToSave(i)[k])  BY <1>7, <3>1, <3>2
    <3>4. k \in {"ts", "freq"} => job.stores
      <4>1. done[i] \in 0..LastFile /\ (~job.stores => LastFile = 3)  BY <1>4, <3>1
      <4>2. k \in {"ts", "freq"} => Place(k) \in {4, 5}  BY Places
      <4>3. ASSUME k \in {"ts", "freq"}, ~job.stores PROVE FALSE
        <5>1. Place(k) \in {4, 5} /\ done[i] \in 0..3  BY <4>1, <4>2, <4>3
        <5> QED  BY <3>2, <5>1
      <4> QED  BY <4>3
    <3> QED  BY <1>10, <2>2, <3>1, <3>3, <3>4
  <2>6. Holds(d)'
    BY <1>1, <1>3, <2>1, <2>2, <2>5 DEF Holds
  <2> QED  BY <1>1, <1>5, <2>1, <2>2, <2>6 DEF DirAt
<1>17. DirAt(d)'
  <2> HIDE DEF nothing, complete, stale, this
  <2> QED  BY <1>11, <1>13, <1>14, <1>15, <1>16
<1>18. \A e \in Dir : DirAt(e)'
  <2>1. ASSUME NEW e \in Dir \ {d} PROVE DirAt(e)'
    BY <1>2, SameDir DEF IInv, DirInv
  <2> QED  BY <1>17, <2>1
<1> QED  BY <1>2, <1>3, <1>18 DEF IInv, DirInv, MemInv

-----------------------------------------------------------------------------
(* The theorems. *)

LEMMA InitIInv == DirConstants /\ DirInit => IInv
<1> SUFFICES ASSUME DirConstants, DirInit PROVE IInv  OBVIOUS
<1>1. ASSUME NEW d \in Dir PROVE DirAt(d)
  <2>1. dir[d] = EmptyDir /\ origin[d] = Nothing  BY DEF DirInit
  <2>2. EmptyDir.size = 0 /\ \A k \in Kinds, i \in Shards : EmptyDir[k][i] = Unreadable
    BY DEF EmptyDir, Kinds
  <2>3. ~Unreadable.ok /\ ~OneSave(d)  BY <2>1 DEF Unreadable, OneSave, Nothing
  <2> QED  BY <2>1, <2>2, <2>3 DEF DirAt, DirConstants
<1> QED  BY <1>1 DEF IInv, DirInv, MemInv, DirInit

LEMMA StepIInv == DirConstants /\ IInv /\ [DirNext]_dirVars => IInv'
<1> SUFFICES ASSUME DirConstants, IInv, [DirNext]_dirVars PROVE IInv'  OBVIOUS
<1>1. ASSUME NEW j \in Flags, NEW trainer \in BOOLEAN, Start(j, trainer) PROVE IInv'
  BY <1>1, StepStart
<1>2. ASSUME NEW Often \in SUBSET FeatureId \ {{}}, Train(Often, FeatureId \ Often) PROVE IInv'
  BY <1>2, StepTrain
<1>3. ASSUME NEW done \in Progress, NEW torn \in SUBSET DOMAIN mem, Save(done, torn) PROVE IInv'
  BY <1>3, StepSave
<1>4. CASE UNCHANGED dirVars
  <2>1. UNCHANGED <<dir, job, mem, run, origin>>  BY <1>4 DEF dirVars
  <2>2. \A d \in Dir : DirAt(d)'  BY <2>1, SameDir DEF IInv, DirInv
  <2>3. MemInv'  BY <2>1 DEF IInv, MemInv, Share, Together, Own, Paired
  <2> QED  BY <2>1, <2>2, <2>3 DEF IInv, DirInv
<1> QED  BY <1>1, <1>2, <1>3, <1>4 DEF DirNext

LEMMA Inductive == ASSUME DirConstants PROVE DirSpec => []IInv
  BY InitIInv, StepIInv, PTL DEF DirSpec

\* Whatever jobs were started, warmed up and cut off before it, and with however
\* many shards, a job whose model is of one save has rows and optimizer rows,
\* timestamps and counts that belong together, each id in the hands of its shard
\* (Init, Pull, Push and Save of a param server and of a TrainerShard).
THEOREM RowsStayWhole == ASSUME DirConstants PROVE DirSpec => []RowsAreWhole
<1>1. IInv => RowsAreWhole
  <2> SUFFICES ASSUME IInv, job # NoJob, job.clean, NEW i \in DOMAIN mem, NEW s, s = mem[i]
               PROVE  /\ \A kind \in {"model", "optimizer", "ts", "freq"} :
                           DOMAIN s[kind] \subseteq Own(i, job.size)
                      /\ \A x \in DOMAIN s.model :
                           /\ ~(RemoveZeros /\ x \in ZeroId) =>
                                x \in DOMAIN s.optimizer /\ s.optimizer[x] = s.model[x]
                           /\ job.stores => x \in DOMAIN s.ts /\ x \in DOMAIN s.freq
                           /\ job.stores /\ ~job.warmed => s.freq[x] = "many"
    BY Zenon DEF RowsAreWhole
  <2>1. Share(s, i, job.size, job.stores, job.warmed)  BY DEF IInv, MemInv
  <2>2. \A k \in Kinds : DOMAIN s[k] \subseteq Own(i, job.size)  BY <2>1 DEF Share
  <2>3. Together(s, job.stores, job.warmed) /\ DOMAIN s.model \subseteq FeatureId
    BY <2>1 DEF Share, Together, Kinds
  <2>4. \A x \in DOMAIN s.model : ~(RemoveZeros /\ x \in ZeroId) => x \in Paired
    BY <2>3 DEF Paired
  <2> QED  BY <2>2, <2>3, <2>4 DEF Together, Kinds
<1>2. DirSpec => []IInv  BY Inductive
<1> QED  BY <1>1, <1>2, PTL

\* A warm-up leaves the rows of the model the job goes on with as they were
\* saved (WarmupModel after LoadModel).
THEOREM WarmupKeepsRows == ASSUME DirConstants PROVE DirSpec => WarmupOnlyAdds
<1>1. IInv /\ [DirNext]_dirVars =>
        [job = NoJob /\ job' # NoJob /\ job'.clean /\ job'.in # NoDir =>
           LET o == origin[job'.in] IN
           \A x \in DOMAIN o.model :
             LET s == mem'[x % job'.size] IN
             x \in DOMAIN s.model /\ s.model[x] = o.model[x]]_dirVars
  <2> SUFFICES ASSUME IInv, DirNext, job = NoJob, job' # NoJob, job'.clean, job'.in # NoDir,
                      NEW x \in DOMAIN origin[job'.in].model, NEW s, s = mem'[x % job'.size]
               PROVE  x \in DOMAIN s.model /\ s.model[x] = origin[job'.in].model[x]
    BY Zenon
  <2>1. PICK j \in Flags, trainer \in BOOLEAN : Start(j, trainer)
    BY DEF DirNext, Train, Save
  <2>2. /\ job'.size = j.size /\ job'.in = j.in
        /\ \A d \in {j.in, j.warm} \ {NoDir} : OneSave(d)
    BY <2>1, StartedJob
  <2>3. /\ mem' = Initialized(j) /\ j.size \in 1..MaxShard /\ j.in \in Dir
        /\ j.in # NoDir => OneSave(j.in) /\ Loadable(j.in, j.size)
        /\ j.warm # NoDir => OneSave(j.warm) /\ Warmable(j.warm, j.size, j.stores)
    BY <2>1, <2>2 DEF Start, Flags
  <2>4. x \in FeatureId
    <3>1. DOMAIN origin[j.in].model \subseteq FeatureId
      BY <2>2, <2>3 DEF IInv, DirInv, DirAt, Holds, Together, Kinds
    <3> QED  BY <2>2, <3>1
  <2>5. x % j.size \in 0..(j.size - 1) /\ x \in Own(x % j.size, j.size)
    BY <2>3, <2>4, OwnFacts
  <2>6. PICK i, w : i = x % j.size /\ w = (j.warm # NoDir \/ (j.in # NoDir /\ origin[j.in].warmed))
    OBVIOUS
  <2>7. s = Initialized(j)[i] /\ i \in 0..(j.size - 1)  BY <2>2, <2>3, <2>5, <2>6
  <2>8. \A y \in DOMAIN origin[j.in].model \cap Own(i, j.size) :
          y \in DOMAIN s.model /\ s.model[y] = origin[j.in].model[y]
    BY <2>2, <2>3, <2>6, <2>7, InitializedFacts
  <2> QED  BY <2>2, <2>5, <2>6, <2>8
<1>2. DirSpec => []IInv  BY Inductive
<1> QED  BY <1>1, <1>2, PTL DEF DirSpec, WarmupOnlyAdds

-----------------------------------------------------------------------------
(* Restarting. *)

\* n shards that have their parts of f have f.
LEMMA WholeIs ==
  ASSUME DirConstants, NEW n \in 1..MaxShard, NEW f, IsFn(f), DOMAIN f \subseteq FeatureId,
         NEW r, NEW k, \A i \in 0..(n - 1) : r[i][k] = Only(f, Own(i, n))
  PROVE  Whole(r, k, n) = f
<1>1. PICK P : P = [i \in 0..(n - 1) |-> r[i][k]]  OBVIOUS
<1>2. \A i \in 0..(n - 1) : P[i] = r[i][k]  BY <1>1
<1>p. \A i \in 0..(n - 1) : P[i] = Only(f, Own(i, n))  BY <1>2
<1>3. /\ \A i \in 0..(n - 1) : \A x \in DOMAIN P[i] : x \in DOMAIN f /\ i = x % n /\ P[i][x] = f[x]
      /\ \A x \in DOMAIN f : x % n \in 0..(n - 1) /\ x \in DOMAIN P[x % n]
  BY <1>p, UnionFacts, Zenon
<1>4. UNION {DOMAIN r[i][k] : i \in 0..(n - 1)} = DOMAIN f
  <2>1. ASSUME NEW x \in UNION {DOMAIN r[i][k] : i \in 0..(n - 1)} PROVE x \in DOMAIN f
    <3>1. PICK i \in 0..(n - 1) : x \in DOMAIN r[i][k]  OBVIOUS
    <3> QED  BY <1>2, <1>3, <3>1
  <2>2. ASSUME NEW x \in DOMAIN f PROVE x \in UNION {DOMAIN r[i][k] : i \in 0..(n - 1)}
    <3>1. x % n \in 0..(n - 1) /\ x \in DOMAIN r[x % n][k]  BY <1>2, <1>3
    <3> QED  BY <3>1
  <2> QED  BY <2>1, <2>2
<1>5. ASSUME NEW x \in DOMAIN f
      PROVE  r[CHOOSE i \in 0..(n - 1) : x \in DOMAIN r[i][k]][k][x] = f[x]
  <2>1. PICK c : c = CHOOSE i \in 0..(n - 1) : x \in DOMAIN r[i][k]  OBVIOUS
  <2>2. \E i \in 0..(n - 1) : x \in DOMAIN r[i][k]  BY <1>2, <1>3
  <2>3. c \in 0..(n - 1) /\ x \in DOMAIN r[c][k]  BY <2>1, <2>2
  <2>4. r[c][k][x] = f[x]  BY <1>2, <1>3, <2>3
  <2> QED  BY <2>1, <2>4
<1>6. Whole(r, k, n) = [x \in DOMAIN f |-> r[CHOOSE i \in 0..(n - 1) : x \in DOMAIN r[i][k]][k][x]]
  BY <1>4 DEF Whole
<1>7. Whole(r, k, n) = [x \in DOMAIN f |-> f[x]]  BY <1>5, <1>6
<1> QED  BY <1>7, Zenon DEF IsFn

\* What is found for an id that one shard may have is what that shard has.
LEMMA WholeAt ==
  ASSUME DirConstants, NEW n \in 1..MaxShard, NEW r, NEW k,
         \A i \in 0..(n - 1) : DOMAIN r[i][k] \subseteq Own(i, n),
         NEW i \in 0..(n - 1), NEW x \in DOMAIN r[i][k]
  PROVE  Whole(r, k, n)[x] = r[i][k][x]
<1>1. PICK c : c = CHOOSE j \in 0..(n - 1) : x \in DOMAIN r[j][k]  OBVIOUS
<1>2. c \in 0..(n - 1) /\ x \in DOMAIN r[c][k]  BY <1>1
<1>3. c = x % n /\ i = x % n  BY <1>2, OwnFacts
<1>4. x \in UNION {DOMAIN r[j][k] : j \in 0..(n - 1)}  OBVIOUS
<1>5. Whole(r, k, n)[x] = r[c][k][x]  BY <1>1, <1>4 DEF Whole
<1> QED  BY <1>3, <1>5

\* A complete save can be read by any number of shards.
LEMMA CompleteReads ==
  ASSUME DirConstants, DirInv, NEW d \in Dir, origin[d].what = "complete", NEW n \in 1..MaxShard
  PROVE  /\ Loadable(d, n)
         /\ origin[d].stores => \A i \in 0..(n - 1) : Read(d, "ts", i, n).ok /\ Read(d, "freq", i, n).ok
<1>1. /\ dir[d].size > 0 /\ dir[d].size \in 0..MaxShard
      /\ \A i \in 0..(dir[d].size - 1) :
           /\ dir[d].model[i].ok /\ dir[d].optimizer[i].ok
           /\ origin[d].stores => dir[d].ts[i].ok /\ dir[d].freq[i].ok
  BY DEF DirInv, DirAt, OneSave, Holds
<1>2. ASSUME NEW k \in Kinds, \A i \in 0..(dir[d].size - 1) : dir[d][k][i].ok, NEW i \in 0..(n - 1)
      PROVE  Read(d, k, i, n).ok
  BY <1>2 DEF Read, Written
<1>3. ASSUME NEW i \in 0..(n - 1)
      PROVE  /\ Read(d, "model", i, n).ok /\ Read(d, "optimizer", i, n).ok
             /\ origin[d].stores => Read(d, "ts", i, n).ok /\ Read(d, "freq", i, n).ok
  BY <1>1, <1>2 DEF Kinds
<1> QED  BY <1>1, <1>3 DEF Loadable

\* Between two jobs nothing that was saved is lost, invented or mixed up: the
\* shards of the next one, however many, have it all or refuse to start
\* (LoadModel, LoadOptimizer, LoadTSStore, LoadFreqStore and the merging of
\* shards).
THEOREM RestartsAreFaithful == ASSUME DirConstants PROVE DirSpec => []RestartIsFaithful
<1>1. IInv => RestartIsFaithful
  <2> SUFFICES ASSUME IInv, NEW d \in Dir, NEW n \in 1..MaxShard,
                      NEW o, o = origin[d], NEW m, m = Restart(d, n)
               PROVE  /\ o.what = "complete" => Loadable(d, n)
                      /\ OneSave(d) /\ Loadable(d, n) =>
                           /\ Whole(m, "model", n) = o.model
                           /\ Whole(m, "optimizer", n) = o.optimizer
                           /\ o.what = "complete" /\ o.stores =>
                                Whole(m, "ts", n) = o.ts /\ Whole(m, "freq", n) = o.freq
                           /\ \A x \in DOMAIN o.model :
                                /\ \/ Whole(m, "ts", n)[x] = TsNow(run + 1)
                                   \/ o.stores /\ Whole(m, "ts", n)[x] = o.ts[x]
                                /\ \/ Whole(m, "freq", n)[x] = "many"
                                   \/ o.stores /\ Whole(m, "freq", n)[x] = o.freq[x]
    BY DEF RestartIsFaithful
  <2>1. DirInv  BY DEF IInv
  <2>2. o.what = "complete" => Loadable(d, n)  BY <2>1, CompleteReads
  <2>3. ASSUME OneSave(d), Loadable(d, n)
        PROVE  /\ Whole(m, "model", n) = o.model
               /\ Whole(m, "optimizer", n) = o.optimizer
               /\ o.what = "complete" /\ o.stores =>
                    Whole(m, "ts", n) = o.ts /\ Whole(m, "freq", n) = o.freq
               /\ \A x \in DOMAIN o.model :
                    /\ \/ Whole(m, "ts", n)[x] = TsNow(run + 1)
                       \/ o.stores /\ Whole(m, "ts", n)[x] = o.ts[x]
                    /\ \/ Whole(m, "freq", n)[x] = "many"
                       \/ o.stores /\ Whole(m, "freq", n)[x] = o.freq[x]
    <3>1. PICK now : now = TsNow(run + 1)  OBVIOUS
    <3>2. \A i \in 0..(n - 1) : m[i] = LoadShard(d, i, n, TRUE, now)  BY <3>1 DEF Restart
    <3>3. ASSUME NEW i \in 0..(n - 1)
          PROVE  /\ m[i]["model"] = Only(o.model, Own(i, n))
                 /\ m[i]["optimizer"] = Only(o.optimizer, Own(i, n))
                 /\ Share(m[i], i, n, TRUE, o.warmed) /\ Stores(m[i], d, i, n, now)
      <4>1. PICK s : s = m[i]  OBVIOUS
      <4>2. s = LoadShard(d, i, n, TRUE, now)  BY <3>2, <4>1
      <4>3. /\ s.model = Only(o.model, Own(i, n)) /\ s.optimizer = Only(o.optimizer, Own(i, n))
            /\ Share(s, i, n, TRUE, o.warmed) /\ Stores(s, d, i, n, now)
        BY <2>1, <2>3, <4>2, LoadFacts
      <4>4. s["model"] = s.model /\ s["optimizer"] = s.optimizer  BY <4>2 DEF LoadShard
      <4> QED  BY <4>1, <4>3, <4>4
    <3>4. \A k \in Kinds : IsFn(o[k]) /\ DOMAIN o[k] \subseteq FeatureId
      BY <2>1, <2>3 DEF DirInv, DirAt, Holds, Together
    <3>5. Whole(m, "model", n) = o.model
      <4>1. IsFn(o.model) /\ DOMAIN o.model \subseteq FeatureId  BY <3>4 DEF Kinds
      <4> QED  BY <3>3, <4>1, WholeIs
    <3>6. Whole(m, "optimizer", n) = o.optimizer
      <4>1. IsFn(o.optimizer) /\ DOMAIN o.optimizer \subseteq FeatureId  BY <3>4 DEF Kinds
      <4> QED  BY <3>3, <4>1, WholeIs
    <3>7. ASSUME o.what = "complete", o.stores
          PROVE  Whole(m, "ts", n) = o.ts /\ Whole(m, "freq", n) = o.freq
      <4>1. \A i \in 0..(n - 1) : Read(d, "ts", i, n).ok /\ Read(d, "freq", i, n).ok
        BY <2>1, <3>7, CompleteReads
      <4>2. \A i \in 0..(n - 1) : /\ m[i]["ts"] = Only(o.ts, Own(i, n))
                                  /\ m[i]["freq"] = Only(o.freq, Own(i, n))
        BY <3>3, <4>1 DEF Stores
      <4>3. /\ IsFn(o.ts) /\ DOMAIN o.ts \subseteq FeatureId
            /\ IsFn(o.freq) /\ DOMAIN o.freq \subseteq FeatureId
        BY <3>4 DEF Kinds
      <4>4. Whole(m, "ts", n) = o.ts  BY <4>2, <4>3, WholeIs
      <4>5. Whole(m, "freq", n) = o.freq  BY <4>2, <4>3, WholeIs
      <4> QED  BY <4>4, <4>5
    <3>8. ASSUME NEW x \in DOMAIN o.model
          PROVE  /\ \/ Whole(m, "ts", n)[x] = TsNow(run + 1)
                    \/ o.stores /\ Whole(m, "ts", n)[x] = o.ts[x]
                 /\ \/ Whole(m, "freq", n)[x] = "many"
                    \/ o.stores /\ Whole(m, "freq", n)[x] = o.freq[x]
      <4>1. PICK i : i = x % n  OBVIOUS
      <4>2. i \in 0..(n - 1) /\ x \in Own(i, n)
        <5>1. x \in FeatureId  BY <3>4 DEF Kinds
        <5> QED  BY <4>1, <5>1, OwnFacts
      <4>3. x \in DOMAIN m[i].model
        <5>1. m[i].model = Only(o.model, Own(i, n))  BY <3>3, <4>2
        <5> QED  BY <4>2, <5>1 DEF Only, Restrict
      <4>4. x \in DOMAIN m[i]["ts"] /\ x \in DOMAIN m[i]["freq"]
        BY <3>3, <4>2, <4>3 DEF Share, Together
      <4>5. \A j \in 0..(n - 1) : DOMAIN m[j]["ts"] \subseteq Own(j, n) /\ DOMAIN m[j]["freq"] \subseteq Own(j, n)
        BY <3>3 DEF Share, Kinds
      <4>6. Whole(m, "ts", n)[x] = m[i]["ts"][x]  BY <4>2, <4>4, <4>5, WholeAt
      <4>7. Whole(m, "freq", n)[x] = m[i]["freq"][x]  BY <4>2, <4>4, <4>5, WholeAt
      <4>8. /\ m[i].ts[x] = now \/ (o.stores /\ m[i].ts[x] = o.ts[x])
            /\ m[i].freq[x] = "many" \/ (o.stores /\ m[i].freq[x] = o.freq[x])
        BY <3>3, <4>2, <4>3 DEF Stores
      <4> QED  BY <3>1, <4>6, <4>7, <4>8
    <3> QED  BY <3>5, <3>6, <3>7, <3>8
  <2> QED  BY <2>2, <2>3
<1>2. DirSpec => []IInv  BY Inductive
<1> QED  BY <1>1, <1>2, PTL
=============================================================================
