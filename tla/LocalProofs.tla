----------------------------- MODULE LocalProofs ----------------------------
(***************************************************************************)
(* Proofs about three of the sequential parts: OLStore for any tables,     *)
(* ids, thresholds and values; InstanceReader for any number of tensors,   *)
(* batches of any size, files of any length and any malformed lines in     *)
(* them; HashMap for any keys, hash function, values and numbers of slots. *)
(***************************************************************************)
EXTENDS OLStore, InstanceReader, HashMap, FiniteSetTheorems, SequenceTheorems,
        WellFoundedInduction, TLAPS

-----------------------------------------------------------------------------
(***************************************************************************)
(* The online-learning store.                                              *)
(***************************************************************************)

OLTyped ==
  /\ DOMAIN W \subseteq Pair /\ DOMAIN prev \subseteq Pair /\ DOMAIN out \subseteq Pair
  /\ \A p \in DOMAIN W : W[p] \in Int
  /\ \A p \in DOMAIN prev : prev[p] \in Int
  /\ \A p \in DOMAIN out : out[p] \in Int
  /\ update \in [Pair -> 0..UpdateThreshold + 1]
  /\ pushed \in [Pair -> 0..UpdateThreshold + 1]
  /\ torn \subseteq Pair

\* No update of p is forgotten before it is seen: the store has counted those
\* that the consumer lacks, and a row it has not counted is as it was collected.
Counted(p) ==
  /\ pushed[p] <= update[p]
  /\ p \in DOMAIN prev /\ update[p] = 0 => W[p] = prev[p]

\* The consumer's copy of a collected row is as old as the store's, or younger
\* and taken while the row was near it.
Near(p) ==
  p \in DOMAIN prev =>
    p \in DOMAIN W /\ p \in DOMAIN out /\ Distance(out[p], prev[p]) <= DistanceThreshold

OLInv == OLTyped /\ \A p \in Pair \ torn : Counted(p) /\ Near(p)

-----------------------------------------------------------------------------
(* Facts about the data. *)

\* A count that goes up stays in its range, is positive, and no smaller; the
\* order of two counts is kept.
LEMMA UpGrows ==
  ASSUME UpdateThreshold \in Nat, NEW m \in 0..UpdateThreshold + 1, NEW n \in 0..UpdateThreshold + 1
  PROVE  /\ Up(n) \in 0..UpdateThreshold + 1 /\ Up(n) > 0
         /\ m <= n => Up(m) <= Up(n) /\ m <= Up(n)
<1> DEFINE T == UpdateThreshold + 1
<1>1. ASSUME NEW k \in Nat PROVE Up(k) = IF k + 1 <= T THEN k + 1 ELSE T
  <2>1. \E x \in {k + 1, T} : \A y \in {k + 1, T} : x =< y  BY <1>1
  <2>2. Up(k) \in {k + 1, T} /\ \A y \in {k + 1, T} : Up(k) =< y  BY <2>1 DEF Up, Min
  <2> QED  BY <1>1, <2>2
<1> QED  BY <1>1

\* Distances are numbers, 0 for what is equal, the same both ways, and add up.
LEMMA Distances ==
  ASSUME NEW x \in Int, NEW y \in Int, NEW z \in Int
  PROVE  /\ Distance(x, y) \in Nat /\ Distance(x, x) = 0 /\ Distance(x, y) = Distance(y, x)
         /\ Distance(x, z) <= Distance(x, y) + Distance(y, z)
BY DEF Distance

-----------------------------------------------------------------------------
(* The invariant. *)

LEMMA OLInitInv == OLConstants /\ OLInit => OLInv
<1> SUFFICES ASSUME OLConstants, OLInit PROVE OLInv  OBVIOUS
<1>1. W \in {[p \in {} |-> 0], [p \in Pair |-> 0]} /\ prev = W /\ out = W  BY DEF OLInit, NoRows
<1>2. OLTyped  BY <1>1 DEF OLTyped, OLInit, OLConstants
<1>3. ASSUME NEW p \in Pair PROVE Counted(p) /\ Near(p)
  BY <1>1 DEF Counted, Near, OLInit, Distance, OLConstants
<1> QED  BY <1>2, <1>3 DEF OLInv

LEMMA StepPull ==
  ASSUME OLConstants, OLInv, NEW S \in SUBSET Pair, Pull(S)
  PROVE  OLInv'
<1>1. /\ DOMAIN W' = DOMAIN W \cup (S \ DOMAIN W)
      /\ \A p \in DOMAIN W' : W'[p] = IF p \in DOMAIN W THEN W[p] ELSE 0
  BY DEF Pull, With, OLInv, OLTyped
<1>2. OLTyped'
  <2>1. DOMAIN W' \subseteq Pair  BY <1>1 DEF OLInv, OLTyped
  <2>2. \A p \in DOMAIN W' : W'[p] \in Int  BY <1>1 DEF OLInv, OLTyped
  <2>3. UNCHANGED <<prev, update, out, pushed, torn>>  BY DEF Pull
  <2> QED  BY <2>1, <2>2, <2>3 DEF OLInv, OLTyped
<1>3. ASSUME NEW p \in Pair \ torn' PROVE Counted(p)' /\ Near(p)'
  BY <1>1, <1>3 DEF Pull, OLInv, Counted, Near
<1> QED  BY <1>2, <1>3 DEF OLInv

LEMMA StepPush ==
  ASSUME OLConstants, OLInv, NEW S \in SUBSET Pair, NEW Rare \in SUBSET Id, NEW step \in Step,
         Push(S, Rare, step)
  PROVE  OLInv'
<1> DEFINE kept == {p \in S : p[2] \notin Rare}
<1>1. /\ DOMAIN W' = DOMAIN W \cup kept
      /\ \A p \in DOMAIN W \ kept : W'[p] = W[p]
      /\ \A p \in kept : W'[p] = (IF p \in DOMAIN W THEN W[p] ELSE 0) + step
  BY DEF Push
<1>2. /\ update' = [p \in Pair |-> IF p \in S THEN Up(update[p]) ELSE update[p]]
      /\ pushed' = [p \in Pair |-> IF p \in kept THEN Up(pushed[p]) ELSE pushed[p]]
  BY DEF Push, Count
<1>3. UNCHANGED <<prev, out, torn>>  BY DEF Push
<1>4. ASSUME NEW p \in Pair
      PROVE  /\ Up(update[p]) \in 0..UpdateThreshold + 1 /\ Up(update[p]) > 0
             /\ Up(pushed[p]) \in 0..UpdateThreshold + 1
             /\ pushed[p] <= update[p] => Up(pushed[p]) <= Up(update[p]) /\ pushed[p] <= Up(update[p])
  <2>1. update[p] \in 0..UpdateThreshold + 1 /\ pushed[p] \in 0..UpdateThreshold + 1
    BY DEF OLInv, OLTyped
  <2> QED  BY <2>1, UpGrows DEF OLConstants
<1>5. step \in Int  BY DEF OLConstants
<1>6. OLTyped'
  <2>1. \A p \in DOMAIN W' : W'[p] \in Int  BY <1>1, <1>5 DEF OLInv, OLTyped
  <2>2. DOMAIN W' \subseteq Pair  BY <1>1 DEF OLInv, OLTyped
  <2>3. update' \in [Pair -> 0..UpdateThreshold + 1] /\ pushed' \in [Pair -> 0..UpdateThreshold + 1]
    BY <1>2, <1>4 DEF OLInv, OLTyped
  <2> QED  BY <1>3, <2>1, <2>2, <2>3 DEF OLInv, OLTyped
<1>7. ASSUME NEW p \in Pair \ torn' PROVE Counted(p)' /\ Near(p)'
  <2>1. Counted(p) /\ Near(p)  BY <1>3, <1>7 DEF OLInv
  <2>2. update[p] \in Nat /\ pushed[p] \in Nat  BY DEF OLInv, OLTyped
  <2>3. Counted(p)'  BY <1>1, <1>2, <1>3, <1>4, <2>1, <2>2 DEF Counted, Near
  <2>4. Near(p)'  BY <1>1, <1>3, <2>1 DEF Near
  <2> QED  BY <2>3, <2>4
<1> QED  BY <1>6, <1>7 DEF OLInv

LEMMA StepRemove ==
  ASSUME OLConstants, OLInv, NEW S \in SUBSET DOMAIN W, RemoveRows(S)
  PROVE  OLInv'
<1>1. DOMAIN W' = DOMAIN W \ S /\ \A p \in DOMAIN W' : W'[p] = W[p]
  BY DEF RemoveRows, Restrict
<1>2. /\ pushed' = [p \in Pair |-> IF p \in S THEN 0 ELSE pushed[p]]
      /\ torn' = torn \cup (S \cap DOMAIN prev)
      /\ UNCHANGED <<prev, update, out>>
  BY DEF RemoveRows
<1>3. OLTyped'  BY <1>1, <1>2 DEF OLInv, OLTyped, OLConstants
<1>4. ASSUME NEW p \in Pair \ torn' PROVE Counted(p)' /\ Near(p)'
  <2>1. Counted(p) /\ Near(p) /\ update[p] \in Nat  BY <1>2, <1>4 DEF OLInv, OLTyped
  <2>2. p \in DOMAIN prev => p \in DOMAIN W'  BY <1>1, <1>2, <1>4, <2>1 DEF Near
  <2> QED  BY <1>1, <1>2, <2>1, <2>2 DEF Counted, Near
<1> QED  BY <1>3, <1>4 DEF OLInv

LEMMA StepSave ==
  ASSUME OLConstants, OLInv, NEW written \in BOOLEAN, SaveFeatureKVModel(written)
  PROVE  OLInv' /\ ConsumerFollows'
<1> DEFINE rows == {p \in Pair : ToCollect(p)}
           sent == {p \in Pair : p[2] \in {q[2] : q \in rows}}
<1>1. /\ DOMAIN prev' = DOMAIN prev \cup rows
      /\ \A p \in rows : prev'[p] = W[p]
      /\ \A p \in DOMAIN prev \ rows : prev'[p] = prev[p]
  BY DEF SaveFeatureKVModel
<1>2. /\ update' = [p \in Pair |-> IF p \in rows THEN 0 ELSE update[p]]
      /\ W' = W /\ fresh' = written
  BY DEF SaveFeatureKVModel
<1>3. rows \subseteq sent /\ rows \subseteq DOMAIN W  BY DEF ToCollect
<1>4. ASSUME written
      PROVE  /\ DOMAIN out' = (DOMAIN out \ sent) \cup (sent \cap DOMAIN W)
             /\ \A p \in sent \cap DOMAIN W : out'[p] = W[p]
             /\ \A p \in DOMAIN out \ sent : out'[p] = out[p]
             /\ pushed' = [p \in Pair |-> IF p \in sent THEN 0 ELSE pushed[p]]
             /\ torn' = torn \ rows
  <2>1. /\ out' = [p \in (DOMAIN out \ sent) \cup (sent \cap DOMAIN W) |->
                     IF p \in sent THEN W[p] ELSE out[p]]
        /\ pushed' = [p \in Pair |-> IF p \in sent THEN 0 ELSE pushed[p]]
        /\ torn' = torn \ rows
    BY <1>4 DEF SaveFeatureKVModel
  <2> QED  BY <2>1
<1>5. ASSUME ~written PROVE torn' = torn \cup rows /\ UNCHANGED <<out, pushed>>
  BY <1>5 DEF SaveFeatureKVModel
<1>6. OLTyped'
  <2>1. DOMAIN prev' \subseteq Pair /\ \A p \in DOMAIN prev' : prev'[p] \in Int
    BY <1>1, <1>3 DEF OLInv, OLTyped
  <2>2. update' \in [Pair -> 0..UpdateThreshold + 1]  BY <1>2 DEF OLInv, OLTyped, OLConstants
  <2>3. CASE written
    <3>1. DOMAIN out' \subseteq Pair /\ \A p \in DOMAIN out' : out'[p] \in Int
      BY <1>4, <2>3 DEF OLInv, OLTyped
    <3>2. pushed' \in [Pair -> 0..UpdateThreshold + 1]  BY <1>4, <2>3 DEF OLInv, OLTyped, OLConstants
    <3>3. torn' \subseteq Pair  BY <1>4, <2>3 DEF OLInv, OLTyped
    <3> QED  BY <1>2, <2>1, <2>2, <3>1, <3>2, <3>3 DEF OLInv, OLTyped
  <2>4. CASE ~written  BY <1>2, <1>5, <2>1, <2>2, <2>4 DEF OLInv, OLTyped
  <2> QED  BY <2>3, <2>4
\* Of a row that is not collected either nothing was counted or little moved.
<1>7. ASSUME NEW p \in (Pair \ torn) \ rows, p \in DOMAIN W
      PROVE  /\ Counted(p) /\ Near(p) /\ update[p] \in Nat /\ pushed[p] \in Nat
             /\ p \in DOMAIN prev => Distance(W[p], prev[p]) <= DistanceThreshold
             /\ pushed[p] > 0 => p \in DOMAIN prev /\ pushed[p] <= UpdateThreshold
  <2>1. Counted(p) /\ Near(p) /\ update[p] \in Nat /\ pushed[p] \in Nat  BY DEF OLInv, OLTyped
  <2>2. CASE update[p] = 0
    <3>1. p \in DOMAIN prev => Distance(W[p], prev[p]) = 0
      BY <2>1, <2>2, Distances DEF Counted, OLInv, OLTyped
    <3> QED  BY <2>1, <2>2, <3>1 DEF Counted, OLConstants
  <2>3. CASE update[p] > 0
    <3>1. p \in DOMAIN prev /\ update[p] <= UpdateThreshold /\ ~(Distance(W[p], prev[p]) > DistanceThreshold)
      BY <1>7, <2>1, <2>3 DEF ToCollect, OLConstants
    <3>2. Distance(W[p], prev[p]) \in Nat  BY <1>7, <3>1, Distances DEF OLInv, OLTyped
    <3> QED  BY <2>1, <3>1, <3>2 DEF Counted, OLConstants
  <2> QED  BY <2>1, <2>2, <2>3
<1>8. ASSUME NEW p \in Pair \ torn' PROVE Counted(p)' /\ Near(p)'
  <2>1. CASE p \in rows
    <3>1. written /\ p \in sent /\ p \in DOMAIN W  BY <1>3, <1>5, <1>8, <2>1
    <3>2. pushed'[p] = 0 /\ update'[p] = 0 /\ prev'[p] = W[p] /\ W'[p] = W[p]
      BY <1>1, <1>2, <1>4, <2>1, <3>1
    <3>3. out'[p] = W[p] /\ p \in DOMAIN out' /\ W[p] \in Int  BY <1>4, <3>1 DEF OLInv, OLTyped
    <3>4. Distance(W[p], W[p]) = 0  BY <3>3, Distances
    <3>5. Counted(p)'  BY <3>2 DEF Counted
    <3>6. Near(p)'  BY <1>2, <3>1, <3>2, <3>3, <3>4 DEF Near, OLConstants
    <3> QED  BY <3>5, <3>6
  <2>2. CASE p \notin rows
    <3>1. p \in (Pair \ torn) \ rows  BY <1>4, <1>5, <1>8, <2>2
    <3>2. update'[p] = update[p] /\ W'[p] = W[p] /\ (p \in DOMAIN prev' <=> p \in DOMAIN prev)
          /\ (p \in DOMAIN prev => prev'[p] = prev[p])
      BY <1>1, <1>2, <2>2
    <3>3. pushed'[p] = 0 \/ pushed'[p] = pushed[p]  BY <1>4, <1>5
    <3>4. Counted(p) /\ Near(p) /\ update[p] \in Nat /\ pushed[p] \in Nat  BY <3>1 DEF OLInv, OLTyped
    <3>5. Counted(p)'  BY <3>2, <3>3, <3>4 DEF Counted
    <3>6. Near(p)'
      <4> SUFFICES ASSUME p \in DOMAIN prev
                   PROVE  p \in DOMAIN W' /\ p \in DOMAIN out' /\ Distance(out'[p], prev[p]) <= DistanceThreshold
        BY <3>2 DEF Near
      <4>1. p \in DOMAIN W /\ p \in DOMAIN out /\ Distance(out[p], prev[p]) <= DistanceThreshold
        BY <3>4 DEF Near
      <4>2. CASE written /\ p \in sent
        <5>1. p \in DOMAIN out' /\ out'[p] = W[p]  BY <1>4, <4>1, <4>2
        <5> QED  BY <1>2, <1>7, <3>1, <4>1, <5>1
      <4>3. CASE ~(written /\ p \in sent)
        <5>1. p \in DOMAIN out' /\ out'[p] = out[p]  BY <1>4, <1>5, <4>1, <4>3
        <5> QED  BY <1>2, <4>1, <5>1
      <4> QED  BY <4>2, <4>3
    <3> QED  BY <3>5, <3>6
  <2> QED  BY <2>1, <2>2
<1>9. ConsumerFollows'
  <2> SUFFICES ASSUME written, NEW p \in DOMAIN W \ torn', pushed'[p] > 0
               PROVE  /\ pushed'[p] <= UpdateThreshold
                      /\ p \in DOMAIN out' /\ Distance(W[p], out'[p]) <= 2 * DistanceThreshold
    BY <1>2 DEF ConsumerFollows
  <2>1. p \in Pair  BY DEF OLInv, OLTyped
  <2>2. p \notin sent /\ pushed'[p] = pushed[p]  BY <1>4, <2>1
  <2>3. p \in (Pair \ torn) \ rows  BY <1>3, <1>4, <2>1, <2>2
  <2>4. /\ p \in DOMAIN prev /\ pushed[p] <= UpdateThreshold
        /\ Distance(W[p], prev[p]) <= DistanceThreshold /\ Near(p)
    BY <1>7, <2>2, <2>3
  <2>5. p \in DOMAIN out' /\ out'[p] = out[p] /\ Distance(out[p], prev[p]) <= DistanceThreshold
    BY <1>4, <2>2, <2>4 DEF Near
  <2>6. W[p] \in Int /\ prev[p] \in Int /\ out[p] \in Int  BY <2>4 DEF OLInv, OLTyped, Near
  <2>7. /\ Distance(W[p], out[p]) <= Distance(W[p], prev[p]) + Distance(prev[p], out[p])
        /\ Distance(prev[p], out[p]) = Distance(out[p], prev[p])
        /\ Distance(W[p], out[p]) \in Nat /\ Distance(W[p], prev[p]) \in Nat /\ Distance(out[p], prev[p]) \in Nat
    BY <2>6, Distances
  <2> QED  BY <2>2, <2>4, <2>5, <2>7 DEF OLConstants
<1> QED  BY <1>6, <1>8, <1>9 DEF OLInv

LEMMA OLStepInv == OLConstants /\ OLInv /\ ConsumerFollows /\ [OLNext]_olVars => OLInv' /\ ConsumerFollows'
<1> SUFFICES ASSUME OLConstants, OLInv, ConsumerFollows, [OLNext]_olVars PROVE OLInv' /\ ConsumerFollows'
  OBVIOUS
<1>1. ASSUME NEW S \in SUBSET Pair \ {{}}, Pull(S) PROVE OLInv' /\ ConsumerFollows'
  BY <1>1, StepPull DEF Pull, ConsumerFollows
<1>2. ASSUME NEW S \in SUBSET Pair \ {{}}, NEW Rare \in SUBSET Id, NEW step \in Step, Push(S, Rare, step)
      PROVE  OLInv' /\ ConsumerFollows'
  <2>1. fresh' = FALSE  BY <1>2 DEF Push
  <2> QED  BY <1>2, <2>1, StepPush DEF ConsumerFollows
<1>3. ASSUME NEW S \in SUBSET DOMAIN W, RemoveRows(S) PROVE OLInv' /\ ConsumerFollows'
  BY <1>3, StepRemove DEF RemoveRows, ConsumerFollows
<1>4. ASSUME NEW written \in BOOLEAN, SaveFeatureKVModel(written) PROVE OLInv' /\ ConsumerFollows'
  BY <1>4, StepSave
<1>5. CASE UNCHANGED olVars
  BY <1>5 DEF olVars, OLInv, OLTyped, Counted, Near, ConsumerFollows
<1> QED  BY <1>1, <1>2, <1>3, <1>4, <1>5 DEF OLNext

\* A serving system that gets every file follows the shard, whatever rows were
\* removed and whatever saves failed in between (ol_store.cc, Collect).
THEOREM Followed == ASSUME OLConstants PROVE OLSpec => []ConsumerFollows
<1>1. OLInit => ConsumerFollows  BY DEF OLInit, ConsumerFollows
<1> QED  BY <1>1, OLInitInv, OLStepInv, PTL DEF OLSpec

-----------------------------------------------------------------------------
(***************************************************************************)
(* The instance readers.                                                   *)
(***************************************************************************)

\* A tensor: rows begin inside its values, one after the other.
Tensors ==
  [offset : Seq(Nat), value : Seq(Nat)]

Within(x) == \A i \in 1..Len(x.offset) : x.offset[i] <= Len(x.value)

ReaderTyped ==
  /\ pos \in Nat /\ Y \in Seq(Nat) /\ histSize \in Seq(Nat) /\ Len(histSize) = Len(Y)
  /\ lines \in Seq(0..AllRight)
  /\ X \in [Tensor -> Tensors]

\* What RowsAreLines says of one tensor.
Rows(t) ==
  /\ Len(X[t].offset) = Len(Y) + 1
  /\ Last(X[t].offset) = Len(X[t].value)
  /\ \A i \in DOMAIN Y :
       /\ \A f \in ToSet(Row(X[t], i)) : f = Y[i]
       /\ t <= XSize + histSize[i] => Row(X[t], i) = <<Y[i]>>

ReaderInv == ReaderTyped /\ \A t \in Tensor : Rows(t) /\ Within(X[t])

-----------------------------------------------------------------------------
(* Facts about sequences. *)

\* What is appended is at the end, and the rest as before.
LEMMA Appended ==
  ASSUME NEW v \in Seq(Nat), NEW x \in Nat
  PROVE  /\ Append(v, x) \in Seq(Nat) /\ Len(Append(v, x)) = Len(v) + 1
         /\ Last(Append(v, x)) = x
         /\ \A i \in 1..Len(v) : Append(v, x)[i] = v[i]
BY DEF Last

\* Taking away the last one leaves what was there before it.
LEMMA Trimmed ==
  ASSUME NEW v \in Seq(Nat), NEW x \in Nat
  PROVE  SubSeq(Append(v, x), 1, Len(v)) = v /\ SubSeq(v, 1, Len(v)) = v
OBVIOUS

\* A piece of a sequence is the same in a longer one.
LEMMA PieceKept ==
  ASSUME NEW v \in Seq(Nat), NEW x \in Nat, NEW a \in Nat, NEW b \in Nat, b <= Len(v)
  PROVE  SubSeq(Append(v, x), a + 1, b) = SubSeq(v, a + 1, b)
OBVIOUS

\* The piece behind the end is the new element, or nothing.
LEMMA NewPiece ==
  ASSUME NEW v \in Seq(Nat), NEW x \in Nat
  PROVE  /\ SubSeq(Append(v, x), Len(v) + 1, Len(v) + 1) = <<x>>
         /\ SubSeq(v, Len(v) + 1, Len(v)) = <<>>
<1> DEFINE u == Append(v, x)
           s == SubSeq(u, Len(v) + 1, Len(v) + 1)
           e == SubSeq(v, Len(v) + 1, Len(v))
<1>1. u \in Seq(Nat) /\ Len(u) = Len(v) + 1 /\ u[Len(v) + 1] = x  BY Appended DEF Last
<1> HIDE DEF u
<1>2. s \in Seq(Nat) /\ Len(s) = 1 /\ s[1] = u[Len(v) + 1]  BY <1>1
<1>3. e \in Seq(Nat) /\ Len(e) = 0  OBVIOUS
<1> HIDE DEF s, e
<1>4. s = <<x>>  BY <1>1, <1>2
<1>5. e = <<>>  BY <1>3
<1> QED  BY <1>4, <1>5 DEF s, e, u

-----------------------------------------------------------------------------
(* One tensor and one line. *)

\* The parser leaves the tensor as it was, or with the line's feature behind it.
LEMMA EmplacedOne ==
  ASSUME ReaderInv, NEW id \in Nat, NEW stop \in 0..AllRight, NEW partial \in BOOLEAN, NEW t \in Tensor
  PROVE  LET y == Emplaced(id, stop, partial)[t] IN
         /\ y \in Tensors /\ y.offset = X[t].offset
         /\ y.value = X[t].value \/ y.value = Append(X[t].value, id)
         /\ t < stop => y.value = Append(X[t].value, id)
<1>1. X[t] \in Tensors  BY DEF ReaderInv, ReaderTyped
<1>2. Append(X[t].value, id) \in Seq(Nat)  BY <1>1, Appended DEF Tensors
<1>3. Emplaced(id, stop, partial)[t]
        = IF t < stop \/ (t = stop /\ partial)
          THEN [offset |-> X[t].offset, value |-> Append(X[t].value, id)] ELSE X[t]
  BY DEF Emplaced
<1> QED  BY <1>1, <1>2, <1>3 DEF Tensors

\* A line that is given up leaves nothing behind.
LEMMA RejectedLine ==
  ASSUME ReaderInv, NEW id \in Nat, NEW stop \in 0..AllRight, NEW partial \in BOOLEAN
  PROVE  Reject(id, stop, partial) = X
<1> DEFINE E == Emplaced(id, stop, partial)
<1>1. ASSUME NEW t \in Tensor PROVE Trim(E[t], Len(X[t].value)) = X[t]
  <2>1. X[t] \in Tensors  BY DEF ReaderInv, ReaderTyped
  <2>2. /\ E[t] \in Tensors /\ E[t].offset = X[t].offset
        /\ E[t].value = X[t].value \/ E[t].value = Append(X[t].value, id)
    BY EmplacedOne
  <2> HIDE DEF E
  <2>3. SubSeq(E[t].value, 1, Len(X[t].value)) = X[t].value
    BY <2>1, <2>2, Trimmed DEF Tensors
  <2>4. Trim(E[t], Len(X[t].value)) = [offset |-> X[t].offset, value |-> X[t].value]
    BY <2>2, <2>3 DEF Trim
  <2> QED  BY <2>1, <2>4 DEF Tensors
<1>2. Reject(id, stop, partial) = [t \in Tensor |-> Trim(E[t], Len(X[t].value))]  BY DEF Reject
<1> HIDE DEF E
<1>3. Reject(id, stop, partial) = [t \in Tensor |-> X[t]]  BY <1>1, <1>2
<1>4. X = [t \in Tensor |-> X[t]]  BY DEF ReaderInv, ReaderTyped
<1> QED  BY <1>3, <1>4

\* o2 is o with one row more: those before it stay, and it has what u has behind
\* the values v.
RowGrown(o, v, u, id, n, o2) ==
  /\ o2 \in Seq(Nat) /\ Len(o2) = n + 2 /\ Last(o2) = Len(u)
  /\ \A i \in 1..n + 2 : o2[i] <= Len(u)
  /\ \A i \in 1..n : SubSeq(u, o2[i] + 1, o2[i + 1]) = SubSeq(v, o[i] + 1, o[i + 1])
  /\ SubSeq(u, o2[n + 1] + 1, o2[n + 2]) \in {<<>>, <<id>>}
  /\ u = Append(v, id) => SubSeq(u, o2[n + 1] + 1, o2[n + 2]) = <<id>>

\* What is behind the values when a row ends is that row.
LEMMA NextRow ==
  ASSUME NEW o \in Seq(Nat), NEW v \in Seq(Nat), NEW u \in Seq(Nat), NEW id \in Nat, NEW n \in Nat,
         Len(o) = n + 1, o[n + 1] = Len(v), \A i \in 1..n + 1 : o[i] <= Len(v),
         u = v \/ u = Append(v, id), NEW o2, o2 = Append(o, Len(u))
  PROVE  RowGrown(o, v, u, id, n, o2)
<1>1. Len(u) \in Nat /\ Len(v) <= Len(u) /\ (u = Append(v, id) => Len(u) = Len(v) + 1)
  BY Appended
<1>2. /\ o2 \in Seq(Nat) /\ Len(o2) = n + 2 /\ Last(o2) = Len(u) /\ o2[n + 2] = Len(u)
      /\ \A i \in 1..n + 1 : o2[i] = o[i]
  BY <1>1 DEF Last
<1>3. \A i \in 1..n + 1 : o[i] \in Nat  OBVIOUS
<1>4. ASSUME NEW i \in 1..n + 2 PROVE o2[i] <= Len(u)
  <2>1. CASE i = n + 2  BY <1>1, <1>2, <2>1
  <2>2. CASE i # n + 2
    <3>1. i \in 1..n + 1  BY <2>2
    <3>2. o2[i] = o[i] /\ o[i] <= Len(v) /\ o[i] \in Nat  BY <1>2, <1>3, <3>1
    <3> QED  BY <1>1, <3>2
  <2> QED  BY <2>1, <2>2
<1>5. ASSUME NEW i \in 1..n PROVE SubSeq(u, o2[i] + 1, o2[i + 1]) = SubSeq(v, o[i] + 1, o[i + 1])
  <2>1. i \in 1..n + 1 /\ i + 1 \in 1..n + 1  OBVIOUS
  <2>2. o2[i] = o[i] /\ o2[i + 1] = o[i + 1] /\ o[i] \in Nat /\ o[i + 1] \in Nat /\ o[i + 1] <= Len(v)
    BY <1>2, <1>3, <2>1
  <2>3. CASE u = v  BY <2>2, <2>3
  <2>4. CASE u = Append(v, id)
    <3>1. \A a, b \in Nat : b <= Len(v) => SubSeq(Append(v, id), a + 1, b) = SubSeq(v, a + 1, b)
      BY PieceKept
    <3>2. SubSeq(Append(v, id), o[i] + 1, o[i + 1]) = SubSeq(v, o[i] + 1, o[i + 1])
      BY <2>2, <3>1, Zenon
    <3> QED  BY <2>2, <2>4, <3>2
  <2> QED  BY <2>3, <2>4
<1>6. o2[n + 1] = Len(v)  BY <1>2
<1>7. CASE u = v
  <2>1. SubSeq(u, Len(v) + 1, Len(u)) = <<>>  BY <1>7, NewPiece
  <2>2. u # Append(v, id)  BY <1>1, <1>7
  <2> QED  BY <1>2, <1>4, <1>5, <1>6, <2>1, <2>2 DEF RowGrown
<1>8. CASE u = Append(v, id)
  <2>1. SubSeq(u, Len(v) + 1, Len(u)) = <<id>>  BY <1>1, <1>8, NewPiece
  <2> QED  BY <1>2, <1>4, <1>5, <1>6, <2>1 DEF RowGrown
<1> QED  BY <1>7, <1>8

\* A line that is taken becomes the next row of every tensor.
LEMMA AddedRow ==
  ASSUME ReaderConstants, ReaderInv, NEW id \in Nat, NEW stop \in XSize + 1..AllRight, NEW partial \in BOOLEAN,
         NEW t \in Tensor,
         X' = [s \in Tensor |-> AddRow(Emplaced(id, stop, partial)[s])],
         Y' = Append(Y, id), histSize' = Append(histSize, stop - XSize - 1)
  PROVE  X'[t] \in Tensors /\ Rows(t)' /\ Within(X[t])'
<1>1. /\ X[t] \in Tensors /\ Rows(t) /\ Within(X[t])
      /\ Y \in Seq(Nat) /\ histSize \in Seq(Nat) /\ Len(histSize) = Len(Y)
  BY DEF ReaderInv, ReaderTyped
<1>2. XSize \in Nat /\ HistSize \in Nat /\ t \in Nat /\ stop \in 0..AllRight /\ stop - XSize - 1 \in Nat
  BY DEF ReaderConstants, Tensor, AllRight
<1>3. PICK y \in Tensors : /\ y = Emplaced(id, stop, partial)[t] /\ y.offset = X[t].offset
                           /\ y.value = X[t].value \/ y.value = Append(X[t].value, id)
                           /\ t < stop => y.value = Append(X[t].value, id)
  BY <1>2, EmplacedOne
<1>4. PICK o \in Seq(Nat), v \in Seq(Nat), u \in Seq(Nat) :
        o = X[t].offset /\ v = X[t].value /\ u = y.value
  BY <1>1 DEF Tensors
<1>grown. PICK o2 : o2 = Append(o, Len(u))  OBVIOUS
<1> DEFINE n == Len(Y)
<1>5. X'[t] = [offset |-> o2, value |-> u]
  <2>1. X'[t] = AddRow(y)  BY <1>3
  <2> QED  BY <1>3, <1>4, <1>grown, <2>1 DEF AddRow
<1>6. /\ Len(o) = n + 1 /\ n \in Nat /\ o[n + 1] = Len(v) /\ \A i \in 1..n + 1 : o[i] <= Len(v)
      /\ u = v \/ u = Append(v, id)
  BY <1>1, <1>3, <1>4 DEF Rows, Within, Last, n
<1> HIDE DEF n
<1>7. RowGrown(o, v, u, id, n, o2)  BY <1>6, <1>grown, NextRow
<1>8. X'[t].offset = o2 /\ X'[t].value = u  BY <1>5
<1>9. /\ Y' \in Seq(Nat) /\ Len(Y') = n + 1 /\ DOMAIN Y' = 1..n + 1 /\ Y'[n + 1] = id
      /\ \A i \in 1..n : Y'[i] = Y[i]
  BY <1>1, Appended DEF Last, n
<1>10. histSize'[n + 1] = stop - XSize - 1 /\ \A i \in 1..n : histSize'[i] = histSize[i]
  BY <1>1, <1>2, Appended DEF Last, n
<1>11. \A i : Row(X'[t], i) = SubSeq(u, o2[i] + 1, o2[i + 1])  BY <1>8 DEF Row
<1>12. \A i \in 1..n : Row(X[t], i) = SubSeq(v, o[i] + 1, o[i + 1])  BY <1>4 DEF Row
<1>13. ASSUME NEW i \in 1..n
       PROVE  /\ \A f \in ToSet(Row(X'[t], i)) : f = Y'[i]
              /\ t <= XSize + histSize'[i] => Row(X'[t], i) = <<Y'[i]>>
  <2>1. Row(X'[t], i) = Row(X[t], i)  BY <1>7, <1>11, <1>12 DEF RowGrown
  <2>2. i \in DOMAIN Y  BY <1>1 DEF n
  <2>3. /\ \A f \in ToSet(Row(X[t], i)) : f = Y[i]
        /\ t <= XSize + histSize[i] => Row(X[t], i) = <<Y[i]>>
    BY <1>1, <2>2 DEF Rows
  <2> QED  BY <1>9, <1>10, <2>1, <2>3
<1>14. /\ \A f \in ToSet(Row(X'[t], n + 1)) : f = Y'[n + 1]
       /\ t <= XSize + histSize'[n + 1] => Row(X'[t], n + 1) = <<Y'[n + 1]>>
  <2>1. t <= XSize + (stop - XSize - 1) => t < stop  BY <1>2
  <2>2. ToSet(<<>>) = {} /\ ToSet(<<id>>) = {id}  BY DEF ToSet
  <2>3. (n + 1) + 1 = n + 2  BY <1>6
  <2>4. Row(X'[t], n + 1) = SubSeq(u, o2[n + 1] + 1, o2[n + 2])  BY <1>11, <2>3
  <2>5. Row(X'[t], n + 1) \in {<<>>, <<id>>} /\ (t < stop => Row(X'[t], n + 1) = <<id>>)
    BY <1>3, <1>4, <1>7, <2>4 DEF RowGrown
  <2> QED  BY <1>9, <1>10, <2>1, <2>2, <2>5
<1>15. ASSUME NEW i \in DOMAIN Y'
       PROVE  /\ \A f \in ToSet(Row(X'[t], i)) : f = Y'[i]
              /\ t <= XSize + histSize'[i] => Row(X'[t], i) = <<Y'[i]>>
  <2>1. i \in 1..n \/ i = n + 1  BY <1>6, <1>9
  <2> QED  BY <1>13, <1>14, <2>1
<1>16. Rows(t)'
  <2>1. Len(X'[t].offset) = Len(Y') + 1 /\ Last(X'[t].offset) = Len(X'[t].value)
    BY <1>6, <1>7, <1>8, <1>9 DEF RowGrown
  <2> QED  BY <1>15, <2>1 DEF Rows, Row
<1>17. Within(X[t])'  BY <1>6, <1>7, <1>8 DEF Within, RowGrown
<1>18. X'[t] \in Tensors  BY <1>5, <1>7 DEF Tensors, RowGrown
<1> QED  BY <1>16, <1>17, <1>18

-----------------------------------------------------------------------------
(* The invariant. *)

\* Tensors without rows are right.
LEMMA EmptyTensors ==
  X = EmptyX /\ Y = <<>> /\ histSize = <<>> =>
         /\ X \in [Tensor -> Tensors] /\ Y \in Seq(Nat) /\ histSize \in Seq(Nat)
         /\ Len(histSize) = Len(Y)
         /\ \A t \in Tensor : Rows(t) /\ Within(X[t])
<1> SUFFICES ASSUME X = EmptyX, Y = <<>>, histSize = <<>>
             PROVE  /\ X \in [Tensor -> Tensors] /\ Y \in Seq(Nat) /\ histSize \in Seq(Nat)
                    /\ Len(histSize) = Len(Y)
                    /\ \A t \in Tensor : Rows(t) /\ Within(X[t])
  OBVIOUS
<1>1. /\ <<0>> \in Seq(Nat) /\ <<>> \in Seq(Nat) /\ Len(<<0>>) = 1 /\ Len(<<>>) = 0
      /\ <<0>>[1] = 0 /\ DOMAIN <<>> = {}
  OBVIOUS
<1>2. [offset |-> <<0>>, value |-> <<>>] \in Tensors  BY <1>1 DEF Tensors
<1>3. ASSUME NEW t \in Tensor PROVE Rows(t) /\ Within(X[t])
  <2>1. X[t].offset = <<0>> /\ X[t].value = <<>>  BY DEF EmptyX
  <2>2. Within(X[t])  BY <1>1, <2>1 DEF Within
  <2>3. Rows(t)  BY <1>1, <2>1 DEF Rows, Last
  <2> QED  BY <2>2, <2>3
<1> QED  BY <1>1, <1>2, <1>3 DEF EmptyX

LEMMA ReaderInitInv == ReaderInit => ReaderInv
<1> SUFFICES ASSUME ReaderInit PROVE ReaderInv  OBVIOUS
<1>1. lines \in Seq(0..AllRight) /\ pos \in Nat  BY DEF ReaderInit
<1> QED  BY <1>1, EmptyTensors DEF ReaderInit, ReaderInv, ReaderTyped

\* A line is taken or given up.
LEMMA StepReadLine == ReaderConstants /\ ReaderInv /\ ReadLine => ReaderInv'
<1> SUFFICES ASSUME ReaderConstants, ReaderInv, NEW partial \in BOOLEAN, pos < Len(lines),
                    ParseLine(lines[pos + 1], partial), pos' = pos + 1, lines' = lines
             PROVE  ReaderInv'
  BY DEF ReadLine
<1> DEFINE stop == lines[pos + 1]
           id == pos + 1
<1>1. /\ pos \in Nat /\ lines \in Seq(0..AllRight) /\ XSize \in Nat /\ HistSize \in Nat
      /\ Y \in Seq(Nat) /\ histSize \in Seq(Nat) /\ Len(histSize) = Len(Y)
  BY DEF ReaderInv, ReaderTyped, ReaderConstants
<1>2. stop \in 0..AllRight /\ id \in Nat
  <2>1. pos + 1 \in 1..Len(lines) /\ pos + 1 \in Nat  BY <1>1
  <2>2. \A n \in 1..Len(lines) : lines[n] \in 0..AllRight  BY <1>1, ElementOfSeq, Zenon
  <2> QED  BY <2>1, <2>2, Zenon
<1> HIDE DEF stop
<1>3. CASE stop <= XSize
  <2>1. X' = Reject(id, stop, partial) /\ UNCHANGED <<Y, histSize>>  BY <1>3 DEF ParseLine, stop
  <2>2. X' = X  BY <1>2, <2>1, RejectedLine
  <2>3. ReaderTyped'  BY <1>2, <2>1, <2>2 DEF ReaderInv, ReaderTyped
  <2>4. ASSUME NEW t \in Tensor PROVE Rows(t)' /\ Within(X[t])'
    <3>1. Rows(t) /\ Within(X[t])  BY DEF ReaderInv
    <3> QED  BY <2>1, <2>2, <3>1 DEF Rows, Within, Row
  <2> QED  BY <2>3, <2>4 DEF ReaderInv
<1>4. CASE ~(stop <= XSize)
  <2>1. /\ X' = [t \in Tensor |-> AddRow(Emplaced(id, stop, partial)[t])]
        /\ Y' = Append(Y, id) /\ histSize' = Append(histSize, stop - XSize - 1)
    BY <1>4 DEF ParseLine, stop
  <2>2. stop \in XSize + 1..AllRight  BY <1>1, <1>2, <1>4 DEF AllRight
  <2>3. \A t \in Tensor : X'[t] \in Tensors /\ Rows(t)' /\ Within(X[t])'
    BY <1>2, <2>1, <2>2, AddedRow
  <2>4. X' \in [Tensor -> Tensors]  BY <2>1, <2>3
  <2>5. /\ Y' \in Seq(Nat) /\ histSize' \in Seq(Nat) /\ Len(histSize') = Len(Y') /\ pos' \in Nat
    BY <1>1, <1>2, <2>1, <2>2
  <2> QED  BY <1>1, <2>3, <2>4, <2>5 DEF ReaderInv, ReaderTyped
<1> QED  BY <1>3, <1>4

LEMMA ReaderStepInv == ReaderConstants /\ ReaderInv /\ [ReaderNext]_readerVars => ReaderInv'
<1> SUFFICES ASSUME ReaderConstants, ReaderInv, [ReaderNext]_readerVars PROVE ReaderInv'  OBVIOUS
<1>1. ASSUME X' = EmptyX, Y' = <<>>, histSize' = <<>>, pos' \in Nat, lines' \in Seq(0..AllRight)
      PROVE  ReaderInv'
  <2>1. (X = EmptyX /\ Y = <<>> /\ histSize = <<>> =>
           /\ X \in [Tensor -> Tensors] /\ Y \in Seq(Nat) /\ histSize \in Seq(Nat)
           /\ Len(histSize) = Len(Y)
           /\ \A t \in Tensor : Rows(t) /\ Within(X[t]))'
    BY EmptyTensors, PTL
  <2>2. EmptyX' = EmptyX  BY DEF EmptyX
  <2> QED  BY <1>1, <2>1, <2>2 DEF ReaderInv, ReaderTyped
<1>2. ASSUME UNCHANGED <<X, Y, histSize, pos, lines>> PROVE ReaderInv'
  BY <1>2 DEF ReaderInv, ReaderTyped, Rows, Within, Row
<1>3. CASE OpenFile
  <2>1. PICK n \in 0..MaxLine : lines' \in [1..n -> 0..AllRight]  BY <1>3 DEF OpenFile
  <2>3. n \in Nat  BY <2>1 DEF ReaderConstants
  <2>4. Seq(0..AllRight) = UNION {[1..m -> 0..AllRight] : m \in Nat}  BY SeqDef
  <2>2. lines' \in Seq(0..AllRight)  BY <2>1, <2>3, <2>4, Zenon
  <2> QED  BY <1>1, <1>3, <2>2 DEF OpenFile
<1>4. CASE GetBatch
  BY <1>1, <1>2, <1>4 DEF GetBatch, tensors, ReaderInv, ReaderTyped
<1>5. CASE ReadLine  BY <1>5, StepReadLine
<1>6. CASE EndOfFile \/ InitBatch \/ Forward \/ UNCHANGED readerVars
  BY <1>2, <1>6 DEF EndOfFile, InitBatch, Forward, readerVars, tensors
<1> QED  BY <1>3, <1>4, <1>5, <1>6 DEF ReaderNext

\* Whatever lines are malformed and wherever the parser gives them up, a row of
\* a batch has the features of one line (the readers' Parse).
THEOREM RowsStayLines == ASSUME ReaderConstants PROVE ReaderSpec => []RowsAreLines
<1>1. ReaderInv => RowsAreLines  BY DEF ReaderInv, Rows, RowsAreLines
<1> QED  BY <1>1, ReaderInitInv, ReaderStepInv, PTL DEF ReaderSpec

-----------------------------------------------------------------------------
(* Which lines have been read, and which of them the operators have seen. *)

Increasing(s) == \A i, j \in DOMAIN s : i < j => s[i] < s[j]

\* The lines that parse among the first n of the file.
WellFormed(n) == {i \in 1..n : lines[i] > XSize}

\* The lines that have been taken out of the file: those that Forward has had,
\* and before it those of the batch.
Consumed == IF pc \in {"read", "batch", "forward"} THEN trained \o Y ELSE trained

FlowTyped ==
  /\ pos \in Nat /\ pos <= Len(lines) /\ lines \in Seq(0..AllRight)
  /\ Y \in Seq(Nat) /\ trained \in Seq(Nat) /\ instBatch = Len(Y)
  /\ opBatch \in Int /\ open \in BOOLEAN
  /\ pc \in {"idle", "get", "read", "batch", "forward"}

\* A batch is full unless the file has ended, and the file is read to its end.
BatchInv ==
  /\ pc = "get" => open /\ (Y = <<>> \/ Len(Y) = Batch)
  /\ pc = "read" => open /\ Len(Y) < Batch
  /\ pc \in {"batch", "forward"} /\ open => Len(Y) = Batch
  /\ pc \in {"batch", "forward", "idle"} /\ ~open => pos = Len(lines)
  /\ pc = "idle" => ~open

\* The operators are as InitForward left them.
ShapeInv ==
  /\ opBatch # -1 => shape = <<file, opBatch>>
  /\ pc = "forward" => opBatch = instBatch

TakenInv == Increasing(Consumed) /\ ToSet(Consumed) = WellFormed(pos)

FlowInv == FlowTyped /\ BatchInv /\ ShapeInv /\ TakenInv

\* One more line behind those that were taken before it.
LEMMA TakenOne ==
  ASSUME NEW s \in Seq(Nat), NEW n \in Nat, Increasing(s), \A x \in ToSet(s) : x < n
  PROVE  Append(s, n) \in Seq(Nat) /\ Increasing(Append(s, n)) /\ ToSet(Append(s, n)) = ToSet(s) \cup {n}
<1> DEFINE u == Append(s, n)
<1>1. /\ u \in Seq(Nat) /\ DOMAIN u = 1..Len(s) + 1 /\ DOMAIN s = 1..Len(s) /\ Len(s) \in Nat
      /\ u[Len(s) + 1] = n /\ \A i \in 1..Len(s) : u[i] = s[i] /\ s[i] \in Nat
  OBVIOUS
<1> HIDE DEF u
<1>2. \A i \in 1..Len(s) : s[i] < n  BY <1>1 DEF ToSet
<1>3. Increasing(u)
  <2> SUFFICES ASSUME NEW i \in 1..Len(s) + 1, NEW j \in 1..Len(s) + 1, i < j PROVE u[i] < u[j]
    BY <1>1 DEF Increasing
  <2>1. i \in 1..Len(s)  BY <1>1
  <2>2. CASE j = Len(s) + 1  BY <1>1, <1>2, <2>1, <2>2
  <2>3. CASE j # Len(s) + 1
    <3>1. j \in 1..Len(s)
      <4>1. Len(s) \in Nat  OBVIOUS
      <4> QED  BY <2>3, <4>1
    <3> QED  BY <1>1, <2>1, <3>1 DEF Increasing
  <2> QED  BY <2>2, <2>3
<1>4. ToSet(u) = ToSet(s) \cup {n}
  <2>1. ASSUME NEW x \in ToSet(u) PROVE x \in ToSet(s) \cup {n}
    <3>1. PICK i \in 1..Len(s) + 1 : x = u[i]  BY <1>1 DEF ToSet
    <3>2. i \in 1..Len(s) \/ i = Len(s) + 1  BY <1>1
    <3> QED  BY <1>1, <3>1, <3>2 DEF ToSet
  <2>2. ASSUME NEW x \in ToSet(s) PROVE x \in ToSet(u)
    <3>1. PICK i \in 1..Len(s) : x = s[i]  BY <1>1 DEF ToSet
    <3>2. i \in DOMAIN u  BY <1>1
    <3> QED  BY <1>1, <3>1, <3>2 DEF ToSet
  <2>3. n \in ToSet(u)
    <3>1. Len(s) + 1 \in DOMAIN u  BY <1>1
    <3> QED  BY <1>1, <3>1 DEF ToSet
  <2> QED  BY <2>1, <2>2, <2>3
<1> QED  BY <1>1, <1>3, <1>4 DEF u

LEMMA FlowInit == ReaderInit => FlowInv
<1> SUFFICES ASSUME ReaderInit PROVE FlowInv  OBVIOUS
<1>1. /\ <<>> \in Seq(Nat) /\ <<>> \in Seq(0..AllRight) /\ Len(<<>>) = 0 /\ DOMAIN <<>> = {}
  OBVIOUS
<1>2. FlowTyped
  <2>1. pos \in Nat /\ pos <= Len(lines) /\ opBatch \in Int  BY <1>1 DEF ReaderInit
  <2>2. lines \in Seq(0..AllRight) /\ Y \in Seq(Nat) /\ trained \in Seq(Nat) /\ instBatch = Len(Y)
    BY <1>1 DEF ReaderInit
  <2>3. open \in BOOLEAN /\ pc \in {"idle", "get", "read", "batch", "forward"}  BY DEF ReaderInit
  <2> QED  BY <2>1, <2>2, <2>3 DEF FlowTyped
<1>5. BatchInv /\ ShapeInv  BY <1>1 DEF ReaderInit, BatchInv, ShapeInv
<1>3. Consumed = <<>> /\ pos = 0  BY DEF ReaderInit, Consumed
<1>4. TakenInv  BY <1>1, <1>3 DEF TakenInv, Increasing, ToSet, WellFormed
<1> QED  BY <1>2, <1>4, <1>5 DEF FlowInv

\* A line is taken behind the others of its batch, or is not one to be taken.
LEMMA FlowReadLine == ReaderConstants /\ FlowInv /\ ReadLine => FlowInv'
<1> SUFFICES ASSUME ReaderConstants, FlowInv, ReadLine PROVE FlowInv'  OBVIOUS
<1>1. PICK partial \in BOOLEAN : ParseLine(lines[pos + 1], partial)  BY DEF ReadLine
<1>2. /\ pc = "read" /\ pos < Len(lines) /\ pos' = pos + 1
      /\ pc' = IF Len(Y') = Batch /\ Len(Y') # Len(Y) THEN "batch" ELSE "read"
      /\ UNCHANGED <<lines, open, opBatch, shape, file, trained>>
  BY DEF ReadLine
<1>3. /\ pos \in Nat /\ lines \in Seq(0..AllRight) /\ Y \in Seq(Nat) /\ trained \in Seq(Nat)
      /\ instBatch = Len(Y) /\ opBatch \in Int /\ open \in BOOLEAN /\ Batch \in Nat \ {0} /\ XSize \in Nat
      /\ open /\ Len(Y) < Batch /\ Len(Y) \in Nat
  BY <1>2 DEF FlowInv, FlowTyped, BatchInv, ReaderConstants
<1>4. Consumed = trained \o Y /\ Consumed' = trained \o Y'  BY <1>2 DEF Consumed
<1>5. Consumed \in Seq(Nat) /\ Increasing(Consumed) /\ ToSet(Consumed) = WellFormed(pos)
  BY <1>3, <1>4 DEF FlowInv, TakenInv
<1>6. lines[pos + 1] \in 0..AllRight
  <2>1. pos + 1 \in 1..Len(lines)  BY <1>2, <1>3
  <2> QED  BY <1>3, <2>1, ElementOfSeq, Zenon
<1>7. AllRight \in Nat  BY DEF AllRight, ReaderConstants
<1>8. WellFormed(pos + 1) = IF lines[pos + 1] > XSize THEN WellFormed(pos) \cup {pos + 1} ELSE WellFormed(pos)
  BY <1>3 DEF WellFormed
<1>9. WellFormed(pos)' = WellFormed(pos + 1) /\ \A x \in WellFormed(pos) : x < pos + 1
  BY <1>2, <1>3 DEF WellFormed
<1>10. ShapeInv'  BY <1>2 DEF FlowInv, ShapeInv
<1>11. CASE lines[pos + 1] <= XSize
  <2>1. UNCHANGED <<Y, instBatch>>  BY <1>1, <1>11 DEF ParseLine
  <2>2. pc' = "read"  BY <1>2, <2>1
  <2>3. FlowTyped'  BY <1>2, <1>3, <2>1, <2>2 DEF FlowTyped
  <2>4. BatchInv'  BY <1>2, <1>3, <2>1, <2>2 DEF BatchInv
  <2>5. Consumed' = Consumed  BY <1>4, <2>1
  <2>6. ~(lines[pos + 1] > XSize)  BY <1>3, <1>6, <1>7, <1>11
  <2>7. TakenInv'  BY <1>5, <1>8, <1>9, <2>5, <2>6 DEF TakenInv
  <2> QED  BY <1>10, <2>3, <2>4, <2>7 DEF FlowInv
<1>12. CASE ~(lines[pos + 1] <= XSize)
  <2>1. Y' = Append(Y, pos + 1) /\ instBatch' = Len(Y')  BY <1>1, <1>12 DEF ParseLine
  <2>2. Y' \in Seq(Nat) /\ Len(Y') = Len(Y) + 1  BY <1>3, <2>1
  <2>3. FlowTyped'  BY <1>2, <1>3, <2>1, <2>2 DEF FlowTyped
  <2>4. BatchInv'  BY <1>2, <1>3, <2>2 DEF BatchInv
  <2>5. Consumed' = Append(Consumed, pos + 1)
    <3>1. \A s, t \in Seq(Nat), n \in Nat : s \o Append(t, n) = Append(s \o t, n)  OBVIOUS
    <3> QED  BY <1>3, <1>4, <2>1, <3>1
  <2>6. lines[pos + 1] > XSize  BY <1>3, <1>6, <1>7, <1>12
  <2>7. \A x \in ToSet(Consumed) : x < pos + 1  BY <1>5, <1>9
  <2>8. pos + 1 \in Nat  BY <1>3
  <2>9. Increasing(Append(Consumed, pos + 1)) /\ ToSet(Append(Consumed, pos + 1)) = ToSet(Consumed) \cup {pos + 1}
    BY <1>5, <2>7, <2>8, TakenOne
  <2>10. TakenInv'  BY <1>5, <1>8, <1>9, <2>5, <2>6, <2>9 DEF TakenInv
  <2> QED  BY <1>10, <2>3, <2>4, <2>10 DEF FlowInv
<1> QED  BY <1>11, <1>12

LEMMA FlowStep == ReaderConstants /\ FlowInv /\ [ReaderNext]_readerVars => FlowInv'
<1> SUFFICES ASSUME ReaderConstants, FlowInv, [ReaderNext]_readerVars PROVE FlowInv'  OBVIOUS
<1> USE DEF FlowInv
<1>0. /\ <<>> \in Seq(Nat) /\ Len(<<>>) = 0 /\ DOMAIN <<>> = {}  OBVIOUS
<1>1. CASE OpenFile
  <2>1. PICK n \in 0..MaxLine : lines' \in [1..n -> 0..AllRight]  BY <1>1 DEF OpenFile
  <2>2. n \in Nat  BY <2>1 DEF ReaderConstants
  <2>3. Seq(0..AllRight) = UNION {[1..m -> 0..AllRight] : m \in Nat}  BY SeqDef
  <2>4. lines' \in Seq(0..AllRight)  BY <2>1, <2>2, <2>3, Zenon
  <2>5. FlowTyped' /\ BatchInv' /\ ShapeInv'
    BY <1>0, <1>1, <2>4 DEF OpenFile, FlowTyped, BatchInv, ShapeInv, AllRight
  <2>6. Consumed' = <<>> /\ pos' = 0  BY <1>1 DEF OpenFile, Consumed
  <2>7. TakenInv'  BY <1>0, <2>6 DEF TakenInv, Increasing, ToSet, WellFormed
  <2> QED  BY <2>5, <2>7
<1>2. CASE GetBatch
  <2>1. /\ pc = "get" /\ pc' = "read" /\ UNCHANGED <<lines, pos, open, opBatch, shape, file, trained>>
        /\ Y' = <<>> /\ instBatch' = 0
    BY <1>2 DEF GetBatch, BatchInv
  <2>2. Consumed' = trained \o <<>> /\ Consumed = trained  BY <2>1 DEF Consumed
  <2>3. Consumed' = Consumed
    <3>1. trained \in Seq(Nat)  BY DEF FlowTyped
    <3> QED  BY <2>2, <3>1
  <2>4. TakenInv'  BY <2>1, <2>3 DEF TakenInv, WellFormed
  <2>5. FlowTyped' /\ BatchInv' /\ ShapeInv'
    BY <1>0, <2>1 DEF FlowTyped, BatchInv, ShapeInv, ReaderConstants
  <2> QED  BY <2>4, <2>5
<1>3. CASE ReadLine  BY <1>3, FlowReadLine
<1>4. CASE EndOfFile
  <2>1. /\ pc = "read" /\ pos = Len(lines) /\ open' = FALSE
        /\ pc' = IF instBatch > 0 THEN "batch" ELSE "idle"
        /\ UNCHANGED <<lines, pos, tensors, opBatch, shape, file, trained>>
    BY <1>4 DEF EndOfFile
  <2>2. FlowTyped' /\ BatchInv' /\ ShapeInv'
    BY <2>1 DEF FlowTyped, BatchInv, ShapeInv, tensors
  <2>3. Consumed' = Consumed
    <3>1. Consumed = trained \o Y /\ trained \in Seq(Nat) /\ Y \in Seq(Nat)  BY <2>1 DEF Consumed, FlowTyped
    <3>2. CASE instBatch > 0  BY <2>1, <3>1, <3>2 DEF Consumed, tensors
    <3>3. CASE ~(instBatch > 0)
      <4>1. Y = <<>>  BY <3>1, <3>3 DEF FlowTyped
      <4>2. Consumed' = trained  BY <2>1, <3>3 DEF Consumed
      <4> QED  BY <3>1, <4>1, <4>2
    <3> QED  BY <3>2, <3>3
  <2>4. TakenInv'  BY <2>1, <2>3 DEF TakenInv, WellFormed
  <2> QED  BY <2>2, <2>4
<1>5. CASE InitBatch
  <2>1. FlowTyped' /\ BatchInv' /\ ShapeInv'
    BY <1>5 DEF InitBatch, FlowTyped, BatchInv, ShapeInv, tensors
  <2>2. Consumed' = Consumed /\ WellFormed(pos)' = WellFormed(pos)  BY <1>5 DEF InitBatch, Consumed, tensors, WellFormed
  <2> QED  BY <2>1, <2>2 DEF TakenInv
<1>6. CASE Forward
  <2>1. FlowTyped' /\ BatchInv' /\ ShapeInv'
    BY <1>6 DEF Forward, FlowTyped, BatchInv, ShapeInv, tensors
  <2>2. Consumed' = Consumed /\ WellFormed(pos)' = WellFormed(pos)  BY <1>6 DEF Forward, Consumed, tensors, WellFormed
  <2> QED  BY <2>1, <2>2 DEF TakenInv
<1>7. CASE UNCHANGED readerVars
  BY <1>7 DEF readerVars, FlowTyped, BatchInv, ShapeInv, TakenInv, Consumed, WellFormed
<1> QED  BY <1>1, <1>2, <1>3, <1>4, <1>5, <1>6, <1>7 DEF ReaderNext

\* Every line of a file that parses is trained once, in the order of the file,
\* by operators that were set up for a batch of that many rows: TrainFile and
\* GetBatch, for files of any length that end anywhere in a batch.
THEOREM LinesAreTrainedOnce == ASSUME ReaderConstants PROVE ReaderSpec => []EachLineOnce
<1>1. FlowInv => EachLineOnce
  <2> SUFFICES ASSUME FlowInv PROVE EachLineOnce  OBVIOUS
  <2>1. pc = "forward" => shape = <<file, Len(Y)>> /\ instBatch = Len(Y)
    BY DEF FlowInv, FlowTyped, ShapeInv
  <2>2. ASSUME pc = "idle"
        PROVE  ToSet(trained) = {i \in DOMAIN lines : lines[i] > XSize} /\ Increasing(trained)
    <3>1. Consumed = trained /\ pos = Len(lines) /\ DOMAIN lines = 1..Len(lines)
      BY <2>2 DEF FlowInv, FlowTyped, BatchInv, Consumed
    <3> QED  BY <3>1 DEF FlowInv, TakenInv, WellFormed
  <2> QED  BY <2>1, <2>2 DEF EachLineOnce, Increasing
<1> QED  BY <1>1, FlowInit, FlowStep, PTL DEF ReaderSpec

-----------------------------------------------------------------------------
(***************************************************************************)
(* The hash table: it implements PartialMap, and a lookup that does not    *)
(* end is one in a table full of erased entries.                           *)
(***************************************************************************)

(* Numbers. *)

\* The least number of a set.
LEMMA Least ==
  ASSUME NEW U, U \subseteq Nat, U # {}
  PROVE  Min(U) \in U /\ \A y \in U : Min(U) <= y
<1> DEFINE R == OpToRel(<, Nat)
<1>1. R = {p \in Nat \X Nat : p[1] < p[2]}  BY DEF OpToRel
<1>2. IsWellFoundedOn(R, Nat)  BY NatLessThanWellFounded, Zenon
<1> HIDE DEF R
<1>3. PICK x \in U : \A y \in U : ~(<<y, x>> \in R)  BY <1>2, WFMin
<1>4. \A y \in U : x <= y
  <2> TAKE y \in U
  <2>1. x \in Nat /\ y \in Nat  OBVIOUS
  <2>2. ~(<<y, x>> \in {p \in Nat \X Nat : p[1] < p[2]})  BY <1>1, <1>3
  <2> QED  BY <2>1, <2>2
<1> QED  BY <1>4 DEF Min

\* Induction over a set of numbers.
LEMMA SetInduction ==
  ASSUME NEW T, 0 \in T, \A n \in Nat : n \in T => n + 1 \in T
  PROVE  Nat \subseteq T
<1> DEFINE U == {n \in Nat : n \notin T}
<1> SUFFICES ASSUME U # {} PROVE FALSE  OBVIOUS
<1>1. PICK x \in U : \A y \in U : x <= y  BY Least
<1>2. x \in Nat /\ x # 0 /\ x \notin T  OBVIOUS
<1>3. x - 1 \in Nat /\ x - 1 < x /\ (x - 1) + 1 = x  BY <1>2
<1>4. x - 1 \in T  BY <1>1, <1>3
<1> QED  BY <1>2, <1>3, <1>4

LEMMA Division ==
  ASSUME NEW h \in Nat, NEW n \in Nat \ {0}
  PROVE  h = (h \div n) * n + (h % n) /\ h % n \in 0..(n - 1) /\ h \div n \in Nat
OBVIOUS

LEMMA Remainder ==
  ASSUME NEW q \in Nat, NEW n \in Nat \ {0}, NEW i \in 0..(n - 1)
  PROVE  (q * n + i) % n = i
OBVIOUS

\* A probe comes to every slot,
LEMMA ProbeReaches ==
  ASSUME NEW h \in Nat, NEW n \in Nat \ {0}, NEW i \in 0..(n - 1)
  PROVE  \E j \in 0..(n - 1) : (h + j) % n = i
<1>q. PICK q \in Nat, r \in 0..(n - 1) : h = q * n + r  BY Division
<1>1. CASE r <= i
  <2>1. i - r \in 0..(n - 1)  BY <1>1
  <2>2. h + (i - r) = q * n + i
    <3>1. PICK x \in Nat : x = q * n  OBVIOUS
    <3> QED  BY <1>q, <3>1
  <2> QED  BY <2>1, <2>2, Remainder
<1>2. CASE r > i
  <2>1. (i - r) + n \in 0..(n - 1)  BY <1>2
  <2>2. h + ((i - r) + n) = (q + 1) * n + i
    <3>1. PICK x \in Nat : x = q * n  OBVIOUS
    <3>2. (q + 1) * n = x + n  BY <3>1
    <3> QED  BY <1>q, <3>1, <3>2
  <2>3. ((q + 1) * n + i) % n = i
    <3>1. q + 1 \in Nat  OBVIOUS
    <3> QED  BY <3>1, Remainder
  <2> QED  BY <2>1, <2>2, <2>3
<1> QED  BY <1>1, <1>2

\* and to each once.
LEMMA Multiple ==
  ASSUME NEW d \in Int, NEW n \in Nat \ {0}, d * n < n, -n < d * n
  PROVE  d = 0
OBVIOUS

LEMMA ProbeOnce ==
  ASSUME NEW h \in Nat, NEW n \in Nat \ {0}, NEW i \in 0..(n - 1), NEW j \in 0..(n - 1),
         (h + i) % n = (h + j) % n
  PROVE  i = j
<1>1. PICK q \in Nat, r \in 0..(n - 1) : h + i = q * n + r /\ r = (h + i) % n
  <2>1. PICK x \in Nat : x = h + i  OBVIOUS
  <2> QED  BY <2>1, Division
<1>2. PICK p \in Nat, t \in 0..(n - 1) : h + j = p * n + t /\ t = (h + j) % n
  <2>1. PICK x \in Nat : x = h + j  OBVIOUS
  <2> QED  BY <2>1, Division
<1>3. i - j = q * n - p * n
  <2>1. PICK x \in Nat, y \in Nat : x = q * n /\ y = p * n  OBVIOUS
  <2> QED  BY <1>1, <1>2, <2>1
<1>4. (q - p) * n = q * n - p * n  OBVIOUS
<1>5. (q - p) * n = i - j  BY <1>3, <1>4
<1>6. i - j < n /\ -n < i - j  OBVIOUS
<1>7. q - p = 0  BY <1>5, <1>6, Multiple
<1>8. 0 * n = 0  OBVIOUS
<1> QED  BY <1>5, <1>7, <1>8

-----------------------------------------------------------------------------
(* Recursive functions. *)

\* f runs through g's steps from a, n of them.
Runs(f, a, g, n) == f[0] = a /\ \A i \in 0..(n - 1) : f[i + 1] = g[i][f[i]]

LEMMA RunExists ==
  ASSUME NEW A, NEW a \in A, NEW g, \A i \in Nat : \A x \in A : g[i][x] \in A
  PROVE  \A n \in Nat : \E f \in [0..n -> A] : Runs(f, a, g, n)
<1> DEFINE T == {n \in Nat : \E f \in [0..n -> A] : Runs(f, a, g, n)}
<1>1. 0 \in T
  <2>1. PICK f : f = [i \in 0..0 |-> a]  OBVIOUS
  <2>2. f \in [0..0 -> A] /\ Runs(f, a, g, 0)  BY <2>1 DEF Runs
  <2> QED  BY <2>2
<1>2. ASSUME NEW n \in Nat, n \in T  PROVE n + 1 \in T
  <2>1. PICK f \in [0..n -> A] : Runs(f, a, g, n)  BY <1>2
  <2>2. g[n][f[n]] \in A  BY <2>1
  <2>3. PICK h : h = [i \in 0..(n + 1) |-> IF i = n + 1 THEN g[n][f[n]] ELSE f[i]]  OBVIOUS
  <2>4. h \in [0..(n + 1) -> A]
    <3>1. \A i \in 0..(n + 1) : i = n + 1 \/ i \in 0..n  OBVIOUS
    <3> QED  BY <2>1, <2>2, <2>3, <3>1
  <2>5. h[0] = a  BY <2>1, <2>3 DEF Runs
  <2>6. \A i \in 0..n : h[i + 1] = g[i][h[i]]
    <3> TAKE i \in 0..n
    <3>1. h[i] = f[i]  BY <2>3
    <3>2. CASE i = n  BY <2>3, <3>1, <3>2
    <3>3. CASE i # n
      <4>1. i \in 0..(n - 1) /\ i + 1 \in 0..n /\ i + 1 # n + 1  BY <3>3
      <4>2. h[i + 1] = f[i + 1]  BY <2>3, <4>1
      <4>3. f[i + 1] = g[i][f[i]]  BY <2>1, <4>1 DEF Runs
      <4> QED  BY <3>1, <4>2, <4>3
    <3> QED  BY <3>2, <3>3
  <2>7. Runs(h, a, g, n + 1)  BY <2>5, <2>6 DEF Runs
  <2> QED  BY <2>4, <2>7
<1> HIDE DEF T
<1>3. Nat \subseteq T  BY <1>1, <1>2, SetInduction
<1> QED  BY <1>3 DEF T

LEMMA RunUnique ==
  ASSUME NEW a, NEW g, NEW n \in Nat, NEW m \in Nat, m <= n, NEW f, NEW h,
         Runs(f, a, g, n), Runs(h, a, g, m)
  PROVE  \A i \in 0..m : f[i] = h[i]
<1> DEFINE T == {i \in Nat : i <= m => f[i] = h[i]}
<1>1. 0 \in T  BY DEF Runs
<1>2. ASSUME NEW i \in Nat, i \in T  PROVE i + 1 \in T
  <2> SUFFICES ASSUME i + 1 <= m PROVE f[i + 1] = h[i + 1]  OBVIOUS
  <2>1. i \in 0..(m - 1) /\ i \in 0..(n - 1) /\ f[i] = h[i]  BY <1>2
  <2> QED  BY <2>1 DEF Runs
<1> HIDE DEF T
<1>3. Nat \subseteq T  BY <1>1, <1>2, SetInduction
<1> QED  BY <1>3 DEF T

\* g's steps stay in A, f is all of them from a.
StepsIn(A, g) == \A i \in Nat : \A x \in A : g[i][x] \in A
Follows(f, a, g) == f[0] = a /\ \A i \in Nat : f[i + 1] = g[i][f[i]]

LEMMA Iterates ==
  ASSUME NEW A, NEW a \in A, NEW g, StepsIn(A, g)
  PROVE  \E f \in [Nat -> A] : Follows(f, a, g)
<1>0. \A i \in Nat : \A x \in A : g[i][x] \in A  BY DEF StepsIn
<1> DEFINE F(n) == CHOOSE f \in [0..n -> A] : Runs(f, a, g, n)
<1>1. \A n \in Nat : F(n) \in [0..n -> A] /\ Runs(F(n), a, g, n)
  <2> TAKE n \in Nat
  <2>1. \E f \in [0..n -> A] : Runs(f, a, g, n)  BY <1>0, RunExists
  <2> QED  BY <2>1
<1> HIDE DEF F
<1>2. PICK f : f = [n \in Nat |-> F(n)[n]]  OBVIOUS
<1>3. f \in [Nat -> A]  BY <1>1, <1>2
<1>4. f[0] = a  BY <1>1, <1>2 DEF Runs
<1>5. \A n \in Nat : f[n + 1] = g[n][f[n]]
  <2> TAKE n \in Nat
  <2>1. Runs(F(n), a, g, n) /\ Runs(F(n + 1), a, g, n + 1)  BY <1>1
  <2>2. PICK k, l, m : k = F(n) /\ l = F(n + 1) /\ m = n + 1  OBVIOUS
  <2>3. Runs(k, a, g, n) /\ Runs(l, a, g, m) /\ m \in Nat /\ n <= m  BY <2>1, <2>2
  <2>4. l[n] = k[n]  BY <2>3, RunUnique
  <2>5. l[n + 1] = g[n][l[n]]  BY <2>2, <2>3 DEF Runs
  <2> QED  BY <1>2, <2>2, <2>4, <2>5
<1> QED  BY <1>3, <1>4, <1>5 DEF Follows

-----------------------------------------------------------------------------
(* The sizes of a table. *)

LEMMA Powers ==
  ASSUME NEW e \in Nat
  PROVE  Pow2[e] \in Nat /\ Pow2[e] >= e + 1
<1>1. PICK g : g = [i \in Nat |-> [x \in Nat |-> 2 * x]]  OBVIOUS
<1>2. PICK p \in [Nat -> Nat] : Follows(p, 1, g)
  <2>1. StepsIn(Nat, g)  BY <1>1 DEF StepsIn
  <2>2. PICK one \in Nat : one = 1  OBVIOUS
  <2> QED  BY <2>1, <2>2, Iterates
<1>3. \A i \in Nat : p[i + 1] = 2 * p[i]  BY <1>1, <1>2 DEF Follows
<1>4. p = [i \in Nat |-> IF i = 0 THEN 1 ELSE 2 * p[i - 1]]
  <2>1. ASSUME NEW i \in Nat  PROVE p[i] = IF i = 0 THEN 1 ELSE 2 * p[i - 1]
    <3>1. CASE i = 0  BY <1>2, <3>1 DEF Follows
    <3>2. CASE i # 0
      <4>1. i - 1 \in Nat /\ (i - 1) + 1 = i  BY <3>2
      <4> QED  BY <1>3, <3>2, <4>1
    <3> QED  BY <3>1, <3>2
  <2> QED  BY <1>2, <2>1
<1>5. Pow2 = [i \in Nat |-> IF i = 0 THEN 1 ELSE 2 * Pow2[i - 1]]  BY <1>4 DEF Pow2
<1> DEFINE T == {i \in Nat : Pow2[i] \in Nat /\ Pow2[i] >= i + 1}
<1>6. 0 \in T  BY <1>5
<1>7. ASSUME NEW i \in Nat, i \in T  PROVE i + 1 \in T
  <2>1. Pow2[i + 1] = 2 * Pow2[i]
    <3>1. i + 1 \in Nat /\ i + 1 # 0 /\ (i + 1) - 1 = i  OBVIOUS
    <3> QED  BY <1>5, <3>1
  <2>2. Pow2[i] \in Nat /\ Pow2[i] >= i + 1  BY <1>7
  <2>3. 2 * Pow2[i] \in Nat /\ 2 * Pow2[i] >= (i + 1) + 1  BY <2>2
  <2> QED  BY <2>1, <2>3
<1> HIDE DEF T
<1>8. Nat \subseteq T  BY <1>6, <1>7, SetInduction
<1> QED  BY <1>8 DEF T

\* A table has room for twice its entries, and slots at all.
LEMMA SizeFacts ==
  ASSUME HashMapConstants, NEW n \in Nat
  PROVE  NextSize(n) \in Nat /\ NextSize(n) >= 2 * n /\ NextSize(n) >= MinBucket
<1> DEFINE U == {p \in {Pow2[e] : e \in 0..(2 * n)} : p >= 2 * n}
<1>1. U \subseteq Nat  BY Powers
<1>2. Pow2[2 * n] \in U  BY Powers
<1> HIDE DEF U
<1>3. PICK p \in U : p = Min(U)  BY <1>1, <1>2, Least
<1>4. p \in Nat /\ p >= 2 * n  BY <1>1, <1>3 DEF U
<1>5. NextSize(n) = Max({MinBucket, p})  BY <1>3 DEF NextSize, U
<1>6. MinBucket \in Nat  BY DEF HashMapConstants
<1>7. \E x \in {MinBucket, p} : \A y \in {MinBucket, p} : x >= y
  <2>1. CASE MinBucket >= p  BY <1>4, <1>6, <2>1
  <2>2. CASE p >= MinBucket  BY <1>4, <1>6, <2>2
  <2> QED  BY <1>4, <1>6, <2>1, <2>2
<1>8. Max({MinBucket, p}) \in {MinBucket, p} /\ \A y \in {MinBucket, p} : Max({MinBucket, p}) >= y
  BY <1>7 DEF Max
<1> QED  BY <1>4, <1>5, <1>6, <1>8

-----------------------------------------------------------------------------
(* A table, flags m and entries b, of n slots. *)

Flag == {"empty", "used", "deleted"}
Entry == [key : Key \cup {NoKey}, val : Val \cup {NoVal}]
Taken(m) == {i \in DOMAIN m : m[i] = "used"}

Typed(m, b, n) ==
  /\ n \in Nat /\ m \in [0..(n - 1) -> Flag] /\ b \in [0..(n - 1) -> Entry]
  /\ \A i \in 0..(n - 1) : m[i] = "used" => b[i].key \in Key /\ b[i].val \in Val

\* No key has two slots.
Single(m, b, n) ==
  \A i, j \in 0..(n - 1) : m[i] = "used" /\ m[j] = "used" /\ b[i].key = b[j].key => i = j

\* Slot s is on k's probe, the j-th, and no empty slot comes before it.
Unbroken(m, k, j, n) == \A l \in 0..(j - 1) : m[Probe(k, l, n)] # "empty"
Reaches(m, k, s, n) ==
  \E j \in 0..(n - 1) : Probe(k, j, n) = s /\ Unbroken(m, k, j, n)

Reached(m, b, n) == \A i \in 0..(n - 1) : m[i] = "used" => Reaches(m, b[i].key, i, n)

Good(m, b, n) == Typed(m, b, n) /\ Single(m, b, n) /\ Reached(m, b, n)

\* Entries of a table.
Entries(m, b) == {b[i] : i \in Taken(m)}
Keys(m, b) == {b[i].key : i \in Taken(m)}

LEMMA SlotsCount ==
  ASSUME NEW n \in Nat
  PROVE  Cardinality(0..(n - 1)) = n /\ IsFiniteSet(0..(n - 1))
<1>1. PICK a, z \in Int : a = 0 /\ z = n - 1  OBVIOUS
<1>2. IsFiniteSet(a..z) /\ Cardinality(a..z) = IF a > z THEN 0 ELSE z - a + 1  BY FS_Interval
<1> QED  BY <1>1, <1>2

LEMMA ProbeIn ==
  ASSUME HashMapConstants, NEW k \in Key, NEW j \in Nat, NEW n \in Nat \ {0}
  PROVE  Probe(k, j, n) \in 0..(n - 1)
<1>1. PICK h \in Nat : h = Hash[k] + j  BY DEF HashMapConstants
<1> QED  BY <1>1, Division DEF Probe

\* Where a probe that ends stops: at the key or at an empty slot, with neither before.
LEMMA StopFacts ==
  ASSUME HashMapConstants, NEW m, NEW b, NEW n, NEW k \in Key, Typed(m, b, n), Ends(m, b, k)
  PROVE  /\ Stop(m, b, k) \in 0..(n - 1) /\ Stops(m, b, k, Stop(m, b, k))
         /\ \E j \in 0..(n - 1) : /\ Probe(k, j, n) = Stop(m, b, k)
                                  /\ \A l \in 0..(j - 1) : ~Stops(m, b, k, Probe(k, l, n))
<1>1. n \in Nat /\ DOMAIN m = 0..(n - 1) /\ Cardinality(DOMAIN m) = n  BY SlotsCount DEF Typed
<1>2. PICK i \in 0..(n - 1) : Stops(m, b, k, i)  BY <1>1 DEF Ends
<1>3. n \in Nat \ {0}  BY <1>1, <1>2
<1>4. PICK h \in Nat : h = Hash[k]  BY DEF HashMapConstants
<1>5. PICK j \in 0..(n - 1) : (h + j) % n = i  BY <1>3, ProbeReaches
<1> DEFINE U == {l \in 0..(n - 1) : Stops(m, b, k, Probe(k, l, n))}
<1>6. j \in U  BY <1>2, <1>4, <1>5 DEF Probe
<1>7. U \subseteq Nat  OBVIOUS
<1>8. Stop(m, b, k) = Probe(k, Min(U), n)  BY <1>1 DEF Stop
<1> HIDE DEF U
<1>9. PICK x \in U : x = Min(U) /\ \A y \in U : x <= y  BY <1>6, <1>7, Least
<1>10. x \in 0..(n - 1) /\ Stops(m, b, k, Probe(k, x, n))  BY DEF U
<1>11. Probe(k, x, n) \in 0..(n - 1)  BY <1>3, <1>10, ProbeIn
<1>12. \A l \in 0..(x - 1) : ~Stops(m, b, k, Probe(k, l, n))
  <2> SUFFICES ASSUME NEW l \in 0..(x - 1), Stops(m, b, k, Probe(k, l, n))  PROVE FALSE
    OBVIOUS
  <2>1. l \in U  BY <1>1, <1>10 DEF U
  <2> QED  BY <1>9, <1>10, <2>1
<1> QED  BY <1>8, <1>9, <1>10, <1>11, <1>12

\* A key that is there is found.
LEMMA StopFinds ==
  ASSUME HashMapConstants, NEW m, NEW b, NEW n, NEW k \in Key, Good(m, b, n),
         NEW i \in 0..(n - 1), m[i] = "used", b[i].key = k
  PROVE  Ends(m, b, k) /\ Stop(m, b, k) = i
<1>1. Typed(m, b, n) /\ Single(m, b, n) /\ n \in Nat /\ DOMAIN m = 0..(n - 1)
  BY DEF Good, Typed
<1>2. Ends(m, b, k)  BY <1>1 DEF Ends, Stops
<1>3. PICK s : s = Stop(m, b, k)  OBVIOUS
<1>4. s \in 0..(n - 1) /\ Stops(m, b, k, s)  BY <1>1, <1>2, <1>3, StopFacts
<1>5. PICK j \in 0..(n - 1) : /\ Probe(k, j, n) = s
                              /\ \A l \in 0..(j - 1) : ~Stops(m, b, k, Probe(k, l, n))
  BY <1>1, <1>2, <1>3, StopFacts
<1>6. PICK r \in 0..(n - 1) : Probe(k, r, n) = i /\ Unbroken(m, k, r, n)
  BY DEF Good, Reached, Reaches
<1>7. ~(r < j)  BY <1>5, <1>6 DEF Stops
<1>8. s = i
  <2>1. CASE r = j  BY <1>5, <1>6, <2>1
  <2>2. CASE j < r
    <3>1. m[s] # "empty"  BY <1>5, <1>6, <2>2 DEF Unbroken
    <3>2. m[s] = "used" /\ b[s].key = k  BY <1>4, <3>1 DEF Stops
    <3> QED  BY <1>1, <1>4, <3>2 DEF Single
  <2> QED  BY <1>5, <1>6, <1>7, <2>1, <2>2
<1> QED  BY <1>2, <1>3, <1>8

\* Where an entry of the key k goes: its own slot, or a free one that k's probe reaches.
LEMMA SlotFacts ==
  ASSUME HashMapConstants, NEW m, NEW b, NEW n, NEW k \in Key, Good(m, b, n), Ends(m, b, k)
  PROVE  /\ Slot(m, b, k) \in 0..(n - 1)
         /\ m[Slot(m, b, k)] = "used" => b[Slot(m, b, k)].key = k
         /\ m[Slot(m, b, k)] # "used" => /\ Reaches(m, k, Slot(m, b, k), n)
                                         /\ k \notin Keys(m, b)
<1>1. Typed(m, b, n) /\ n \in Nat /\ DOMAIN m = 0..(n - 1) /\ Cardinality(DOMAIN m) = n
  BY SlotsCount DEF Good, Typed
<1>2. PICK s : s = Stop(m, b, k)  OBVIOUS
<1>3. s \in 0..(n - 1) /\ Stops(m, b, k, s)  BY <1>1, <1>2, StopFacts
<1>4. PICK j \in 0..(n - 1) : /\ Probe(k, j, n) = s
                              /\ \A l \in 0..(j - 1) : ~Stops(m, b, k, Probe(k, l, n))
  BY <1>1, <1>2, StopFacts
<1>n. n \in Nat \ {0}  BY <1>1, <1>3
<1> DEFINE U == {l \in 0..(n - 1) : Probe(k, l, n) = s}
           D == {l \in 0..Min(U) : m[Probe(k, l, n)] = "deleted"}
<1>5. Slot(m, b, k) = IF m[s] = "used" \/ D = {} THEN s ELSE Probe(k, Min(D), n)
  BY <1>1, <1>2 DEF Slot
<1>6. Min(U) \in 0..j
  <2>1. j \in U /\ U \subseteq Nat  BY <1>1, <1>4
  <2> HIDE DEF U
  <2>2. Min(U) \in U /\ Min(U) <= j  BY <2>1, Least
  <2>3. Min(U) \in Nat  BY <2>1, <2>2
  <2> QED  BY <2>2, <2>3
<1> HIDE DEF U
<1>7. k \notin Keys(m, b) \/ m[s] = "used"
  <2> SUFFICES ASSUME k \in Keys(m, b) PROVE m[s] = "used"  OBVIOUS
  <2>1. PICK i \in 0..(n - 1) : m[i] = "used" /\ b[i].key = k  BY <1>1 DEF Keys, Taken
  <2> QED  BY <1>2, <2>1, StopFinds
<1>8. Unbroken(m, k, j, n)
  <2> SUFFICES ASSUME NEW l \in 0..(j - 1) PROVE m[Probe(k, l, n)] # "empty"  BY DEF Unbroken
  <2> QED  BY <1>4 DEF Stops
<1>9. CASE m[s] = "used"
  <2>1. Slot(m, b, k) = s  BY <1>5, <1>9
  <2>2. b[s].key = k  BY <1>3, <1>9 DEF Stops
  <2> QED  BY <1>3, <1>9, <2>1, <2>2
<1>10. CASE m[s] # "used" /\ D = {}
  <2>1. Slot(m, b, k) = s  BY <1>5, <1>10
  <2>2. Reaches(m, k, s, n)  BY <1>4, <1>8 DEF Reaches
  <2> QED  BY <1>3, <1>7, <1>10, <2>1, <2>2
<1>11. CASE m[s] # "used" /\ D # {}
  <2>1. D \subseteq 0..j  BY <1>6
  <2>2. D \subseteq Nat  BY <2>1
  <2>3. PICK d \in D : d = Min(D)  BY <1>11, <2>2, Least
  <2>4. d \in 0..j /\ m[Probe(k, d, n)] = "deleted"  BY <2>1
  <2>5. d \in 0..(n - 1) /\ Probe(k, d, n) \in 0..(n - 1)  BY <1>n, <2>4, ProbeIn
  <2>6. Slot(m, b, k) = Probe(k, d, n)  BY <1>5, <1>11, <2>3
  <2>7. Unbroken(m, k, d, n)  BY <1>8, <2>4 DEF Unbroken
  <2>8. Reaches(m, k, Probe(k, d, n), n)  BY <2>5, <2>7 DEF Reaches
  <2> QED  BY <1>7, <1>11, <2>4, <2>5, <2>6, <2>8
<1> QED  BY <1>9, <1>10, <1>11

-----------------------------------------------------------------------------
(* The map that a table holds. *)

ContentOf(m, b) == [k \in Keys(m, b) |-> b[CHOOSE i \in Taken(m) : b[i].key = k].val]

LEMMA ContentFacts ==
  ASSUME NEW m, NEW b, NEW n, Good(m, b, n)
  PROVE  /\ Taken(m) = {i \in 0..(n - 1) : m[i] = "used"}
         /\ DOMAIN ContentOf(m, b) = Keys(m, b) /\ Keys(m, b) \subseteq Key
         /\ \A i \in Taken(m) : b[i].key \in Keys(m, b) /\ ContentOf(m, b)[b[i].key] = b[i].val
<1>1. Taken(m) = {i \in 0..(n - 1) : m[i] = "used"}  BY DEF Taken, Good, Typed
<1>2. Keys(m, b) \subseteq Key  BY <1>1 DEF Keys, Good, Typed
<1>3. ASSUME NEW i \in Taken(m)
      PROVE b[i].key \in Keys(m, b) /\ ContentOf(m, b)[b[i].key] = b[i].val
  <2>1. PICK k : k = b[i].key  OBVIOUS
  <2>2. k \in Keys(m, b)  BY <2>1 DEF Keys
  <2>3. PICK c : c = CHOOSE l \in Taken(m) : b[l].key = k  OBVIOUS
  <2>4. c \in Taken(m) /\ b[c].key = k  BY <2>1, <2>3
  <2>5. c = i  BY <1>1, <2>1, <2>4 DEF Good, Single
  <2> QED  BY <2>1, <2>2, <2>3, <2>5 DEF ContentOf
<1> QED  BY <1>1, <1>2, <1>3 DEF ContentOf

\* Tables with the same entries hold the same map.
LEMMA SameEntries ==
  ASSUME NEW m, NEW b, NEW n, Good(m, b, n), NEW mm, NEW bb, NEW nn, Good(mm, bb, nn),
         Entries(m, b) = Entries(mm, bb)
  PROVE  ContentOf(m, b) = ContentOf(mm, bb) /\ Keys(m, b) = Keys(mm, bb)
<1>1. Keys(m, b) = {e.key : e \in Entries(m, b)}  BY DEF Keys, Entries
<1>2. Keys(mm, bb) = {e.key : e \in Entries(mm, bb)}  BY DEF Keys, Entries
<1>3. Keys(m, b) = Keys(mm, bb)  BY <1>1, <1>2
<1>4. ASSUME NEW k \in Keys(m, b)  PROVE ContentOf(m, b)[k] = ContentOf(mm, bb)[k]
  <2>1. PICK i \in Taken(m) : b[i].key = k  BY DEF Keys
  <2>2. b[i] \in Entries(mm, bb)  BY DEF Entries
  <2>3. PICK j \in Taken(mm) : bb[j] = b[i]  BY <2>2 DEF Entries
  <2>4. ContentOf(m, b)[k] = b[i].val  BY <2>1, ContentFacts
  <2>5. ContentOf(mm, bb)[bb[j].key] = bb[j].val  BY <2>3, ContentFacts
  <2> QED  BY <2>1, <2>3, <2>4, <2>5
<1> QED  BY <1>3, <1>4 DEF ContentOf

\* Slot s is set to hold v under the key k; the slots in gone are marked as erased.
Filled(m, b, s, k, v, mm, bb) ==
  mm = [m EXCEPT ![s] = "used"] /\ bb = [b EXCEPT ![s] = [key |-> k, val |-> v]]
Freed(m, b, gone, mm, bb) ==
  /\ mm = [i \in DOMAIN m |-> IF i \in gone THEN "deleted" ELSE m[i]]
  /\ bb = b

\* s is a free slot for k, which has none.
Open(m, b, n, k, s) ==
  s \in 0..(n - 1) /\ m[s] # "used" /\ Reaches(m, k, s, n) /\ k \notin Keys(m, b)

\* The entry of k and v has come, into slot s.
Grown(m, b, k, v, s, mm, bb) ==
  /\ Taken(mm) = Taken(m) \cup {s} /\ s \notin Taken(m)
  /\ Entries(mm, bb) = Entries(m, b) \cup {[key |-> k, val |-> v]}
  /\ ContentOf(mm, bb) = [x \in Keys(m, b) \cup {k} |-> IF x = k THEN v ELSE ContentOf(m, b)[x]]

\* A new entry, in a free slot that its key's probe reaches.
LEMMA Insertion ==
  ASSUME HashMapConstants, NEW m, NEW b, NEW n, Good(m, b, n),
         NEW k \in Key, NEW v \in Val, NEW s, Open(m, b, n, k, s),
         NEW mm, NEW bb, Filled(m, b, s, k, v, mm, bb)
  PROVE  Good(mm, bb, n) /\ Grown(m, b, k, v, s, mm, bb)
<1>0. s \in 0..(n - 1) /\ m[s] # "used" /\ Reaches(m, k, s, n) /\ k \notin Keys(m, b)
  BY DEF Open
<1>1. Typed(m, b, n) /\ n \in Nat /\ DOMAIN m = 0..(n - 1) /\ DOMAIN b = 0..(n - 1)
  BY DEF Good, Typed
<1>2. /\ \A i \in 0..(n - 1) : i # s => mm[i] = m[i] /\ bb[i] = b[i]
      /\ mm[s] = "used" /\ bb[s] = [key |-> k, val |-> v]
      /\ DOMAIN mm = 0..(n - 1) /\ DOMAIN bb = 0..(n - 1)
  BY <1>0, <1>1 DEF Filled
<1>3. Typed(mm, bb, n)
  <2>1. mm \in [0..(n - 1) -> Flag]  BY <1>0, <1>1 DEF Typed, Flag, Filled
  <2>2. bb \in [0..(n - 1) -> Entry]  BY <1>0, <1>1 DEF Typed, Entry, Filled
  <2> QED  BY <1>0, <1>1, <1>2, <2>1, <2>2 DEF Typed
<1>4. \A i \in 0..(n - 1) : m[i] = "used" => b[i].key # k
  BY <1>0, <1>1 DEF Keys, Taken
<1>5. Single(mm, bb, n)
  <2> SUFFICES ASSUME NEW i \in 0..(n - 1), NEW j \in 0..(n - 1), mm[i] = "used",
                      mm[j] = "used", bb[i].key = bb[j].key
               PROVE  i = j  BY DEF Single
  <2>1. CASE i = s /\ j # s  BY <1>0, <1>2, <1>4, <2>1
  <2>2. CASE i # s /\ j = s  BY <1>0, <1>2, <1>4, <2>2
  <2>3. CASE i # s /\ j # s  BY <1>0, <1>2, <2>3 DEF Good, Single
  <2> QED  BY <2>1, <2>2, <2>3
<1>6. ASSUME NEW x \in Key, NEW i \in 0..(n - 1), Reaches(m, x, i, n)
      PROVE  Reaches(mm, x, i, n)
  <2>1. PICK j \in 0..(n - 1) : Probe(x, j, n) = i /\ Unbroken(m, x, j, n)
    BY <1>6 DEF Reaches
  <2>2. ASSUME NEW l \in 0..(j - 1)  PROVE mm[Probe(x, l, n)] # "empty"
    <3>1. l \in Nat /\ n \in Nat \ {0}  BY <1>0, <1>1
    <3>2. Probe(x, l, n) \in 0..(n - 1)  BY <3>1, ProbeIn
    <3>3. m[Probe(x, l, n)] # "empty"  BY <2>1 DEF Unbroken
    <3> QED  BY <1>0, <1>2, <3>2, <3>3
  <2> QED  BY <2>1, <2>2 DEF Reaches, Unbroken
<1>7. Reached(mm, bb, n)
  <2> SUFFICES ASSUME NEW i \in 0..(n - 1), mm[i] = "used"
               PROVE  Reaches(mm, bb[i].key, i, n)  BY DEF Reached
  <2>1. CASE i = s
    <3>1. bb[i].key = k  BY <1>0, <1>2, <2>1
    <3> QED  BY <1>0, <1>6, <2>1, <3>1
  <2>2. CASE i # s
    <3>1. m[i] = "used" /\ bb[i] = b[i]  BY <1>0, <1>2, <2>2
    <3>2. PICK x \in Key : x = b[i].key  BY <1>0, <1>1, <3>1 DEF Typed
    <3>3. Reaches(m, x, i, n)  BY <3>1, <3>2 DEF Good, Reached
    <3> QED  BY <1>6, <3>1, <3>2, <3>3
  <2> QED  BY <2>1, <2>2
<1>8. Good(mm, bb, n)  BY <1>3, <1>5, <1>7 DEF Good
<1>9. Taken(mm) = Taken(m) \cup {s} /\ s \notin Taken(m)  BY <1>0, <1>1, <1>2 DEF Taken
<1>10. Entries(mm, bb) = Entries(m, b) \cup {[key |-> k, val |-> v]}
  <2>1. \A i \in Taken(m) : bb[i] = b[i]  BY <1>0, <1>1, <1>2, <1>9 DEF Taken
  <2>2. \A e : e \in Entries(mm, bb) <=> (\E i \in Taken(m) : e = bb[i]) \/ e = bb[s]
    BY <1>9 DEF Entries
  <2>3. \A e : e \in Entries(m, b) <=> \E i \in Taken(m) : e = b[i]  BY DEF Entries
  <2>4. \A e : e \in Entries(mm, bb) <=> e \in Entries(m, b) \/ e = bb[s]
    BY <2>1, <2>2, <2>3
  <2> QED  BY <1>0, <1>2, <2>4
<1>11. Keys(mm, bb) = Keys(m, b) \cup {k}
  <2>1. \A i \in Taken(m) : bb[i] = b[i]  BY <1>0, <1>1, <1>2, <1>9 DEF Taken
  <2>2. \A e : e \in Keys(mm, bb) <=> (\E i \in Taken(m) : e = bb[i].key) \/ e = bb[s].key
    BY <1>9 DEF Keys
  <2>3. \A e : e \in Keys(m, b) <=> \E i \in Taken(m) : e = b[i].key  BY DEF Keys
  <2>4. \A e : e \in Keys(mm, bb) <=> e \in Keys(m, b) \/ e = bb[s].key
    BY <2>1, <2>2, <2>3
  <2>5. bb[s].key = k  BY <1>0, <1>2
  <2> QED  BY <2>4, <2>5
<1>12. ASSUME NEW x \in Keys(m, b)
       PROVE  ContentOf(mm, bb)[x] = ContentOf(m, b)[x] /\ x # k
  <2>1. PICK i \in Taken(m) : b[i].key = x  BY DEF Keys
  <2>2. i \in Taken(mm) /\ bb[i] = b[i]  BY <1>0, <1>1, <1>2, <1>9, <2>1 DEF Taken
  <2>3. ContentOf(mm, bb)[bb[i].key] = bb[i].val  BY <1>8, <2>2, ContentFacts
  <2>4. ContentOf(m, b)[b[i].key] = b[i].val  BY <2>1, ContentFacts
  <2> QED  BY <1>0, <2>1, <2>2, <2>3, <2>4
<1>13. ContentOf(mm, bb)[k] = v
  <2>1. s \in Taken(mm)  BY <1>0, <1>9
  <2>2. ContentOf(mm, bb)[bb[s].key] = bb[s].val  BY <1>8, <2>1, ContentFacts
  <2> QED  BY <1>0, <1>2, <2>2
<1>14. ContentOf(mm, bb) = [x \in Keys(m, b) \cup {k} |->
                              IF x = k THEN v ELSE ContentOf(m, b)[x]]
  <2>1. PICK C : C = ContentOf(mm, bb)  OBVIOUS
  <2>2. PICK c : c = ContentOf(m, b)  OBVIOUS
  <2>3. C = [x \in Keys(mm, bb) |-> C[x]]  BY <2>1 DEF ContentOf
  <2>4. \A x \in Keys(mm, bb) : C[x] = IF x = k THEN v ELSE c[x]
    BY <1>0, <1>11, <1>12, <1>13, <2>1, <2>2
  <2> QED  BY <1>11, <2>1, <2>2, <2>3, <2>4
<1> QED  BY <1>8, <1>9, <1>10, <1>14 DEF Grown

\* A new value in the slot of the key.
LEMMA Overwriting ==
  ASSUME HashMapConstants, NEW m, NEW b, NEW n, Good(m, b, n),
         NEW k \in Key, NEW v \in Val, NEW s \in 0..(n - 1),
         m[s] = "used", b[s].key = k,
         NEW mm, NEW bb, Filled(m, b, s, k, v, mm, bb)
  PROVE  /\ Good(mm, bb, n) /\ mm = m /\ k \in Keys(m, b)
         /\ ContentOf(mm, bb) = [x \in Keys(m, b) |->
                                   IF x = k THEN v ELSE ContentOf(m, b)[x]]
<1>1. Typed(m, b, n) /\ n \in Nat /\ DOMAIN m = 0..(n - 1) /\ DOMAIN b = 0..(n - 1)
  BY DEF Good, Typed
<1>2. /\ \A i \in 0..(n - 1) : bb[i].key = b[i].key /\ (i # s => bb[i] = b[i])
      /\ bb[s] = [key |-> k, val |-> v] /\ DOMAIN bb = 0..(n - 1)
  BY <1>1 DEF Filled
<1>3. mm = m  BY <1>1 DEF Typed, Filled
<1>4. Typed(mm, bb, n)
  <2>1. bb \in [0..(n - 1) -> Entry]  BY <1>1 DEF Typed, Entry, Filled
  <2> QED  BY <1>1, <1>2, <1>3, <2>1 DEF Typed
<1>5. Single(mm, bb, n)  BY <1>2, <1>3 DEF Good, Single
<1>6. Reached(mm, bb, n)  BY <1>2, <1>3 DEF Good, Reached
<1>7. Good(mm, bb, n)  BY <1>4, <1>5, <1>6 DEF Good
<1>8. Keys(mm, bb) = Keys(m, b) /\ s \in Taken(m) /\ k \in Keys(m, b)
  <2>1. Taken(m) \subseteq 0..(n - 1) /\ s \in Taken(m)  BY <1>1 DEF Taken
  <2> QED  BY <1>2, <1>3, <2>1 DEF Keys
<1>9. ASSUME NEW x \in Keys(m, b)
      PROVE  ContentOf(mm, bb)[x] = IF x = k THEN v ELSE ContentOf(m, b)[x]
  <2>1. PICK i \in Taken(m) : b[i].key = x  BY DEF Keys
  <2>2. i \in 0..(n - 1) /\ bb[i].key = x  BY <1>1, <1>2, <2>1 DEF Taken
  <2>3. ContentOf(mm, bb)[bb[i].key] = bb[i].val  BY <1>3, <1>7, <2>1, ContentFacts
  <2>4. ContentOf(m, b)[b[i].key] = b[i].val  BY <2>1, ContentFacts
  <2>5. CASE i = s  BY <1>2, <2>1, <2>2, <2>3, <2>5
  <2>6. CASE i # s
    <3>1. x # k  BY <1>8, <2>1, <2>2, <2>6 DEF Taken, Good, Single
    <3> QED  BY <1>2, <2>1, <2>2, <2>3, <2>4, <2>6, <3>1
  <2> QED  BY <2>5, <2>6
<1>10. ContentOf(mm, bb) = [x \in Keys(m, b) |-> IF x = k THEN v ELSE ContentOf(m, b)[x]]
  <2>1. PICK C : C = ContentOf(mm, bb)  OBVIOUS
  <2>2. PICK c : c = ContentOf(m, b)  OBVIOUS
  <2>3. C = [x \in Keys(mm, bb) |-> C[x]]  BY <2>1 DEF ContentOf
  <2>4. \A x \in Keys(mm, bb) : C[x] = IF x = k THEN v ELSE c[x]
    BY <1>8, <1>9, <2>1, <2>2
  <2> QED  BY <1>8, <2>1, <2>2, <2>3, <2>4
<1> QED  BY <1>3, <1>7, <1>8, <1>10

\* The slots of the keys in S; all their entries have gone.
Victims(m, b, S) == {i \in Taken(m) : b[i].key \in S}
Shrunk(m, b, S, gone, mm, bb) ==
  /\ Taken(mm) = Taken(m) \ gone
  /\ {i \in DOMAIN mm : mm[i] # "empty"} = {i \in DOMAIN m : m[i] # "empty"}
  /\ ContentOf(mm, bb) = [x \in Keys(m, b) \ S |-> ContentOf(m, b)[x]]

\* Entries erased, and their slots marked.
LEMMA Erasing ==
  ASSUME HashMapConstants, NEW m, NEW b, NEW n, Good(m, b, n), NEW S \in SUBSET Key,
         NEW mm, NEW bb, Freed(m, b, Victims(m, b, S), mm, bb)
  PROVE  Good(mm, bb, n) /\ Shrunk(m, b, S, Victims(m, b, S), mm, bb)
<1>0. PICK gone : gone = {i \in Taken(m) : b[i].key \in S} /\ gone = Victims(m, b, S)
  BY DEF Victims
<1>1. Typed(m, b, n) /\ n \in Nat /\ DOMAIN m = 0..(n - 1) /\ DOMAIN b = 0..(n - 1)
  BY DEF Good, Typed
<1>2. gone \subseteq 0..(n - 1) /\ \A i \in gone : m[i] = "used"  BY <1>0, <1>1 DEF Taken
<1>3. /\ \A i \in 0..(n - 1) : (i \notin gone => mm[i] = m[i]) /\ bb[i] = b[i]
      /\ \A i \in gone : mm[i] = "deleted"
      /\ DOMAIN mm = 0..(n - 1) /\ DOMAIN bb = 0..(n - 1)
  BY <1>0, <1>1, <1>2 DEF Freed
<1>4. Typed(mm, bb, n)
  <2>1. mm \in [0..(n - 1) -> Flag]  BY <1>0, <1>1, <1>3 DEF Typed, Flag, Freed
  <2>2. bb \in [0..(n - 1) -> Entry]  BY <1>0, <1>1, <1>3 DEF Typed, Freed
  <2>3. \A i \in 0..(n - 1) : mm[i] = "used" => bb[i].key \in Key /\ bb[i].val \in Val
    BY <1>1, <1>3 DEF Typed
  <2> QED  BY <1>1, <2>1, <2>2, <2>3 DEF Typed
<1>5. \A i \in 0..(n - 1) : mm[i] = "used" => m[i] = "used" /\ bb[i] = b[i] /\ i \notin gone
  BY <1>3
<1>6. Single(mm, bb, n)  BY <1>5 DEF Good, Single
<1>7. \A i \in 0..(n - 1) : mm[i] = "empty" <=> m[i] = "empty"  BY <1>2, <1>3
<1>8. Reached(mm, bb, n)
  <2> SUFFICES ASSUME NEW i \in 0..(n - 1), mm[i] = "used"
               PROVE  Reaches(mm, bb[i].key, i, n)  BY DEF Reached
  <2>1. PICK x \in Key : x = b[i].key /\ x = bb[i].key  BY <1>1, <1>5 DEF Typed
  <2>2. PICK j \in 0..(n - 1) : Probe(x, j, n) = i /\ Unbroken(m, x, j, n)
    BY <1>5, <2>1 DEF Good, Reached, Reaches
  <2>3. ASSUME NEW l \in 0..(j - 1)  PROVE mm[Probe(x, l, n)] # "empty"
    <3>1. l \in Nat /\ n \in Nat \ {0}  BY <1>1
    <3>2. Probe(x, l, n) \in 0..(n - 1)  BY <3>1, ProbeIn
    <3> QED  BY <1>7, <2>2, <3>2 DEF Unbroken
  <2> QED  BY <2>1, <2>2, <2>3 DEF Reaches, Unbroken
<1>9. Good(mm, bb, n)  BY <1>4, <1>6, <1>8 DEF Good
<1>10. Taken(mm) = Taken(m) \ gone  BY <1>1, <1>3, <1>5 DEF Taken
<1>11. {i \in DOMAIN mm : mm[i] # "empty"} = {i \in DOMAIN m : m[i] # "empty"}
  BY <1>1, <1>3, <1>7
<1>12. \A i \in Taken(mm) : bb[i] = b[i] /\ i \in Taken(m) /\ b[i].key \notin S
  BY <1>0, <1>3, <1>5, <1>10 DEF Taken
<1>13. Keys(mm, bb) = Keys(m, b) \ S
  <2>1. ASSUME NEW x \in Keys(m, b), x \notin S  PROVE x \in Keys(mm, bb)
    <3>1. PICK i \in Taken(m) : b[i].key = x  BY DEF Keys
    <3>2. i \in Taken(mm)  BY <1>0, <1>10, <2>1, <3>1
    <3> QED  BY <1>12, <3>1, <3>2 DEF Keys
  <2>2. ASSUME NEW x \in Keys(mm, bb)  PROVE x \in Keys(m, b) /\ x \notin S
    <3>1. PICK i \in Taken(mm) : bb[i].key = x  BY DEF Keys
    <3> QED  BY <1>12, <3>1 DEF Keys
  <2> QED  BY <2>1, <2>2
<1>14. ASSUME NEW x \in Keys(mm, bb)  PROVE ContentOf(mm, bb)[x] = ContentOf(m, b)[x]
  <2>1. PICK i \in Taken(mm) : bb[i].key = x  BY DEF Keys
  <2>2. ContentOf(mm, bb)[bb[i].key] = bb[i].val  BY <1>9, <2>1, ContentFacts
  <2>3. ContentOf(m, b)[b[i].key] = b[i].val  BY <1>12, <2>1, ContentFacts
  <2> QED  BY <1>12, <2>1, <2>2, <2>3
<1>15. ContentOf(mm, bb) = [x \in Keys(m, b) \ S |-> ContentOf(m, b)[x]]
  <2>1. PICK C : C = ContentOf(mm, bb)  OBVIOUS
  <2>2. PICK c : c = ContentOf(m, b)  OBVIOUS
  <2>3. C = [x \in Keys(mm, bb) |-> C[x]]  BY <2>1 DEF ContentOf
  <2>4. \A x \in Keys(mm, bb) : C[x] = c[x]  BY <1>14, <2>1, <2>2
  <2> QED  BY <1>13, <2>1, <2>2, <2>3, <2>4
<1> QED  BY <1>0, <1>9, <1>10, <1>11, <1>15 DEF Shrunk

-----------------------------------------------------------------------------
(* Rehashing. *)

Marked(m) == {i \in DOMAIN m : m[i] = "deleted"}

\* A probe ends where a slot is empty.
LEMMA RoomEnds ==
  ASSUME NEW m, NEW b, NEW n, NEW k, Typed(m, b, n), Marked(m) = {},
         Cardinality(Taken(m)) < n
  PROVE  Ends(m, b, k)
<1>1. n \in Nat /\ DOMAIN m = 0..(n - 1) /\ Cardinality(0..(n - 1)) = n
  BY SlotsCount DEF Typed
<1>2. Taken(m) # 0..(n - 1)  BY <1>1
<1>3. PICK i \in 0..(n - 1) : m[i] # "used"  BY <1>1, <1>2 DEF Taken
<1>4. m[i] = "empty"  BY <1>1, <1>3 DEF Typed, Flag, Marked
<1> QED  BY <1>1, <1>4 DEF Ends, Stops

\* Entries of the first i slots of the old table.
Before(i) == {l \in Used : l < i}
Copied(t, i, n) ==
  /\ Good(t[1], t[2], n) /\ Marked(t[1]) = {}
  /\ Entries(t[1], t[2]) = {bucket[l] : l \in Before(i)}
  /\ Cardinality(Taken(t[1])) = Cardinality(Before(i))

Old == Good(meta, bucket, BucketSize)

LEMMA OldFacts ==
  ASSUME Old
  PROVE  /\ BucketSize \in Nat /\ DOMAIN meta = 0..(BucketSize - 1) /\ IsFiniteSet(DOMAIN meta)
         /\ IsFiniteSet(Used) /\ Cardinality(Used) \in Nat /\ Used = Taken(meta)
         /\ \A i \in Used : i \in 0..(BucketSize - 1) /\ bucket[i].key \in Key
                            /\ bucket[i].val \in Val
                            /\ bucket[i] = [key |-> bucket[i].key, val |-> bucket[i].val]
<1>1. BucketSize \in Nat /\ DOMAIN meta = 0..(BucketSize - 1)  BY DEF Old, Good, Typed
<1>2. IsFiniteSet(DOMAIN meta)  BY <1>1, SlotsCount
<1>3. IsFiniteSet(Used) /\ Cardinality(Used) \in Nat
  <2>1. Used \in SUBSET DOMAIN meta  BY DEF Used
  <2> QED  BY <1>2, <2>1, FS_Subset, FS_CardinalityType
<1>4. \A i \in Used : i \in 0..(BucketSize - 1) /\ bucket[i].key \in Key /\ bucket[i].val \in Val
                      /\ bucket[i] = [key |-> bucket[i].key, val |-> bucket[i].val]
  BY <1>1 DEF Used, Old, Good, Typed, Entry
<1> QED  BY <1>1, <1>2, <1>3, <1>4 DEF Used, Taken

LEMMA CopyStep ==
  ASSUME HashMapConstants, Old, NEW n \in Nat, Cardinality(Used) < n,
         NEW t, NEW i \in 0..(BucketSize - 1), Copied(t, i, n)
  PROVE  Copied(Inserted(t, i), i + 1, n)
<1>1. BucketSize \in Nat /\ IsFiniteSet(Used) /\ Cardinality(Used) \in Nat  BY OldFacts
<1>2. CASE i \notin Used
  <2>1. Inserted(t, i) = t  BY <1>2 DEF Inserted
  <2>2. Before(i + 1) = Before(i)
    <3>1. \A l \in Used : l \in 0..(BucketSize - 1) /\ l # i  BY <1>2, OldFacts
    <3>2. \A l \in Used : l < i + 1 <=> l < i  BY <1>1, <3>1
    <3> QED  BY <3>2 DEF Before
  <2> QED  BY <2>1, <2>2 DEF Copied
<1>3. CASE i \in Used
  <2>1. PICK k \in Key, v \in Val : bucket[i] = [key |-> k, val |-> v] /\ k = bucket[i].key
    BY <1>3, OldFacts
  <2>2. PICK m, b : m = t[1] /\ b = t[2]  OBVIOUS
  <2>3. /\ Good(m, b, n) /\ Marked(m) = {} /\ Entries(m, b) = {bucket[l] : l \in Before(i)}
        /\ Cardinality(Taken(m)) = Cardinality(Before(i))
    BY <2>2 DEF Copied
  <2>4. Before(i + 1) = Before(i) \cup {i} /\ i \notin Before(i)
    <3>1. \A l \in Used : l \in 0..(BucketSize - 1)  BY OldFacts
    <3>2. \A l \in Used : l < i + 1 <=> l < i \/ l = i  BY <1>1, <3>1
    <3>3. ~(i < i)  OBVIOUS
    <3>4. \A l : l \in Before(i + 1) <=> l \in Before(i) \/ l = i  BY <1>3, <3>2 DEF Before
    <3> QED  BY <3>3, <3>4 DEF Before
  <2>5. IsFiniteSet(Before(i)) /\ Cardinality(Before(i)) \in Nat
        /\ Cardinality(Before(i + 1)) = Cardinality(Before(i)) + 1
        /\ Cardinality(Before(i + 1)) <= Cardinality(Used)
    <3>1. Before(i) \in SUBSET Used /\ Before(i + 1) \in SUBSET Used  BY DEF Before
    <3>2. IsFiniteSet(Before(i)) /\ Cardinality(Before(i + 1)) <= Cardinality(Used)
      BY <1>1, <3>1, FS_Subset
    <3> QED  BY <2>4, <3>2, FS_AddElement, FS_CardinalityType
  <2>6. Ends(m, b, k)
    <3>1. Cardinality(Taken(m)) < n  BY <1>1, <2>3, <2>5
    <3> QED  BY <2>3, <3>1, RoomEnds DEF Good
  <2>7. k \notin Keys(m, b)
    <3> SUFFICES ASSUME k \in Keys(m, b) PROVE FALSE  OBVIOUS
    <3>1. PICK x \in Taken(m) : b[x].key = k  BY DEF Keys
    <3>2. b[x] \in {bucket[l] : l \in Before(i)}  BY <2>3 DEF Entries
    <3>3. PICK l \in Before(i) : bucket[l].key = k  BY <3>1, <3>2
    <3>4. l \in Used /\ l # i /\ meta[l] = "used" /\ meta[i] = "used"
      BY <1>3, <2>4 DEF Before, Used
    <3>5. l \in 0..(BucketSize - 1)  BY <3>4, OldFacts
    <3> QED  BY <2>1, <3>3, <3>4, <3>5 DEF Old, Good, Single
  <2>8. PICK s : s = Slot(m, b, k)  OBVIOUS
  <2>9. s \in 0..(n - 1) /\ m[s] # "used" /\ Reaches(m, k, s, n)
    <3>1. /\ s \in 0..(n - 1) /\ (m[s] = "used" => b[s].key = k)
          /\ (m[s] # "used" => Reaches(m, k, s, n))
      BY <2>3, <2>6, <2>8, SlotFacts
    <3>2. DOMAIN m = 0..(n - 1)  BY <2>3 DEF Good, Typed
    <3>3. m[s] # "used"  BY <2>7, <3>1, <3>2 DEF Keys, Taken
    <3> QED  BY <3>1, <3>3
  <2>10. PICK mm, bb : mm = [m EXCEPT ![s] = "used"] /\ bb = [b EXCEPT ![s] = bucket[i]]
    OBVIOUS
  <2>11. Inserted(t, i) = <<mm, bb>>  BY <1>3, <2>1, <2>2, <2>8, <2>10 DEF Inserted
  <2>12. Filled(m, b, s, k, v, mm, bb)  BY <2>1, <2>10 DEF Filled
  <2>13. /\ Good(mm, bb, n) /\ Taken(mm) = Taken(m) \cup {s} /\ s \notin Taken(m)
         /\ Entries(mm, bb) = Entries(m, b) \cup {[key |-> k, val |-> v]}
    <3>1. k \in Key /\ v \in Val  BY <2>1
    <3>2. Good(m, b, n)  BY <2>3
    <3>3. Open(m, b, n, k, s)  BY <2>7, <2>9 DEF Open
    <3>4. Good(mm, bb, n) /\ Grown(m, b, k, v, s, mm, bb)
      BY <2>12, <3>1, <3>2, <3>3, Insertion, Zenon
    <3> QED  BY <3>4 DEF Grown
  <2>14. Marked(mm) = {}  BY <2>3, <2>10 DEF Marked
  <2>15. Entries(mm, bb) = {bucket[l] : l \in Before(i + 1)}
    BY <2>1, <2>3, <2>4, <2>13
  <2>16. Cardinality(Taken(mm)) = Cardinality(Before(i + 1))
    <3>1. IsFiniteSet(Taken(m))
      <4>1. Taken(m) \in SUBSET (0..(n - 1))  BY <2>3 DEF Taken, Good, Typed
      <4> QED  BY <4>1, SlotsCount, FS_Subset
    <3>2. Cardinality(Taken(m) \cup {s}) = Cardinality(Taken(m)) + 1
      BY <2>13, <3>1, FS_AddElement
    <3> QED  BY <2>3, <2>5, <2>13, <3>2
  <2>17. PICK u : u = Inserted(t, i)  OBVIOUS
  <2>18. u[1] = mm /\ u[2] = bb  BY <2>11, <2>17
  <2> QED  BY <2>13, <2>14, <2>15, <2>16, <2>17, <2>18 DEF Copied
<1> QED  BY <1>2, <1>3

\* The function that do_rehash computes.
LEMMA Unrolled ==
  ASSUME Old, NEW n \in Nat
  PROVE  \E T : /\ T[0] = <<[s \in 0..(n - 1) |-> "empty"], [s \in 0..(n - 1) |-> Vacant]>>
                /\ \A i \in 0..(BucketSize - 1) : T[i + 1] = Inserted(T[i], i)
                /\ Rehashed(n) = T[BucketSize]
<1>1. PICK B \in Nat : B = BucketSize  BY OldFacts
<1> DEFINE M == [0..(n - 1) -> Flag]
           C == [0..(n - 1) -> Entry]
<1>2. PICK z : z = <<[s \in 0..(n - 1) |-> "empty"], [s \in 0..(n - 1) |-> Vacant]>>  OBVIOUS
<1>3. z \in M \X C  BY <1>2 DEF Flag, Entry, Vacant
<1>4. ASSUME NEW t \in M \X C, NEW i  PROVE Inserted(t, i) \in M \X C
  <2>1. CASE i \notin Used  BY <2>1 DEF Inserted
  <2>2. CASE i \in Used
    <3>1. bucket[i] \in Entry
      <4>1. i \in 0..(BucketSize - 1)  BY <2>2, OldFacts
      <4> QED  BY <4>1 DEF Old, Good, Typed
    <3>2. PICK m \in M, b \in C : m = t[1] /\ b = t[2]  OBVIOUS
    <3>3. PICK s : s = Slot(m, b, bucket[i].key)  OBVIOUS
    <3>4. [m EXCEPT ![s] = "used"] \in M  BY DEF Flag
    <3>5. [b EXCEPT ![s] = bucket[i]] \in C  BY <3>1
    <3>6. Inserted(t, i) = <<[m EXCEPT ![s] = "used"], [b EXCEPT ![s] = bucket[i]]>>
      BY <2>2, <3>2, <3>3 DEF Inserted
    <3>7. PICK x \in M, y \in C : Inserted(t, i) = <<x, y>>  BY <3>4, <3>5, <3>6, Zenon
    <3> QED  BY <3>7
  <2> QED  BY <2>1, <2>2
<1> HIDE DEF M, C
<1>5. PICK A : A = M \X C  OBVIOUS
<1>6. PICK g : g = [i \in Nat |-> [t \in A |-> Inserted(t, i)]]  OBVIOUS
<1>7. StepsIn(A, g)  BY <1>4, <1>5, <1>6 DEF StepsIn
<1>8. PICK f \in [Nat -> A] : Follows(f, z, g)
  <2>1. z \in A  BY <1>3, <1>5
  <2> QED  BY <1>7, <2>1, Iterates
<1>9. f[0] = z /\ \A i \in Nat : f[i + 1] = Inserted(f[i], i)
  BY <1>6, <1>8 DEF Follows
<1>10. PICK t : t = [i \in 0..B |-> f[i]]  OBVIOUS
<1>11. t = [i \in 0..B |-> IF i = 0 THEN z ELSE Inserted(t[i - 1], i - 1)]
  <2>1. ASSUME NEW i \in 0..B  PROVE t[i] = IF i = 0 THEN z ELSE Inserted(t[i - 1], i - 1)
    <3>1. CASE i = 0  BY <1>9, <1>10, <3>1
    <3>2. CASE i # 0
      <4>1. i - 1 \in Nat /\ i - 1 \in 0..B /\ (i - 1) + 1 = i  BY <3>2
      <4>2. PICK j \in Nat : j = i - 1  BY <4>1
      <4>3. f[j + 1] = Inserted(f[j], j)  BY <1>9
      <4> QED  BY <1>10, <3>2, <4>1, <4>2, <4>3
    <3> QED  BY <3>1, <3>2
  <2> QED  BY <1>10, <2>1
<1>12. PICK T : T = [i \in 0..B |-> IF i = 0 THEN z ELSE Inserted(T[i - 1], i - 1)]
                /\ Rehashed(n) = T[B]
  <2> DEFINE Is(T) == T = [i \in 0..B |-> IF i = 0 THEN z ELSE Inserted(T[i - 1], i - 1)]
  <2>1. Rehashed(n) = (CHOOSE T : Is(T))[B]  BY <1>1, <1>2 DEF Rehashed
  <2>2. Is(t)  BY <1>11
  <2> HIDE DEF Is
  <2>3. Is(CHOOSE T : Is(T))  BY <2>2
  <2> QED  BY <2>1, <2>3 DEF Is
<1>13. T[0] = z  BY <1>12
<1>14. ASSUME NEW i \in 0..(B - 1)  PROVE T[i + 1] = Inserted(T[i], i)
  <2>1. i + 1 \in 0..B /\ i + 1 # 0 /\ (i + 1) - 1 = i  OBVIOUS
  <2> QED  BY <1>12, <2>1
<1> QED  BY <1>1, <1>2, <1>12, <1>13, <1>14

\* A rehash keeps the entries, and drops the marks.
LEMMA RehashFacts ==
  ASSUME HashMapConstants, Old, NEW n \in Nat, Cardinality(Used) < n, NEW m, NEW b,
         m = Rehashed(n)[1], b = Rehashed(n)[2]
  PROVE  /\ Good(m, b, n) /\ Marked(m) = {} /\ Cardinality(Taken(m)) = Cardinality(Used)
         /\ ContentOf(m, b) = ContentOf(meta, bucket) /\ Keys(m, b) = Keys(meta, bucket)
<1>1. PICK B \in Nat : B = BucketSize  BY OldFacts
<1>2. PICK T : /\ T[0] = <<[s \in 0..(n - 1) |-> "empty"], [s \in 0..(n - 1) |-> Vacant]>>
               /\ \A i \in 0..(B - 1) : T[i + 1] = Inserted(T[i], i)
               /\ Rehashed(n) = T[B]
  BY <1>1, Unrolled
<1> DEFINE P == {i \in Nat : i <= B => Copied(T[i], i, n)}
<1>3. 0 \in P
  <2>1. PICK mm, bb : mm = [s \in 0..(n - 1) |-> "empty"] /\ bb = [s \in 0..(n - 1) |-> Vacant]
    OBVIOUS
  <2>2. T[0][1] = mm /\ T[0][2] = bb  BY <1>2, <2>1
  <2>3. Taken(mm) = {} /\ Marked(mm) = {}  BY <2>1 DEF Taken, Marked
  <2>4. Entries(mm, bb) = {}  BY <2>3 DEF Entries
  <2>5. Typed(mm, bb, n)
    <3>1. mm \in [0..(n - 1) -> Flag]  BY <2>1 DEF Flag
    <3>2. bb \in [0..(n - 1) -> Entry]  BY <2>1 DEF Entry, Vacant
    <3> QED  BY <2>1, <3>1, <3>2 DEF Typed
  <2>6. Good(mm, bb, n)  BY <2>1, <2>5 DEF Good, Single, Reached
  <2>7. Before(0) = {}
    <3>1. \A l \in Used : l \in 0..(BucketSize - 1)  BY OldFacts
    <3> QED  BY <1>1, <3>1 DEF Before
  <2>8. Copied(T[0], 0, n)  BY <2>2, <2>3, <2>4, <2>6, <2>7 DEF Copied
  <2> QED  BY <2>8
<1>4. ASSUME NEW i \in Nat, i \in P  PROVE i + 1 \in P
  <2> SUFFICES ASSUME i + 1 <= B PROVE Copied(T[i + 1], i + 1, n)  OBVIOUS
  <2>1. i \in 0..(B - 1)  OBVIOUS
  <2>2. Copied(T[i], i, n)  BY <1>4
  <2>3. PICK t : t = T[i]  OBVIOUS
  <2>4. Copied(Inserted(t, i), i + 1, n)  BY <1>1, <2>1, <2>2, <2>3, CopyStep
  <2> QED  BY <1>2, <2>1, <2>3, <2>4
<1> HIDE DEF P
<1>5. Nat \subseteq P  BY <1>3, <1>4, SetInduction
<1>6. Copied(T[B], B, n)  BY <1>5 DEF P
<1>7. Before(B) = Used
  <2>1. \A l \in Used : l \in 0..(BucketSize - 1)  BY OldFacts
  <2> QED  BY <1>1, <2>1 DEF Before
<1>8. /\ Good(m, b, n) /\ Marked(m) = {} /\ Cardinality(Taken(m)) = Cardinality(Used)
      /\ Entries(m, b) = {bucket[l] : l \in Used}
  BY <1>2, <1>6, <1>7 DEF Copied
<1>9. Entries(m, b) = Entries(meta, bucket)  BY <1>8, OldFacts DEF Entries
<1> QED  BY <1>8, <1>9, SameEntries DEF Old

-----------------------------------------------------------------------------
(* The inductive invariant. *)

Occupied(m) == {i \in DOMAIN m : m[i] # "empty"}

\* A table of n slots with z entries, threshold r and f entries since the last rehash.
Sound(m, b, n, z, r, f) ==
  /\ Good(m, b, n) /\ z = Cardinality(Taken(m))
  /\ r \in Nat /\ z <= r /\ r <= Threshold(n)
  /\ f \in Nat /\ f <= n /\ Cardinality(Occupied(m)) <= f

TableSound == Sound(meta, bucket, BucketSize, size, rehash_threshold, filled)
HashInv == TableSound /\ stuck \in BOOLEAN /\ LookupsEnd

LEMMA Thirds ==
  ASSUME NEW n \in Nat
  PROVE  /\ Threshold(n) \in Nat /\ 3 * Threshold(n) <= 2 * n
         /\ \A z \in Nat : n >= 2 * (z + 1) => Threshold(n) >= z + 1
BY DEF Threshold

LEMMA Counts ==
  ASSUME NEW m, NEW b, NEW n, Good(m, b, n)
  PROVE  /\ n \in Nat /\ DOMAIN m = 0..(n - 1) /\ Cardinality(DOMAIN m) = n
         /\ IsFiniteSet(Taken(m)) /\ Cardinality(Taken(m)) \in Nat
         /\ IsFiniteSet(Occupied(m)) /\ Cardinality(Occupied(m)) \in Nat
         /\ Cardinality(Occupied(m)) <= n /\ Cardinality(Taken(m)) <= n
<1>1. n \in Nat /\ DOMAIN m = 0..(n - 1)  BY DEF Good, Typed
<1>2. Cardinality(DOMAIN m) = n /\ IsFiniteSet(DOMAIN m)  BY <1>1, SlotsCount
<1>3. Taken(m) \in SUBSET DOMAIN m /\ Occupied(m) \in SUBSET DOMAIN m
  BY DEF Taken, Occupied
<1>4. IsFiniteSet(Taken(m)) /\ Cardinality(Taken(m)) <= n  BY <1>2, <1>3, FS_Subset
<1>5. IsFiniteSet(Occupied(m)) /\ Cardinality(Occupied(m)) <= n  BY <1>2, <1>3, FS_Subset
<1> QED  BY <1>1, <1>2, <1>4, <1>5, FS_CardinalityType

\* A probe that does not end: no slot is empty, a third of them are marked.
LEMMA NoEnd ==
  ASSUME NEW m, NEW b, NEW n, NEW z, NEW r, NEW f, Sound(m, b, n, z, r, f),
         NEW k, ~Ends(m, b, k)
  PROVE  3 * Cardinality(Marked(m)) >= n /\ f = n
<1>1. Good(m, b, n)  BY DEF Sound
<1>2. n \in Nat /\ DOMAIN m = 0..(n - 1) /\ Cardinality(DOMAIN m) = n /\ IsFiniteSet(DOMAIN m)
  BY <1>1, Counts, SlotsCount
<1>3. \A i \in DOMAIN m : m[i] # "empty"  BY DEF Ends, Stops
<1>4. Occupied(m) = DOMAIN m  BY <1>3 DEF Occupied
<1>5. f = n  BY <1>2, <1>4 DEF Sound
<1>6. Marked(m) = DOMAIN m \ Taken(m) /\ DOMAIN m \cap Taken(m) = Taken(m)
  BY <1>1, <1>2, <1>3 DEF Marked, Taken, Good, Typed, Flag
<1>7. Cardinality(Marked(m)) = n - Cardinality(Taken(m))  BY <1>2, <1>6, FS_Difference
<1>8. Cardinality(Taken(m)) \in Nat  BY <1>1, Counts
<1>9. Cardinality(Taken(m)) <= Threshold(n)  BY <1>2, <1>8, Thirds DEF Sound
<1>10. PICK c, t \in Nat : c = Cardinality(Taken(m)) /\ t = Threshold(n) /\ 3 * t <= 2 * n
  BY <1>2, <1>8, Thirds
<1>11. PICK d : d = Cardinality(Marked(m))  OBVIOUS
<1>12. d = n - c /\ c <= t  BY <1>7, <1>9, <1>10, <1>11
<1>13. 3 * d >= n  BY <1>2, <1>10, <1>12
<1> QED  BY <1>5, <1>11, <1>13

LEMMA ContentIs ==
  /\ Content = ContentOf(meta, bucket)
  /\ Content' = ContentOf(meta', bucket')
  /\ Used = Taken(meta) /\ Used' = Taken(meta')
BY DEF Content, ContentOf, Keys, Taken, Used

LEMMA NowSound ==
  ASSUME TableSound
  PROVE  /\ Old /\ BucketSize \in Nat /\ size \in Nat /\ size = Cardinality(Used)
         /\ size <= BucketSize /\ DOMAIN Content = Keys(meta, bucket)
         /\ filled \in Nat /\ filled <= BucketSize
         /\ rehash_threshold \in Nat /\ rehash_threshold <= Threshold(BucketSize)
<1>1. Good(meta, bucket, BucketSize)  BY DEF TableSound, Sound
<1>2. Used = Taken(meta) /\ Content = ContentOf(meta, bucket)  BY ContentIs
<1>3. DOMAIN Content = Keys(meta, bucket)  BY <1>1, <1>2, ContentFacts
<1>4. BucketSize \in Nat /\ Cardinality(Taken(meta)) \in Nat
      /\ Cardinality(Taken(meta)) <= BucketSize
  BY <1>1, Counts
<1> QED  BY <1>1, <1>2, <1>3, <1>4 DEF TableSound, Sound, Old

LEMMA InitSound ==
  ASSUME HashMapConstants, HashInit
  PROVE  HashInv /\ Map!Init
<1>1. DOMAIN meta = {} /\ DOMAIN bucket = {}  BY DEF HashInit
<1>2. BucketSize = 0  BY <1>1, FS_EmptySet DEF BucketSize
<1>3. 0..(0 - 1) = {}  OBVIOUS
<1>4. Typed(meta, bucket, 0)
  BY <1>3 DEF HashInit, Typed
<1>5. Good(meta, bucket, 0)  BY <1>3, <1>4 DEF Good, Single, Reached
<1>6. Taken(meta) = {} /\ Occupied(meta) = {}  BY <1>1 DEF Taken, Occupied
<1>7. Threshold(0) \in Nat  BY Thirds
<1>8. TableSound
  <2>1. Cardinality(Taken(meta)) = 0 /\ Cardinality(Occupied(meta)) = 0  BY <1>6, FS_EmptySet
  <2>2. size = 0 /\ rehash_threshold = 0 /\ filled = 0  BY DEF HashInit
  <2>3. Sound(meta, bucket, 0, 0, 0, 0)  BY <1>5, <1>7, <2>1 DEF Sound
  <2> QED  BY <1>2, <2>2, <2>3 DEF TableSound
<1>9. LookupsEnd  BY DEF LookupsEnd, HashInit
<1>10. Content = [k \in {} |-> NoVal]
  <2>1. Used = {}  BY <1>6, ContentIs
  <2> QED  BY <2>1 DEF Content
<1> QED  BY <1>8, <1>9, <1>10 DEF HashInv, HashInit, Map!Init

LEMMA HangsKeeps ==
  ASSUME HashInv, NEW k, ~Ends(meta, bucket, k), Hangs
  PROVE  HashInv' /\ UNCHANGED <<Content, reply>>
<1>1. UNCHANGED <<meta, bucket, size, rehash_threshold, reply, filled>> /\ stuck' = TRUE
  BY DEF Hangs, table
<1>2. UNCHANGED <<Content, reply>>  BY <1>1, ContentIs
<1>3. BucketSize' = BucketSize  BY <1>1 DEF BucketSize
<1>4. TableSound'  BY <1>1, <1>3 DEF HashInv, TableSound
<1>5. 3 * Cardinality(Marked(meta)) >= BucketSize /\ filled = BucketSize
  BY NoEnd DEF HashInv, TableSound
<1>6. LookupsEnd'
  <2>1. 3 * Cardinality(Marked(meta')) >= BucketSize' /\ filled' = BucketSize'
    BY <1>1, <1>3, <1>5
  <2> QED  BY <2>1 DEF LookupsEnd, Marked
<1> QED  BY <1>1, <1>2, <1>4, <1>6 DEF HashInv

LEMMA FindStep ==
  ASSUME HashMapConstants, HashInv, ~stuck, NEW k \in Key, Find(k)
  PROVE  HashInv' /\ (Map!Find(k) \/ UNCHANGED <<Content, reply>>)
<1>1. TableSound /\ Old /\ DOMAIN Content = Keys(meta, bucket)  BY NowSound DEF HashInv
<1>2. PICK n : n = BucketSize /\ Good(meta, bucket, n) /\ n \in Nat /\ DOMAIN meta = 0..(n - 1)
  BY <1>1, OldFacts DEF Old
<1>3. CASE meta # <<>> /\ ~Ends(meta, bucket, k)
  <2>1. Hangs  BY <1>3 DEF Find
  <2> QED  BY <1>3, <2>1, HangsKeeps
<1>4. CASE meta = <<>> \/ Ends(meta, bucket, k)
  <2>1. UNCHANGED <<meta, bucket, size, rehash_threshold, stuck, filled>>
    BY <1>4 DEF Find, table
  <2>2. UNCHANGED Content  BY <2>1, ContentIs
  <2>3. HashInv'
    BY <2>1 DEF HashInv, TableSound, BucketSize, LookupsEnd
  <2>4. reply' = IF k \in DOMAIN Content THEN Content[k] ELSE NoVal
    <3>1. CASE meta = <<>>
      <4>1. Taken(meta) = {}  BY <3>1 DEF Taken
      <4>2. DOMAIN Content = {}  BY <1>1, <4>1 DEF Keys
      <4> QED  BY <3>1, <4>2 DEF Find
    <3>2. CASE meta # <<>>
      <4>1. /\ Ends(meta, bucket, k)
            /\ reply' = IF meta[Stop(meta, bucket, k)] = "used"
                          THEN bucket[Stop(meta, bucket, k)].val ELSE NoVal
        BY <1>4, <3>2 DEF Find
      <4>2. PICK s : s = Stop(meta, bucket, k)  OBVIOUS
      <4>3. s \in 0..(n - 1) /\ Stops(meta, bucket, k, s)
        BY <1>2, <4>1, <4>2, StopFacts DEF Good
      <4>4. CASE k \in DOMAIN Content
        <5>1. PICK i \in Taken(meta) : bucket[i].key = k  BY <1>1, <4>4 DEF Keys
        <5>2. i \in 0..(n - 1) /\ meta[i] = "used"  BY <1>2, <5>1 DEF Taken
        <5>3. s = i  BY <1>2, <4>2, <5>1, <5>2, StopFinds
        <5>4. Content[k] = bucket[i].val  BY <1>2, <5>1, ContentFacts, ContentIs
        <5> QED  BY <4>1, <4>2, <4>4, <5>2, <5>3, <5>4
      <4>5. CASE k \notin DOMAIN Content
        <5>1. meta[s] # "used"
          <6>1. s \in DOMAIN meta  BY <1>2, <4>3
          <6> QED  BY <1>1, <4>3, <4>5, <6>1 DEF Keys, Taken, Stops
        <5> QED  BY <4>1, <4>2, <4>5, <5>1
      <4> QED  BY <4>4, <4>5
    <3> QED  BY <3>1, <3>2
  <2>5. Map!Find(k)  BY <2>2, <2>4 DEF Map!Find, Map!Lookup
  <2> QED  BY <2>3, <2>5
<1> QED  BY <1>3, <1>4

\* The table m, b of n slots that an emplace works on, its threshold r and history f.
Ready(m, b, n, r, f) ==
  /\ Good(m, b, n) /\ Cardinality(Taken(m)) = size /\ ContentOf(m, b) = Content
  /\ r \in Nat /\ size < r /\ r <= Threshold(n)
  /\ f \in Nat /\ f <= n /\ Cardinality(Occupied(m)) <= f

\* Either there is room, or a rehash makes it.
LEMMA RehashReady ==
  ASSUME HashMapConstants, TableSound, NEW n \in Nat, n >= 2 * (size + 1),
         NEW m, NEW b, m = Rehashed(n)[1], b = Rehashed(n)[2]
  PROVE  Ready(m, b, n, Threshold(n), size) /\ Marked(m) = {}
<1>1. Old /\ size \in Nat /\ size = Cardinality(Used)  BY NowSound
<1>2. Cardinality(Used) < n  BY <1>1
<1>3. /\ Good(m, b, n) /\ Marked(m) = {} /\ Cardinality(Taken(m)) = Cardinality(Used)
      /\ ContentOf(m, b) = ContentOf(meta, bucket)
  BY <1>1, <1>2, RehashFacts
<1>4. ContentOf(m, b) = Content  BY <1>3, ContentIs
<1>5. Occupied(m) = Taken(m)
  <2>1. \A i \in DOMAIN m : m[i] \in Flag  BY <1>3 DEF Good, Typed
  <2> QED  BY <1>3, <2>1 DEF Occupied, Taken, Marked, Flag
<1>6. Threshold(n) \in Nat /\ Threshold(n) >= size + 1  BY <1>1, Thirds
<1>7. Cardinality(Occupied(m)) = size /\ Cardinality(Taken(m)) = size  BY <1>1, <1>3, <1>5
<1>8. size <= n /\ size < Threshold(n) /\ Threshold(n) <= Threshold(n)  BY <1>1, <1>6
<1> QED  BY <1>1, <1>3, <1>4, <1>6, <1>7, <1>8 DEF Ready

\* A new key has got its value.
Entered(k, v, mm, bb) ==
  /\ ContentOf(mm, bb) = [x \in DOMAIN Content \cup {k} |-> IF x = k THEN v ELSE Content[x]]
  /\ k \notin DOMAIN Content

\* A new entry makes the table as full as it counts.
LEMMA NewEntry ==
  ASSUME HashMapConstants, NEW m, NEW b, NEW n, NEW r, NEW f, Ready(m, b, n, r, f),
         size \in Nat, NEW k \in Key, NEW v \in Val, NEW s, Open(m, b, n, k, s), NEW mm, NEW bb,
         Filled(m, b, s, k, v, mm, bb)
  PROVE  Sound(mm, bb, n, size + 1, r, Min({f + 1, n})) /\ Entered(k, v, mm, bb)
<1>1. Good(m, b, n)  BY DEF Ready
<1>2. Good(mm, bb, n) /\ Grown(m, b, k, v, s, mm, bb)  BY <1>1, Insertion, Zenon
<1>3. /\ n \in Nat /\ DOMAIN m = 0..(n - 1) /\ DOMAIN mm = 0..(n - 1)
      /\ IsFiniteSet(Taken(m)) /\ IsFiniteSet(Occupied(m)) /\ Cardinality(Occupied(m)) \in Nat
      /\ Cardinality(Occupied(mm)) \in Nat /\ Cardinality(Occupied(mm)) <= n
  BY <1>1, <1>2, Counts
<1>4. Cardinality(Taken(mm)) = size + 1
  BY <1>2, <1>3, FS_AddElement DEF Grown, Ready
<1>5. Cardinality(Occupied(mm)) <= f + 1
  <2>1. Occupied(mm) = Occupied(m) \cup {s}
    <3>1. s \in 0..(n - 1) /\ mm[s] = "used" /\ \A i \in DOMAIN m : i # s => mm[i] = m[i]
      BY <1>3 DEF Filled, Open
    <3> QED  BY <1>3, <3>1 DEF Occupied
  <2>2. Cardinality(Occupied(mm)) <= Cardinality(Occupied(m)) + 1
    <3>1. Cardinality(Occupied(m) \cup {s}) =
            IF s \in Occupied(m) THEN Cardinality(Occupied(m)) ELSE Cardinality(Occupied(m)) + 1
      BY <1>3, FS_AddElement
    <3> QED  BY <1>3, <2>1, <3>1
  <2> QED  BY <1>3, <2>2 DEF Ready
<1>6. PICK x \in {f + 1, n} : x = Min({f + 1, n}) /\ x <= f + 1 /\ x <= n
  <2>1. {f + 1, n} \subseteq Nat  BY <1>3 DEF Ready
  <2> QED  BY <2>1, Least
<1>7. x \in Nat /\ Cardinality(Occupied(mm)) <= x
  BY <1>3, <1>5, <1>6 DEF Ready
<1>8. r \in Nat /\ size + 1 <= r /\ r <= Threshold(n)  BY DEF Ready
<1>9. Sound(mm, bb, n, size + 1, r, x)
  BY <1>2, <1>4, <1>6, <1>7, <1>8 DEF Sound
<1>10. DOMAIN Content = Keys(m, b)
  <2>1. DOMAIN ContentOf(m, b) = Keys(m, b)  BY <1>1, ContentFacts
  <2> QED  BY <2>1 DEF Ready
<1>11. ContentOf(mm, bb) = [y \in DOMAIN Content \cup {k} |-> IF y = k THEN v ELSE Content[y]]
  BY <1>2, <1>10 DEF Grown, Ready
<1> QED  BY <1>6, <1>9, <1>10, <1>11 DEF Open, Entered

LEMMA OldEntry ==
  ASSUME HashMapConstants, NEW m, NEW b, NEW n, NEW r, NEW f, Ready(m, b, n, r, f),
         size \in Nat, NEW k \in Key, NEW v \in Val, NEW s \in 0..(n - 1),
         m[s] = "used", b[s].key = k, NEW mm, NEW bb, Filled(m, b, s, k, v, mm, bb)
  PROVE  /\ Sound(mm, bb, n, size, r, f) /\ mm = m
         /\ ContentOf(mm, bb) = [x \in DOMAIN Content |-> IF x = k THEN v ELSE Content[x]]
         /\ k \in DOMAIN Content /\ Content[k] = b[s].val
<1>1. Good(m, b, n)  BY DEF Ready
<1>2. /\ Good(mm, bb, n) /\ mm = m /\ k \in Keys(m, b)
      /\ ContentOf(mm, bb) = [x \in Keys(m, b) |-> IF x = k THEN v ELSE ContentOf(m, b)[x]]
  BY <1>1, Overwriting
<1>3. DOMAIN Content = Keys(m, b)
  <2>1. DOMAIN ContentOf(m, b) = Keys(m, b)  BY <1>1, ContentFacts
  <2> QED  BY <2>1 DEF Ready
<1>4. Content[k] = b[s].val
  <2>1. DOMAIN m = 0..(n - 1)  BY <1>1, Counts
  <2>2. s \in Taken(m)  BY <2>1 DEF Taken
  <2>3. ContentOf(m, b)[b[s].key] = b[s].val  BY <1>1, <2>2, ContentFacts
  <2> QED  BY <2>3 DEF Ready
<1>5. Sound(mm, bb, n, size, r, f)  BY <1>2 DEF Sound, Ready
<1>6. ContentOf(m, b) = Content  BY DEF Ready
<1> QED  BY <1>2, <1>3, <1>4, <1>5, <1>6

LEMMA PutStep ==
  ASSUME HashMapConstants, HashInv, ~stuck, NEW k \in Key, NEW v \in Val, NEW keep \in BOOLEAN,
         Put(k, v, keep)
  PROVE  HashInv' /\ (Map!Emplace(k, v) \/ Map!Assign(k, v) \/ UNCHANGED <<Content, reply>>)
<1> DEFINE full == size >= rehash_threshold
<1>1. /\ TableSound /\ Old /\ size \in Nat /\ rehash_threshold \in Nat /\ filled \in Nat
      /\ rehash_threshold <= Threshold(BucketSize) /\ filled <= BucketSize
  BY NowSound DEF HashInv
<1>2. PICK new : new = IF full THEN Rehashed(NextSize(size + 1)) ELSE <<meta, bucket>>
  OBVIOUS
<1>3. PICK m, b, s : m = new[1] /\ b = new[2] /\ s = Slot(m, b, k)  OBVIOUS
<1>4. PICK n : n = IF full THEN NextSize(size + 1) ELSE BucketSize  OBVIOUS
<1>5. PICK r : r = IF full THEN Threshold(n) ELSE rehash_threshold  OBVIOUS
<1>6. PICK f : f = IF full THEN size ELSE filled  OBVIOUS
<1>7. Ready(m, b, n, r, f) /\ (full => Marked(m) = {})
  <2>1. CASE full
    <3>1. m = Rehashed(n)[1] /\ b = Rehashed(n)[2]  BY <1>2, <1>3, <1>4, <2>1
    <3>2. PICK z \in Nat : z = size + 1  BY <1>1
    <3>3. n \in Nat /\ n >= 2 * (size + 1)  BY <1>4, <2>1, <3>2, SizeFacts
    <3> QED  BY <1>1, <1>5, <1>6, <2>1, <3>1, <3>3, RehashReady
  <2>2. CASE ~full
    <3>1. m = meta /\ b = bucket /\ n = BucketSize /\ r = rehash_threshold /\ f = filled
      BY <1>2, <1>3, <1>4, <1>5, <1>6, <2>2
    <3>2. size < r  BY <1>1, <2>2, <3>1
    <3>3. Sound(m, b, n, size, r, f)  BY <1>1, <3>1 DEF TableSound
    <3>4. ContentOf(m, b) = Content  BY <3>1, ContentIs
    <3> QED  BY <2>2, <3>2, <3>3, <3>4 DEF Ready, Sound
  <2> QED  BY <2>1, <2>2
<1>8. Good(m, b, n) /\ n \in Nat /\ DOMAIN m = 0..(n - 1) /\ Cardinality(DOMAIN m) = n
  <2>1. Good(m, b, n)  BY <1>7 DEF Ready
  <2> QED  BY <2>1, Counts
<1>9. CASE ~Ends(m, b, k)
  <2>1. Hangs  BY <1>2, <1>3, <1>9 DEF Put
  <2>2. ~full
    <3> SUFFICES ASSUME full PROVE FALSE  OBVIOUS
    <3>1. Marked(m) = {}  BY <1>7
    <3>2. Cardinality(Taken(m)) < n
      <4>1. PICK t \in Nat : t = Threshold(n) /\ 3 * t <= 2 * n  BY <1>8, Thirds
      <4>2. Cardinality(Taken(m)) = size /\ size < r /\ r <= t /\ r \in Nat
        BY <1>7, <4>1 DEF Ready
      <4> QED  BY <1>1, <1>8, <4>1, <4>2
    <3>3. Typed(m, b, n)  BY <1>8 DEF Good
    <3> QED  BY <1>9, <3>1, <3>2, <3>3, RoomEnds
  <2>3. ~Ends(meta, bucket, k)  BY <1>2, <1>3, <1>9, <2>2
  <2> QED  BY <2>1, <2>3, HangsKeeps
<1>10. CASE Ends(m, b, k)
  <2> DEFINE found == m[s] = "used"
  <2>1. /\ meta' = [m EXCEPT ![s] = "used"]
        /\ bucket' = [b EXCEPT ![s] = [key |-> k, val |-> IF found /\ keep THEN @.val ELSE v]]
        /\ reply' = IF found THEN b[s].val ELSE NoVal
        /\ size' = IF found THEN size ELSE size + 1
        /\ rehash_threshold' = IF full THEN Threshold(n) ELSE rehash_threshold
        /\ filled' = IF found THEN IF full THEN size ELSE filled
                      ELSE Min({IF full THEN size + 1 ELSE filled + 1, n})
        /\ stuck' = stuck
    BY <1>2, <1>3, <1>8, <1>10 DEF Put
  <2>2. rehash_threshold' = r  BY <1>5, <2>1
  <2>3. /\ s \in 0..(n - 1)
        /\ found => b[s].key = k
        /\ ~found => Reaches(m, k, s, n) /\ k \notin Keys(m, b)
    <3>1. s = Slot(m, b, k)  BY <1>3
    <3>2. Good(m, b, n)  BY <1>8
    <3>3. /\ s \in 0..(n - 1) /\ (m[s] = "used" => b[s].key = k)
          /\ (m[s] # "used" => Reaches(m, k, s, n) /\ k \notin Keys(m, b))
      BY <1>10, <3>1, <3>2, SlotFacts
    <3> QED  BY <3>3
  <2>4. LookupsEnd' /\ stuck' \in BOOLEAN  BY <2>1 DEF LookupsEnd, HashInv
  <2>5. DOMAIN meta' = 0..(n - 1) /\ BucketSize' = n  BY <1>8, <2>1 DEF BucketSize
  <2>6. PICK mm, bb : mm = meta' /\ bb = bucket'  OBVIOUS
  <2>7. CASE ~found
    <3>1. Open(m, b, n, k, s)  BY <2>3, <2>7 DEF Open
    <3>2. Filled(m, b, s, k, v, mm, bb)  BY <2>1, <2>6, <2>7 DEF Filled
    <3>3. /\ Sound(mm, bb, n, size + 1, r, Min({f + 1, n}))
          /\ ContentOf(mm, bb) = [x \in DOMAIN Content \cup {k} |->
                                    IF x = k THEN v ELSE Content[x]]
          /\ k \notin DOMAIN Content
      <4>1. size \in Nat /\ Ready(m, b, n, r, f)  BY <1>1, <1>7
      <4>2. Sound(mm, bb, n, size + 1, r, Min({f + 1, n})) /\ Entered(k, v, mm, bb)
        BY <3>1, <3>2, <4>1, NewEntry, Zenon
      <4> QED  BY <4>2 DEF Entered
    <3>4. filled' = Min({f + 1, n}) /\ size' = size + 1  BY <1>6, <2>1, <2>7
    <3>5. TableSound'  BY <2>2, <2>5, <2>6, <3>3, <3>4 DEF TableSound
    <3>6. Content' = [x \in DOMAIN Content \cup {k} |-> IF x = k THEN v ELSE Content[x]]
      BY <2>6, <3>3, ContentIs
    <3>7. reply' = Map!Lookup(k)  BY <2>1, <2>7, <3>3 DEF Map!Lookup
    <3>8. Map!Assign(k, v)  BY <3>6, <3>7 DEF Map!Assign
    <3> QED  BY <2>4, <3>5, <3>8 DEF HashInv
  <2>8. CASE found
    <3>1. m[s] = "used" /\ b[s].key = k /\ b[s].val \in Val
      BY <1>8, <2>3, <2>8 DEF Good, Typed
    <3>2. PICK w \in Val : w = IF keep THEN b[s].val ELSE v  BY <3>1
    <3>3. Filled(m, b, s, k, w, mm, bb)
      <4>1. DOMAIN b = 0..(n - 1)  BY <1>8 DEF Good, Typed
      <4> QED  BY <2>1, <2>3, <2>6, <2>8, <3>2, <4>1 DEF Filled
    <3>4. /\ Sound(mm, bb, n, size, r, f) /\ k \in DOMAIN Content /\ Content[k] = b[s].val
          /\ ContentOf(mm, bb) = [x \in DOMAIN Content |-> IF x = k THEN w ELSE Content[x]]
      BY <1>1, <1>7, <2>3, <3>1, <3>2, <3>3, OldEntry
    <3>5. filled' = f /\ size' = size  BY <1>6, <2>1, <2>8
    <3>6. TableSound'  BY <2>2, <2>5, <2>6, <3>4, <3>5 DEF TableSound
    <3>7. Content' = [x \in DOMAIN Content |-> IF x = k THEN w ELSE Content[x]]
      BY <2>6, <3>4, ContentIs
    <3>8. reply' = Map!Lookup(k)  BY <2>1, <2>8, <3>4 DEF Map!Lookup
    <3>9. DOMAIN Content \cup {k} = DOMAIN Content  BY <3>4
    <3>10. CASE keep
      <4>1. Content' = [x \in DOMAIN Content \cup {k} |->
                          IF x \in DOMAIN Content THEN Content[x] ELSE v]
        BY <3>2, <3>4, <3>7, <3>9, <3>10
      <4>2. Map!Emplace(k, v)  BY <3>8, <4>1 DEF Map!Emplace
      <4> QED  BY <2>4, <3>6, <4>2 DEF HashInv
    <3>11. CASE ~keep
      <4>1. Content' = [x \in DOMAIN Content \cup {k} |-> IF x = k THEN v ELSE Content[x]]
        BY <3>2, <3>7, <3>9, <3>11
      <4>2. Map!Assign(k, v)  BY <3>8, <4>1 DEF Map!Assign
      <4> QED  BY <2>4, <3>6, <4>2 DEF HashInv
    <3> QED  BY <3>10, <3>11
  <2> QED  BY <2>7, <2>8
<1> QED  BY <1>9, <1>10

LEMMA RemoveStep ==
  ASSUME HashMapConstants, HashInv, ~stuck, NEW S \in SUBSET Key, RemoveIf(S)
  PROVE  HashInv' /\ Map!Remove(S)
<1>1. /\ TableSound /\ Old /\ size \in Nat /\ size = Cardinality(Used) /\ rehash_threshold \in Nat
      /\ DOMAIN Content = Keys(meta, bucket)
  BY NowSound DEF HashInv
<1>2. PICK n, gone : n = BucketSize /\ gone = {i \in Taken(meta) : bucket[i].key \in S}  OBVIOUS
<1>3. Good(meta, bucket, n) /\ n \in Nat /\ DOMAIN meta = 0..(n - 1) /\ DOMAIN bucket = 0..(n - 1)
      /\ Cardinality(DOMAIN meta) = n
  BY <1>1, <1>2, SlotsCount DEF Old, Good, Typed
<1>4. /\ meta' = [i \in DOMAIN meta |-> IF i \in gone THEN "deleted" ELSE meta[i]]
      /\ bucket' = bucket
      /\ size' = size - Cardinality(gone)
      /\ UNCHANGED <<rehash_threshold, reply, stuck, filled>>
  BY <1>2, ContentIs DEF RemoveIf, ErasedFlag
<1>5. PICK mm, bb : mm = meta' /\ bb = bucket'  OBVIOUS
<1>6. Freed(meta, bucket, gone, mm, bb)  BY <1>4, <1>5 DEF Freed
<1>7. /\ Good(mm, bb, n) /\ Taken(mm) = Taken(meta) \ gone
      /\ {i \in DOMAIN mm : mm[i] # "empty"} = {i \in DOMAIN meta : meta[i] # "empty"}
      /\ ContentOf(mm, bb) = [x \in Keys(meta, bucket) \ S |-> ContentOf(meta, bucket)[x]]
  <2>1. Good(meta, bucket, n) /\ Freed(meta, bucket, Victims(meta, bucket, S), mm, bb)
    BY <1>2, <1>3, <1>6 DEF Victims
  <2>2. Good(mm, bb, n) /\ Shrunk(meta, bucket, S, Victims(meta, bucket, S), mm, bb)
    BY <2>1, Erasing, Zenon
  <2> QED  BY <1>2, <2>2 DEF Shrunk, Victims
<1>8. Occupied(mm) = Occupied(meta)  BY <1>7 DEF Occupied
<1>9. Cardinality(Taken(mm)) = size - Cardinality(gone) /\ Cardinality(gone) \in Nat
      /\ Cardinality(Taken(mm)) \in Nat
  <2>1. IsFiniteSet(Taken(meta)) /\ Cardinality(Taken(meta)) = size
    BY <1>1, <1>3, Counts, ContentIs
  <2>2. gone \in SUBSET Taken(meta) /\ Taken(meta) \cap gone = gone  BY <1>2
  <2>3. Cardinality(Taken(meta) \ gone) = size - Cardinality(gone)
    BY <2>1, <2>2, FS_Difference
  <2>4. IsFiniteSet(gone) /\ IsFiniteSet(Taken(mm))  BY <1>7, <2>1, <2>2, FS_Subset, FS_Difference
  <2> QED  BY <1>7, <2>3, <2>4, FS_CardinalityType
<1>10. BucketSize' = n  BY <1>3, <1>4 DEF BucketSize
<1>11. TableSound'
  <2>1. Sound(meta, bucket, n, size, rehash_threshold, filled)  BY <1>1, <1>2 DEF TableSound
  <2>2. Sound(mm, bb, n, size', rehash_threshold, filled)
    <3>1. size' = Cardinality(Taken(mm))  BY <1>4, <1>9
    <3>2. size' <= rehash_threshold
      <4>1. size' <= size  BY <1>1, <1>4, <1>9
      <4> QED  BY <1>1, <1>4, <1>9, <2>1, <4>1 DEF Sound
    <3> QED  BY <1>7, <1>8, <2>1, <3>1, <3>2 DEF Sound
  <2> QED  BY <1>4, <1>5, <1>10, <2>2 DEF TableSound
<1>12. LookupsEnd' /\ stuck' \in BOOLEAN  BY <1>4 DEF LookupsEnd, HashInv
<1>13. Content' = [x \in DOMAIN Content \ S |-> Content[x]]
  BY <1>1, <1>5, <1>7, ContentIs
<1>14. Map!Remove(S)  BY <1>4, <1>13 DEF Map!Remove, Restrict, Map!Restrict
<1> QED  BY <1>11, <1>12, <1>14 DEF HashInv

LEMMA ClearStep ==
  ASSUME HashMapConstants, HashInv, ~stuck, Clear
  PROVE  HashInv' /\ Map!Remove(Key)
<1>1. TableSound /\ Old /\ DOMAIN Content = Keys(meta, bucket)  BY NowSound DEF HashInv
<1>2. PICK n : n = BucketSize  OBVIOUS
<1>3. Good(meta, bucket, n) /\ n \in Nat /\ DOMAIN meta = 0..(n - 1) /\ DOMAIN bucket = 0..(n - 1)
      /\ Cardinality(DOMAIN meta) = n
  BY <1>1, <1>2, SlotsCount DEF Old, Good, Typed
<1>4. /\ meta' = [i \in DOMAIN meta |-> "empty"] /\ bucket' = bucket
      /\ size' = 0 /\ rehash_threshold' = 0 /\ filled' = 0 /\ UNCHANGED <<reply, stuck>>
  BY DEF Clear
<1>5. PICK mm, bb : mm = meta' /\ bb = bucket'  OBVIOUS
<1>6. Taken(mm) = {} /\ Occupied(mm) = {}  BY <1>4, <1>5 DEF Taken, Occupied
<1>7. Typed(mm, bb, n)
  <2>1. mm \in [0..(n - 1) -> Flag]  BY <1>3, <1>4, <1>5 DEF Flag
  <2>2. bb \in [0..(n - 1) -> Entry]  BY <1>3, <1>4, <1>5 DEF Good, Typed
  <2> QED  BY <1>3, <1>4, <1>5, <2>1, <2>2 DEF Typed
<1>8. Good(mm, bb, n)
  <2>1. \A i \in 0..(n - 1) : mm[i] # "used"  BY <1>3, <1>4, <1>5
  <2> QED  BY <1>7, <2>1 DEF Good, Single, Reached
<1>9. BucketSize' = n  BY <1>3, <1>4 DEF BucketSize
<1>10. TableSound'
  <2>1. Threshold(n) \in Nat  BY <1>3, Thirds
  <2>2. Cardinality(Taken(mm)) = 0 /\ Cardinality(Occupied(mm)) = 0  BY <1>6, FS_EmptySet
  <2>3. Sound(mm, bb, n, 0, 0, 0)  BY <1>3, <1>8, <2>1, <2>2 DEF Sound
  <2> QED  BY <1>4, <1>5, <1>9, <2>3 DEF TableSound
<1>11. LookupsEnd' /\ stuck' \in BOOLEAN  BY <1>4 DEF LookupsEnd, HashInv
<1>12. Map!Remove(Key)
  <2>1. Keys(meta, bucket) \subseteq Key  BY <1>3, ContentFacts
  <2>2. DOMAIN Content \ Key = {}  BY <1>1, <2>1
  <2>3. Content' = [x \in {} |-> Content[x]]
    <3>1. Keys(mm, bb) = {}  BY <1>6 DEF Keys
    <3>2. ContentOf(mm, bb) = [x \in {} |-> Content[x]]  BY <3>1 DEF ContentOf
    <3> QED  BY <1>5, <3>2, ContentIs
  <2> QED  BY <1>4, <2>2, <2>3 DEF Map!Remove, Restrict, Map!Restrict
<1> QED  BY <1>10, <1>11, <1>12 DEF HashInv

LEMMA ReserveStep ==
  ASSUME HashMapConstants, HashInv, ~stuck, NEW z \in Nat, Reserve(z)
  PROVE  HashInv' /\ UNCHANGED <<Content, reply>>
<1>1. /\ TableSound /\ Old /\ size \in Nat /\ size = Cardinality(Used) /\ size <= BucketSize
      /\ BucketSize \in Nat
  BY NowSound DEF HashInv
<1>2. PICK n : n = NextSize(z)  OBVIOUS
<1>3. n \in Nat  BY <1>2, SizeFacts
<1>4. PICK m, b : m = Rehashed(n)[1] /\ b = Rehashed(n)[2]  OBVIOUS
<1>5. /\ n > BucketSize /\ meta' = m /\ bucket' = b
      /\ rehash_threshold' = Threshold(n) /\ filled' = size /\ UNCHANGED <<size, reply, stuck>>
  BY <1>2, <1>4 DEF Reserve
<1>6. /\ Good(m, b, n) /\ Marked(m) = {} /\ Cardinality(Taken(m)) = Cardinality(Used)
      /\ ContentOf(m, b) = ContentOf(meta, bucket)
  <2>1. Cardinality(Used) < n  BY <1>1, <1>3, <1>5
  <2> QED  BY <1>1, <1>3, <1>4, <2>1, RehashFacts
<1>7. Occupied(m) = Taken(m)
  <2>1. \A i \in DOMAIN m : m[i] \in Flag  BY <1>6 DEF Good, Typed
  <2> QED  BY <1>6, <2>1 DEF Occupied, Taken, Marked, Flag
<1>8. DOMAIN m = 0..(n - 1) /\ Cardinality(DOMAIN m) = n  BY <1>6, Counts
<1>9. BucketSize' = n  BY <1>5, <1>8 DEF BucketSize
<1>10. size <= Threshold(n) /\ Threshold(n) \in Nat
  <2>1. rehash_threshold \in Nat /\ size <= rehash_threshold
        /\ rehash_threshold <= Threshold(BucketSize)
    BY <1>1 DEF TableSound, Sound
  <2>2. Threshold(BucketSize) <= Threshold(n)
    <3>1. PICK x \in Nat : x = BucketSize  BY <1>1
    <3>2. (2 * x) \div 3 <= (2 * n) \div 3  BY <1>3, <1>5, <3>1
    <3> QED  BY <3>1, <3>2 DEF Threshold
  <2>3. Threshold(n) \in Nat /\ Threshold(BucketSize) \in Nat  BY <1>1, <1>3, Thirds
  <2> QED  BY <1>1, <2>1, <2>2, <2>3
<1>11. TableSound'
  <2>1. size <= n  BY <1>1, <1>3, <1>5
  <2>2. Sound(m, b, n, size, Threshold(n), size)
    BY <1>1, <1>6, <1>7, <1>10, <2>1 DEF Sound
  <2> QED  BY <1>5, <1>9, <2>2 DEF TableSound
<1>12. LookupsEnd' /\ stuck' \in BOOLEAN  BY <1>5 DEF LookupsEnd, HashInv
<1>13. UNCHANGED <<Content, reply>>  BY <1>5, <1>6, ContentIs
<1> QED  BY <1>11, <1>12, <1>13 DEF HashInv

LEMMA HashStep ==
  ASSUME HashMapConstants, HashInv, [HashNext]_hashVars
  PROVE  HashInv' /\ [Map!Next]_<<Content, reply>>
<1>1. CASE UNCHANGED hashVars
  <2>1. UNCHANGED <<meta, bucket, size, rehash_threshold, reply, stuck, filled>>
    BY <1>1 DEF hashVars, table
  <2>2. UNCHANGED Content  BY <2>1, ContentIs
  <2>3. HashInv'  BY <2>1 DEF HashInv, TableSound, BucketSize, LookupsEnd
  <2> QED  BY <2>1, <2>2, <2>3
<1>2. ASSUME ~stuck, NEW k \in Key, Find(k)  PROVE HashInv' /\ [Map!Next]_<<Content, reply>>
  BY <1>2, FindStep DEF Map!Next
<1>3. ASSUME ~stuck, NEW k \in Key, NEW v \in Val, NEW keep \in BOOLEAN, Put(k, v, keep)
      PROVE  HashInv' /\ [Map!Next]_<<Content, reply>>
  BY <1>3, PutStep DEF Map!Next
<1>4. ASSUME ~stuck, NEW S \in SUBSET Key, RemoveIf(S)
      PROVE  HashInv' /\ [Map!Next]_<<Content, reply>>
  BY <1>4, RemoveStep DEF Map!Next
<1>5. ASSUME ~stuck, Clear  PROVE HashInv' /\ [Map!Next]_<<Content, reply>>
  BY <1>5, ClearStep DEF Map!Next
<1>6. ASSUME ~stuck, NEW z \in 0..MaxSize, Reserve(z)
      PROVE  HashInv' /\ [Map!Next]_<<Content, reply>>
  <2>1. z \in Nat  BY DEF HashMapConstants
  <2> QED  BY <1>6, <2>1, ReserveStep
<1>7. CASE HashNext  BY <1>2, <1>3, <1>4, <1>5, <1>6, <1>7 DEF HashNext, Call
<1> QED  BY <1>1, <1>7

-----------------------------------------------------------------------------
(* Theorems. *)

\* The table is a map: whatever was put, erased, cleared and rehashed before, a
\* call answers as PartialMap would (hash_map.h find, operator[], emplace, erase,
\* clear, reserve), for any keys, hash function and sizes.
THEOREM TableIsMap == ASSUME HashMapConstants PROVE HashSpec => MapSpec
<1>1. HashInit => HashInv /\ Map!Init  BY InitSound
<1>2. HashInv /\ [HashNext]_hashVars => HashInv' /\ [Map!Next]_<<Content, reply>>
  BY HashStep
<1> QED  BY <1>1, <1>2, PTL DEF HashSpec, MapSpec, Map!Spec

\* A lookup that never returns (find_used_slot's loop) is one in a table where
\* marks of erased entries fill what the entries leave, a third of the slots or
\* more, and that took as many entries since its last rehash as it has slots.
THEOREM LookupsEndUnlessFull == ASSUME HashMapConstants PROVE HashSpec => []LookupsEnd
<1>1. HashInit => HashInv  BY InitSound
<1>2. HashInv /\ [HashNext]_hashVars => HashInv'  BY HashStep
<1>3. HashInv => LookupsEnd  BY DEF HashInv
<1> QED  BY <1>1, <1>2, <1>3, PTL DEF HashSpec
=============================================================================
