---------------------------- MODULE GraphProofs -----------------------------
(***************************************************************************)
(* Proofs about Graph for any graph and any one or two targets: the order  *)
(* of the nodes, what a node computes, the common subexpression pass, and  *)
(* the chains.  The walks of Graph are functions; LoopRule is the rule     *)
(* they are reasoned about with.                                           *)
(***************************************************************************)
EXTENDS Graph, FiniteSetTheorems, SequenceTheorems, WellFoundedInduction, TLAPS

-----------------------------------------------------------------------------
(* Numbers and loops. *)

\* The least number of a set.
LEMMA Least ==
  ASSUME NEW U, U \subseteq Nat, U # {}
  PROVE  Min(U) \in U /\ \A y \in U : Min(U) <= y
<1> DEFINE R == OpToRel(<, Nat)
<1>1. R = {p \in Nat \X Nat : p[1] < p[2]}  BY DEF OpToRel
<1>2. IsWellFoundedOn(R, Nat)  BY NatLessThanWellFounded, Zenon
<1> HIDE DEF R
<1>3. PICK x \in U : \A y \in U : ~(<<y, x>> \in R)  BY <1>2, WFMin
<1>4. \A y \in U : x <= y
  <2> TAKE y \in U
  <2>1. x \in Nat /\ y \in Nat  OBVIOUS
  <2>2. ~(<<y, x>> \in {p \in Nat \X Nat : p[1] < p[2]})  BY <1>1, <1>3
  <2> QED  BY <2>1, <2>2
<1> QED  BY <1>4 DEF Min

\* Induction over a set of numbers.
LEMMA SetInduction ==
  ASSUME NEW T, 0 \in T, \A n \in Nat : n \in T => n + 1 \in T
  PROVE  Nat \subseteq T
<1> DEFINE U == {n \in Nat : n \notin T}
<1> SUFFICES ASSUME U # {} PROVE FALSE  OBVIOUS
<1>1. PICK x \in U : \A y \in U : x <= y  BY Least
<1>2. x \in Nat /\ x # 0 /\ x \notin T  OBVIOUS
<1>3. x - 1 \in Nat /\ x - 1 < x /\ (x - 1) + 1 = x  BY <1>2
<1>4. x - 1 \in T  BY <1>1, <1>3
<1> QED  BY <1>2, <1>3, <1>4

\* R is a run of f along s from a, n steps of it, with R[i] in J[i].
Goes(R, f, a, s, J, n) ==
  /\ DOMAIN R = 0..n /\ R = [i \in DOMAIN R |-> R[i]]
  /\ R[0] = a /\ \A i \in 1..n : R[i] = f[s[i]][R[i - 1]]
  /\ \A i \in 0..n : R[i] \in J[i]

\* The rule of loops: what is in J[i - 1] is in J[i] after the i-th step.
LEMMA LoopRule ==
  ASSUME NEW f, NEW a, NEW s, NEW J, Len(s) \in Nat, a \in J[0],
         \A i \in 1..Len(s) : \A x \in J[i - 1] : f[s[i]][x] \in J[i]
  PROVE  Along(f, a, s) \in J[Len(s)]
<1>1. PICK l \in Nat : l = Len(s)  OBVIOUS
<1> DEFINE T == {n \in Nat : n <= l => \E R : Goes(R, f, a, s, J, n)}
<1>2. 0 \in T
  <2>1. PICK R : R = [i \in 0..0 |-> a]  OBVIOUS
  <2>2. Goes(R, f, a, s, J, 0)  BY <2>1 DEF Goes
  <2> QED  BY <2>2
<1>3. ASSUME NEW n \in Nat, n \in T, n + 1 <= l PROVE \E R : Goes(R, f, a, s, J, n + 1)
  <2>1. PICK R : Goes(R, f, a, s, J, n)  BY <1>3
  <2>2. PICK x : x = f[s[n + 1]][R[n]]  OBVIOUS
  <2>3. x \in J[n + 1]
    <3>1. R[n] \in J[n]  BY <2>1 DEF Goes
    <3>2. n + 1 \in 1..Len(s) /\ (n + 1) - 1 = n  BY <1>1, <1>3
    <3> QED  BY <2>2, <3>1, <3>2
  <2>4. PICK Q : Q = [i \in 0..(n + 1) |-> IF i = n + 1 THEN x ELSE R[i]]  OBVIOUS
  <2>5. Q[n + 1] = x /\ \A i \in 0..n : Q[i] = R[i]  BY <2>4
  <2>6. \A i \in 1..(n + 1) : Q[i] = f[s[i]][Q[i - 1]]
    <3> TAKE i \in 1..(n + 1)
    <3>1. CASE i = n + 1
      <4>1. i - 1 = n /\ n \in 0..n  BY <3>1
      <4> QED  BY <2>2, <2>5, <3>1, <4>1
    <3>2. CASE i # n + 1
      <4>1. i \in 1..n /\ i \in 0..n /\ i - 1 \in 0..n  BY <3>2
      <4> QED  BY <2>1, <2>5, <4>1 DEF Goes
    <3> QED  BY <3>1, <3>2
  <2>7. \A i \in 0..(n + 1) : Q[i] \in J[i]
    <3>1. \A i \in 0..(n + 1) : i = n + 1 \/ i \in 0..n  OBVIOUS
    <3> QED  BY <2>1, <2>3, <2>5, <3>1 DEF Goes
  <2>8. Q[0] = a  BY <2>1, <2>5 DEF Goes
  <2>9. DOMAIN Q = 0..(n + 1) /\ Q = [i \in DOMAIN Q |-> Q[i]]  BY <2>4
  <2>10. Goes(Q, f, a, s, J, n + 1)  BY <2>6, <2>7, <2>8, <2>9 DEF Goes
  <2> QED  BY <2>10
<1>4. \A n \in Nat : n \in T => n + 1 \in T  BY <1>3
<1>5. PICK Q : Goes(Q, f, a, s, J, l)
  <2> HIDE DEF T
  <2>1. l \in T  BY <1>2, <1>4, SetInduction
  <2> QED  BY <2>1 DEF T
<1> DEFINE Eq(R) == R = [i \in 0..Len(s) |-> IF i = 0 THEN a ELSE f[s[i]][R[i - 1]]]
<1>6. Eq(Q)
  <2>1. \A i \in 0..l : Q[i] = IF i = 0 THEN a ELSE f[s[i]][Q[i - 1]]
    <3>1. \A i \in 0..l : i # 0 => i \in 1..l  OBVIOUS
    <3> QED  BY <1>5, <3>1 DEF Goes
  <2>2. DOMAIN Q = 0..l /\ Q = [i \in DOMAIN Q |-> Q[i]]  BY <1>5 DEF Goes
  <2> QED  BY <1>1, <2>1, <2>2
<1>7. PICK R : R = CHOOSE Z : Eq(Z)  OBVIOUS
<1>8. Eq(R)  BY <1>6, <1>7
<1>9. Along(f, a, s) = R[l]  BY <1>1, <1>7 DEF Along
<1> DEFINE U == {n \in Nat : n <= l => R[n] \in J[n]}
<1>10. 0 \in U  BY <1>1, <1>8
<1>11. ASSUME NEW n \in Nat, n \in U, n + 1 <= l PROVE R[n + 1] \in J[n + 1]
  <2>1. R[n] \in J[n]  BY <1>11
  <2>2. n + 1 \in 1..Len(s) /\ n + 1 \in 0..Len(s) /\ (n + 1) - 1 = n /\ n + 1 # 0  BY <1>1, <1>11
  <2>3. R[n + 1] = f[s[n + 1]][R[n]]  BY <1>8, <2>2
  <2>4. f[s[n + 1]][R[n]] \in J[n + 1]  BY <2>1, <2>2
  <2> QED  BY <2>3, <2>4
<1> HIDE DEF Eq
<1>12. \A n \in Nat : n \in U => n + 1 \in U  BY <1>11
<1>13. l \in U
  <2> HIDE DEF U
  <2> QED  BY <1>10, <1>12, SetInduction
<1> QED  BY <1>1, <1>9, <1>13

-----------------------------------------------------------------------------
(* Lists of nodes. *)

\* q has every element of S, once.
Lists(q, S) ==
  /\ q \in Seq(S)
  /\ \A x \in S : \E i \in 1..Len(q) : q[i] = x
  /\ \A i, j \in 1..Len(q) : q[i] = q[j] => i = j

LEMMA SetOf ==
  ASSUME NEW S, NEW q \in Seq(S)
  PROVE  /\ Len(q) \in Nat /\ DOMAIN q = 1..Len(q) /\ ToSet(q) \subseteq S
         /\ \A x : x \in ToSet(q) <=> \E i \in 1..Len(q) : q[i] = x
BY DEF ToSet

\* Sorting by name loses nothing.
LEMMA ByNameLists ==
  ASSUME NEW S, S \subseteq Nat, IsFiniteSet(S), NEW reversed \in BOOLEAN
  PROVE  Lists(ByName(S, reversed), S)
<1>1. PICK c \in Nat : c = Cardinality(S)  BY FS_CardinalityType
<1> DEFINE L(n) == {m \in S : IF reversed THEN m >= n ELSE m <= n}
<1>2. ASSUME NEW n \in S
      PROVE  IsFiniteSet(L(n)) /\ Cardinality(L(n)) \in 1..c /\ n \in L(n)
  <2>1. L(n) \in SUBSET S /\ n \in L(n) /\ L(n) # {}  OBVIOUS
  <2> HIDE DEF L
  <2>2. IsFiniteSet(L(n)) /\ Cardinality(L(n)) <= c  BY <1>1, <2>1, FS_Subset
  <2>3. Cardinality(L(n)) \in Nat /\ Cardinality(L(n)) # 0  BY <2>1, <2>2, FS_CardinalityType, FS_EmptySet
  <2> QED  BY <2>1, <2>2, <2>3
<1>3. ASSUME NEW n \in S, NEW m \in S, n < m PROVE Cardinality(L(n)) # Cardinality(L(m))
  <2>1. n \in Nat /\ m \in Nat  OBVIOUS
  <2>2. CASE reversed
    <3>1. L(m) \subseteq L(n) /\ n \notin L(m)
      <4>1. \A x : /\ x \in L(m) <=> x \in S /\ x >= m
                   /\ x \in L(n) <=> x \in S /\ x >= n  BY <2>2
      <4>2. \A x \in S : x \in Nat  OBVIOUS
      <4> HIDE DEF L
      <4>3. \A x \in S : x >= m => x >= n  BY <1>3, <2>1, <4>2
      <4>4. \A x : x \in L(m) => x \in L(n)  BY <4>1, <4>3, Zenon
      <4>5. n \notin L(m)  BY <1>3, <2>1, <4>1
      <4> QED  BY <4>4, <4>5
    <3> HIDE DEF L
    <3> QED  BY <1>2, <3>1, FS_Subset
  <2>3. CASE ~reversed
    <3>1. L(n) \subseteq L(m) /\ m \notin L(n)
      <4>1. \A x : /\ x \in L(m) <=> x \in S /\ x <= m
                   /\ x \in L(n) <=> x \in S /\ x <= n  BY <2>3
      <4>2. \A x \in S : x \in Nat  OBVIOUS
      <4> HIDE DEF L
      <4>4. \A x \in S : x <= n => x <= m  BY <1>3, <2>1, <4>2
      <4>5. \A x : x \in L(n) => x \in L(m)  BY <4>1, <4>4, Zenon
      <4>6. m \notin L(n)  BY <1>3, <2>1, <4>1
      <4> QED  BY <4>5, <4>6
    <3> HIDE DEF L
    <3> QED  BY <1>2, <3>1, FS_Subset
  <2> QED  BY <2>2, <2>3
<1>4. \A n \in S : NameRank(S, n, reversed) = Cardinality(L(n))  BY DEF NameRank
<1> HIDE DEF L
<1>5. PICK r : r = [n \in S |-> Cardinality(L(n))]  OBVIOUS
<1>6. r \in Injection(S, 1..c)
  <2>1. \A n, m \in S : r[n] = r[m] => n = m
    <3> SUFFICES ASSUME NEW n \in S, NEW m \in S, r[n] = r[m], n # m PROVE FALSE  OBVIOUS
    <3>1. n < m \/ m < n  OBVIOUS
    <3> QED  BY <1>3, <1>5, <3>1
  <2>2. r \in [S -> 1..c]  BY <1>2, <1>5
  <2> QED  BY <2>1, <2>2 DEF Injection, IsInjective
<1>7. IsFiniteSet(1..c) /\ Cardinality(1..c) = c
  <2>1. PICK a \in Int, z \in Int : a = 1 /\ z = c  OBVIOUS
  <2>2. IsFiniteSet(a..z) /\ Cardinality(a..z) = IF a > z THEN 0 ELSE z - a + 1  BY FS_Interval
  <2> QED  BY <2>1, <2>2
<1>8. r \in Surjection(S, 1..c)  BY <1>1, <1>6, <1>7, FS_Injection
<1>9. PICK q : q = ByName(S, reversed)  OBVIOUS
<1>10. \A i \in 1..c : q[i] \in S /\ r[q[i]] = i
  <2> TAKE i \in 1..c
  <2>1. \E n \in S : NameRank(S, n, reversed) = i  BY <1>4, <1>5, <1>8 DEF Surjection
  <2>2. q[i] = CHOOSE n \in S : NameRank(S, n, reversed) = i  BY <1>1, <1>9 DEF ByName
  <2>3. q[i] \in S /\ NameRank(S, q[i], reversed) = i  BY <2>1, <2>2
  <2> QED  BY <1>4, <1>5, <2>3
<1>11. q \in Seq(S) /\ Len(q) = c
  <2>1. q = [i \in 1..c |-> q[i]]  BY <1>1, <1>9 DEF ByName
  <2> QED  BY <1>10, <2>1
<1>12. \A x \in S : r[x] \in 1..c /\ q[r[x]] = x
  <2> TAKE x \in S
  <2>1. r[x] \in 1..c  BY <1>2, <1>5
  <2>2. q[r[x]] \in S /\ r[q[r[x]]] = r[x]  BY <1>10, <2>1
  <2>3. \A n, m \in S : r[n] = r[m] => n = m  BY <1>6 DEF Injection, IsInjective
  <2> QED  BY <2>1, <2>2, <2>3
<1>13. \A i, j \in 1..c : q[i] = q[j] => i = j  BY <1>10
<1> QED  BY <1>9, <1>11, <1>12, <1>13 DEF Lists

-----------------------------------------------------------------------------
(* Nodes and their inputs. *)

NodeTypes == type \in Seq({"variable", "constant", "random", "dropout", "fun", "add"})

\* Every node has the inputs of its type.
Shape(in) == in \in [Node -> Seq(Node)] /\ \A n \in Node : Len(in[n]) = Arity(type[n])

\* As it was made: over nodes that were there.
Down(in) == \A n \in Node : \A k \in 1..Len(in[n]) : in[n][k] < n

LEMMA NodeFacts ==
  ASSUME NodeTypes
  PROVE  /\ Len(type) \in Nat /\ Node = 1..Len(type) /\ Node \subseteq Nat
         /\ IsFiniteSet(Node) /\ Cardinality(Node) = Len(type)
         /\ Numbers \in Seq(Node) /\ Len(Numbers) = Len(type) /\ \A i \in Node : Numbers[i] = i
<1>1. Len(type) \in Nat /\ Node = 1..Len(type)  BY DEF NodeTypes, Node
<1>2. PICK a \in Int, z \in Int : a = 1 /\ z = Len(type)  BY <1>1
<1>3. IsFiniteSet(a..z) /\ Cardinality(a..z) = IF a > z THEN 0 ELSE z - a + 1  BY FS_Interval
<1>4. IsFiniteSet(Node) /\ Cardinality(Node) = Len(type)  BY <1>1, <1>2, <1>3
<1>5. Numbers = [n \in 1..Len(type) |-> n]  BY <1>1 DEF Numbers
<1>6. Numbers \in Seq(Node) /\ Len(Numbers) = Len(type)  BY <1>1, <1>5
<1> QED  BY <1>1, <1>4, <1>5, <1>6

\* C has the inputs of its nodes.
Closed(in, C) == \A n \in C : \A k \in 1..Len(in[n]) : in[n][k] \in C

\* What is below S is in every closed set that S is in.
LEMMA BelowLeast ==
  ASSUME NodeTypes, NEW in \in [Node -> Seq(Node)], NEW C, C \subseteq Node, Closed(in, C),
         NEW S, S \subseteq C
  PROVE  Below(in, S) \subseteq C
<1>1. PICK f : f = [i \in Node |-> [X \in SUBSET Node |-> X \cup UNION {ToSet(in[n]) : n \in X}]]
  OBVIOUS
<1>2. PICK J : J = [i \in Nat |-> SUBSET C]  OBVIOUS
<1>3. \A i \in 1..Len(Numbers) : \A X \in J[i - 1] : f[Numbers[i]][X] \in J[i]
  <2> TAKE i \in 1..Len(Numbers)
  <2> TAKE X \in J[i - 1]
  <2>1. i \in Node /\ Numbers[i] = i /\ i \in Nat /\ i - 1 \in Nat
    <3>1. Len(Numbers) \in Nat /\ Node = 1..Len(Numbers) /\ \A k \in Node : Numbers[k] = k
      BY NodeFacts
    <3> QED  BY <3>1
  <2>2. X \in SUBSET C  BY <1>2, <2>1
  <2>3. \A n \in X : ToSet(in[n]) \subseteq C
    <3> TAKE n \in X
    <3>1. in[n] \in Seq(Node)  BY <2>2
    <3>2. \A k \in 1..Len(in[n]) : in[n][k] \in C  BY <2>2 DEF Closed
    <3>3. \A y \in ToSet(in[n]) : \E k \in 1..Len(in[n]) : in[n][k] = y  BY <3>1, SetOf
    <3> QED  BY <3>2, <3>3
  <2>4. f[i][X] = X \cup UNION {ToSet(in[n]) : n \in X}  BY <1>1, <2>1, <2>2
  <2>5. f[i][X] \subseteq C  BY <2>2, <2>3, <2>4
  <2> QED  BY <1>2, <2>1, <2>5
<1>4. Len(Numbers) \in Nat /\ S \in J[0]  BY <1>2, NodeFacts
<1>5. Along(f, S, Numbers) \in J[Len(Numbers)]  BY <1>3, <1>4, LoopRule
<1> QED  BY <1>1, <1>2, <1>4, <1>5 DEF Below

LEMMA BelowIn ==
  ASSUME NodeTypes, NEW in \in [Node -> Seq(Node)], NEW S, S \subseteq Node
  PROVE  Below(in, S) \subseteq Node
<1>1. Closed(in, Node)
  <2>1. ASSUME NEW n \in Node, NEW k \in 1..Len(in[n]) PROVE in[n][k] \in Node
    <3>1. in[n] \in Seq(Node)  OBVIOUS
    <3> QED  BY <3>1
  <2> QED  BY <2>1 DEF Closed
<1> QED  BY <1>1, BelowLeast

-----------------------------------------------------------------------------
(* What a node computes. *)

Same(m, n) ==
  {a \in 1..(n - 1) : /\ type[a] = type[n] /\ type[a] \notin {"variable", "random", "dropout"}
                      /\ Args(m, a) = Args(m, n)}
Name(m, n) == IF Same(m, n) = {} THEN n ELSE m[Min(Same(m, n))]

LEMMA ArgsLocal ==
  ASSUME NodeTypes, Shape(original), Down(original), NEW n \in Node, NEW m, NEW q,
         \A j \in 1..(n - 1) : m[j] = q[j]
  PROVE  Args(m, n) = Args(q, n)
<1>1. original[n] \in Seq(Node)  BY DEF Shape
<1>2. \A k \in DOMAIN original[n] : m[original[n][k]] = q[original[n][k]]
  <2> TAKE k \in DOMAIN original[n]
  <2>1. k \in 1..Len(original[n])  BY <1>1
  <2>2. original[n][k] \in Node /\ original[n][k] < n  BY <1>1, <2>1 DEF Down
  <2>3. original[n][k] \in 1..(n - 1)  BY <2>2, NodeFacts
  <2> QED  BY <2>3
<1>3. [k \in DOMAIN original[n] |-> m[original[n][k]]] = [k \in DOMAIN original[n] |-> q[original[n][k]]]
  BY <1>2
<1>4. PICK x : x = [k \in DOMAIN original[n] |-> m[original[n][k]]]  OBVIOUS
<1>5. Args(m, n) = IF Len(x) = 2 /\ x[2] < x[1] THEN <<x[2], x[1]>> ELSE x  BY <1>4 DEF Args
<1>6. x = [k \in DOMAIN original[n] |-> q[original[n][k]]]  BY <1>3, <1>4, Zenon
<1>7. Args(q, n) = IF Len(x) = 2 /\ x[2] < x[1] THEN <<x[2], x[1]>> ELSE x  BY <1>6 DEF Args
<1> QED  BY <1>5, <1>7

LEMMA NameLocal ==
  ASSUME NodeTypes, Shape(original), Down(original), NEW n \in Node, NEW m, NEW q,
         \A j \in 1..(n - 1) : m[j] = q[j]
  PROVE  Name(m, n) = Name(q, n) /\ Same(m, n) = Same(q, n)
<1>1. \A a \in 1..n : Args(m, a) = Args(q, a)
  <2> TAKE a \in 1..n
  <2>1. a \in Node  BY NodeFacts
  <2>2. \A j \in 1..(a - 1) : m[j] = q[j]  BY NodeFacts
  <2> QED  BY <2>1, <2>2, ArgsLocal
<1>2. n \in 1..n /\ \A a \in 1..(n - 1) : a \in 1..n  BY NodeFacts
<1>3. Same(m, n) = Same(q, n)  BY <1>1, <1>2 DEF Same
<1>4. ASSUME Same(m, n) # {} PROVE m[Min(Same(m, n))] = q[Min(Same(m, n))]
  <2>1. Same(m, n) \subseteq 1..(n - 1) /\ Same(m, n) \subseteq Nat  BY DEF Same
  <2>2. Min(Same(m, n)) \in Same(m, n)  BY <1>4, <2>1, Least
  <2> QED  BY <2>1, <2>2
<1> QED  BY <1>3, <1>4 DEF Name

\* Every node is called as the first that computes the same.
LEMMA MeaningFacts ==
  ASSUME NodeTypes, Shape(original), Down(original)
  PROVE  Meaning \in [Node -> Node] /\ \A n \in Node : Meaning[n] = Name(Meaning, n)
<1>1. PICK N \in Nat : N = Len(type) /\ N = Len(Numbers) /\ Node = 1..N  BY NodeFacts
<1>2. PICK J : J = [i \in 0..N |-> {m \in Seq(Node) : Len(m) = i /\ \A n \in 1..i : m[n] = Name(m, n)}]
  OBVIOUS
<1>3. <<>> \in J[0]  BY <1>2
<1>4. \A i \in 1..Len(Numbers) : \A m \in J[i - 1] : Named[Numbers[i]][m] \in J[i]
  <2> TAKE i \in 1..Len(Numbers)
  <2> TAKE m \in J[i - 1]
  <2>1. i \in Node /\ i \in 0..N /\ i - 1 \in 0..N /\ Numbers[i] = i  BY <1>1, NodeFacts
  <2>2. m \in Seq(Node) /\ Len(m) = i - 1 /\ \A n \in 1..(i - 1) : m[n] = Name(m, n)
    BY <1>2, <2>1
  <2>3. PICK q : q = Append(m, Name(m, i))  OBVIOUS
  <2>4. Named[i][m] = q  BY <2>1, <2>2, <2>3 DEF Named, Name, Same
  <2>5. Name(m, i) \in Node
    <3>1. Same(m, i) \subseteq 1..(i - 1) /\ Same(m, i) \subseteq Nat  BY <2>1, NodeFacts DEF Same
    <3>2. Same(m, i) # {} => Min(Same(m, i)) \in 1..(i - 1)  BY <3>1, Least
    <3> QED  BY <2>1, <2>2, <3>2 DEF Name
  <2>6. q \in Seq(Node) /\ Len(q) = i /\ q[i] = Name(m, i) /\ \A n \in 1..(i - 1) : q[n] = m[n]
    BY <2>1, <2>2, <2>3, <2>5
  <2>7. \A n \in 1..i : q[n] = Name(q, n)
    <3> TAKE n \in 1..i
    <3>1. n \in Node /\ \A j \in 1..(n - 1) : m[j] = q[j]  BY <1>1, <2>1, <2>6
    <3>2. Name(m, n) = Name(q, n)  BY <3>1, NameLocal
    <3>3. q[n] = Name(m, n)
      <4>1. CASE n = i  BY <2>6, <4>1
      <4>2. CASE n # i
        <5>1. n \in 1..(i - 1)  BY <2>1, <4>2
        <5> QED  BY <2>2, <2>6, <5>1
      <4> QED  BY <4>1, <4>2
    <3> QED  BY <3>2, <3>3
  <2> QED  BY <1>2, <2>1, <2>4, <2>6, <2>7
<1>5. Meaning \in J[N]  BY <1>1, <1>3, <1>4, LoopRule DEF Meaning
<1> QED  BY <1>1, <1>2, <1>5

\* Nodes of one type with the same arguments compute the same.
LEMMA SameArgs ==
  ASSUME NodeTypes, Shape(original), Down(original), NEW a \in Node, NEW b \in Node,
         type[a] = type[b], type[a] \notin {"variable", "random", "dropout"},
         Args(Meaning, a) = Args(Meaning, b), a < b
  PROVE  Meaning[a] = Meaning[b]
<1>1. PICK m : m = Meaning  OBVIOUS
<1>2. m[a] = Name(m, a) /\ m[b] = Name(m, b)  BY <1>1, MeaningFacts
<1>3. a \in 1..(b - 1) /\ a \in Nat /\ b \in Nat  BY NodeFacts
<1>4. a \in Same(m, b)  BY <1>1, <1>3 DEF Same
<1>5. \A c \in 1..(a - 1) : c \in Same(m, a) <=> c \in Same(m, b)
  BY <1>1, <1>3 DEF Same
<1>6. Same(m, a) \subseteq 1..(a - 1) /\ Same(m, b) \subseteq 1..(b - 1)  BY DEF Same
<1>7. PICK c \in Same(m, b) : c = Min(Same(m, b)) /\ \A y \in Same(m, b) : c <= y
  <2>1. Same(m, b) \subseteq Nat /\ Same(m, b) # {}  BY <1>3, <1>4, <1>6
  <2> QED  BY <2>1, Least
<1>8. m[b] = m[c]  BY <1>2, <1>4, <1>7 DEF Name
<1>9. CASE c = a  BY <1>1, <1>8, <1>9
<1>10. CASE c # a
  <2>1. c \in 1..(a - 1)  BY <1>3, <1>4, <1>6, <1>7, <1>10
  <2>2. c \in Same(m, a)  BY <1>5, <1>7, <2>1
  <2>3. PICK d \in Same(m, a) : d = Min(Same(m, a)) /\ \A y \in Same(m, a) : d <= y
    <3>1. Same(m, a) \subseteq Nat /\ Same(m, a) # {}  BY <1>3, <1>6, <2>2
    <3> QED  BY <3>1, Least
  <2>4. d \in Same(m, b) /\ d <= c  BY <1>5, <1>6, <2>2, <2>3
  <2>5. d = c  BY <1>3, <1>6, <1>7, <2>1, <2>4
  <2>6. m[a] = m[d]  BY <1>2, <2>2, <2>3 DEF Name
  <2> QED  BY <1>1, <1>8, <2>5, <2>6
<1> QED  BY <1>9, <1>10

\* Every input computes what it did before the pass.
Kept(in) ==
  \A n \in Node : \A k \in 1..Len(in[n]) : Meaning[in[n][k]] = Meaning[original[n][k]]

Undropped == \A n \in Node : type[n] # "dropout"

Made == NodeTypes /\ Shape(original) /\ Down(original)

LEMMA ArgsAre ==
  ASSUME Made, NEW in, Shape(in), Kept(in), NEW n \in Node
  PROVE  \E x \in Seq(Node) :
           /\ Len(x) = Len(in[n]) /\ \A k \in 1..Len(x) : x[k] = Meaning[in[n][k]]
           /\ Args(Meaning, n) = IF Len(x) = 2 /\ x[2] < x[1] THEN <<x[2], x[1]>> ELSE x
<1>1. /\ in[n] \in Seq(Node) /\ original[n] \in Seq(Node) /\ Len(original[n]) = Len(in[n])
      /\ DOMAIN original[n] = 1..Len(in[n])
  BY DEF Shape, Made
<1>2. PICK x : x = [k \in DOMAIN original[n] |-> Meaning[original[n][k]]]  OBVIOUS
<1>3. Args(Meaning, n) = IF Len(x) = 2 /\ x[2] < x[1] THEN <<x[2], x[1]>> ELSE x
  BY <1>2 DEF Args
<1>4. x = [k \in 1..Len(in[n]) |-> Meaning[original[n][k]]]  BY <1>1, <1>2
<1>5. \A k \in 1..Len(in[n]) : Meaning[original[n][k]] \in Node
  <2>1. Meaning \in [Node -> Node]  BY MeaningFacts DEF Made
  <2> QED  BY <1>1, <2>1
<1>6. x \in Seq(Node) /\ Len(x) = Len(in[n])
  <2>1. Len(in[n]) \in Nat  BY <1>1
  <2> QED  BY <1>4, <1>5, <2>1
<1>7. \A k \in 1..Len(x) : x[k] = Meaning[in[n][k]]  BY <1>4, <1>6 DEF Kept
<1> QED  BY <1>3, <1>6, <1>7

\* Equivalent nodes compute the same.
LEMMA EquivalentMean ==
  ASSUME Made, Undropped, NEW in, Shape(in), Kept(in), NEW a \in Node, NEW b \in Node,
         IsEquivalent(in, a, b)
  PROVE  Meaning[a] = Meaning[b]
<1>1. PICK x \in Seq(Node) :
        /\ Len(x) = Len(in[a]) /\ \A k \in 1..Len(x) : x[k] = Meaning[in[a][k]]
        /\ Args(Meaning, a) = IF Len(x) = 2 /\ x[2] < x[1] THEN <<x[2], x[1]>> ELSE x
  BY ArgsAre
<1>2. PICK y \in Seq(Node) :
        /\ Len(y) = Len(in[b]) /\ \A k \in 1..Len(y) : y[k] = Meaning[in[b][k]]
        /\ Args(Meaning, b) = IF Len(y) = 2 /\ y[2] < y[1] THEN <<y[2], y[1]>> ELSE y
  BY ArgsAre
<1>3. type[a] = type[b] /\ type[a] \notin {"variable", "random", "dropout"}
  BY DEF IsEquivalent, Undropped
<1>4. Args(Meaning, a) = Args(Meaning, b)
  <2>1. CASE in[a] = in[b]
    <3>1. x = y  BY <1>1, <1>2, <2>1
    <3> QED  BY <1>1, <1>2, <3>1
  <2>2. CASE type[a] = "add" /\ in[a] = Reverse(in[b])
    <3>1. Len(in[a]) = 2 /\ Len(in[b]) = 2  BY <1>3, <2>2 DEF Shape, Arity
    <3>2. in[a][1] = in[b][2] /\ in[a][2] = in[b][1]  BY <2>2, <3>1 DEF Reverse
    <3>3. x[1] = y[2] /\ x[2] = y[1] /\ Len(x) = 2 /\ Len(y) = 2  BY <1>1, <1>2, <3>1, <3>2
    <3>4. PICK u, v \in Nat : u = x[1] /\ v = x[2]
      <4>0. 1 \in 1..Len(x) /\ 2 \in 1..Len(x)  BY <3>3
      <4>1. x[1] \in Node /\ x[2] \in Node  BY <4>0, ElementOfSeq
      <4>2. Node \subseteq Nat  BY NodeFacts DEF Made
      <4> QED  BY <4>1, <4>2
    <3>5. x = <<u, v>> /\ y = <<v, u>>  BY <3>3, <3>4
    <3>6. CASE v < u  BY <1>1, <1>2, <3>3, <3>4, <3>5, <3>6
    <3>7. CASE u < v  BY <1>1, <1>2, <3>3, <3>4, <3>5, <3>7
    <3>8. CASE u = v  BY <1>1, <1>2, <3>3, <3>4, <3>5, <3>8
    <3> QED  BY <3>6, <3>7, <3>8
  <2> QED  BY <2>1, <2>2 DEF IsEquivalent
<1>5. a < b \/ b < a \/ a = b  BY NodeFacts DEF Made
<1> QED  BY <1>3, <1>4, <1>5, SameArgs DEF Made

-----------------------------------------------------------------------------
(* The topological order. *)

Distinct(q) == \A i, j \in 1..Len(q) : q[i] = q[j] => i = j

\* Every node of the list comes after its inputs.
Ordered(in, q) ==
  \A i \in 1..Len(q) : \A k \in 1..Len(in[q[i]]) : \E j \in 1..(i - 1) : q[j] = in[q[i]][k]

\* The inputs of o are among the first f of the list.
Ready(q, f, o) ==
  \A k \in 1..Len(input[o]) : \E j \in 1..Len(q) : j <= f /\ q[j] = input[o][k]

\* After f steps the list has the nodes whose inputs are among its first f.
Listing(q, f) ==
  /\ q \in Seq(Node) /\ Distinct(q) /\ Ordered(input, q)
  /\ \A o \in Node : (\E i \in 1..Len(q) : q[i] = o) <=> Ready(q, f, o)

LEMMA Joined ==
  ASSUME NEW S, NEW q \in Seq(S), NEW r \in Seq(S)
  PROVE  /\ q \o r \in Seq(S) /\ Len(q \o r) = Len(q) + Len(r)
         /\ \A i \in 1..Len(q) : (q \o r)[i] = q[i]
         /\ \A i \in 1..Len(r) : (q \o r)[Len(q) + i] = r[i]
OBVIOUS

LEMMA Started ==
  ASSUME NEW S, NEW q \in Seq(S), NEW f \in 0..Len(q)
  PROVE  SubSeq(q, 1, f) \in Seq(S) /\ Len(SubSeq(q, 1, f)) = f /\ \A j \in 1..f : SubSeq(q, 1, f)[j] = q[j]
<1>1. f \in Nat /\ Len(q) \in Nat /\ \A j \in 1..f : j \in 1..Len(q)  OBVIOUS
<1> QED  BY <1>1

\* Appending what the f-th node makes ready.
LEMMA ReadyStep ==
  ASSUME NodeTypes, Shape(input), NEW q, NEW f \in Nat \ {0}, f <= Len(q), Listing(q, f - 1),
         NEW R, R = {o \in Node : Ready(q, f, o) /\ ~Ready(q, f - 1, o)},
         NEW r, Lists(r, R)
  PROVE  Listing(q \o r, f)
<1>1. /\ q \in Seq(Node) /\ Distinct(q) /\ Ordered(input, q) /\ Len(q) \in Nat
      /\ \A o \in Node : (\E i \in 1..Len(q) : q[i] = o) <=> Ready(q, f - 1, o)
  BY DEF Listing
<1>2. r \in Seq(Node) /\ r \in Seq(R) /\ Distinct(r) /\ Len(r) \in Nat
  <2>1. r \in Seq(R)  BY DEF Lists
  <2>2. R \subseteq Node  OBVIOUS
  <2> QED  BY <2>1, <2>2 DEF Lists, Distinct
<1>3. PICK p \in Seq(Node) : /\ p = q \o r /\ Len(p) = Len(q) + Len(r)
                             /\ \A i \in 1..Len(q) : p[i] = q[i]
                             /\ \A i \in 1..Len(r) : p[Len(q) + i] = r[i]
  <2>1. PICK p : p = q \o r  OBVIOUS
  <2>2. q \in Seq(Node) /\ r \in Seq(Node)  BY <1>1, <1>2
  <2>3. /\ p \in Seq(Node) /\ Len(p) = Len(q) + Len(r)
        /\ \A i \in 1..Len(q) : p[i] = q[i]
        /\ \A i \in 1..Len(r) : p[Len(q) + i] = r[i]
    BY <2>1, <2>2, Joined
  <2> QED  BY <2>1, <2>3
<1>4. \A i \in 1..Len(p) : i \in 1..Len(q) \/ (i > Len(q) /\ i - Len(q) \in 1..Len(r) /\ p[i] = r[i - Len(q)])
  <2> TAKE i \in 1..Len(p)
  <2>1. CASE i <= Len(q)  BY <1>1, <2>1
  <2>2. CASE i > Len(q)
    <3>1. i - Len(q) \in 1..Len(r) /\ Len(q) + (i - Len(q)) = i  BY <1>1, <1>2, <1>3, <2>2
    <3> QED  BY <1>3, <2>2, <3>1
  <2> QED  BY <1>1, <1>3, <2>1, <2>2
<1>5. \A i \in 1..Len(r) : r[i] \in R  BY <1>2, ElementOfSeq
<1>6. \A i \in 1..Len(q), j \in 1..Len(r) : q[i] # r[j]
  <2> SUFFICES ASSUME NEW i \in 1..Len(q), NEW j \in 1..Len(r), q[i] = r[j] PROVE FALSE  OBVIOUS
  <2>1. r[j] \in Node /\ ~Ready(q, f - 1, r[j])  BY <1>5
  <2> QED  BY <1>1, <2>1
<1>7. Distinct(p)
  <2> SUFFICES ASSUME NEW i \in 1..Len(p), NEW j \in 1..Len(p), p[i] = p[j] PROVE i = j
    BY DEF Distinct
  <2>1. CASE i \in 1..Len(q) /\ j \in 1..Len(q)  BY <1>1, <1>3, <2>1 DEF Distinct
  <2>2. CASE i \in 1..Len(q) /\ j \notin 1..Len(q)  BY <1>3, <1>4, <1>6, <2>2
  <2>3. CASE i \notin 1..Len(q) /\ j \in 1..Len(q)  BY <1>3, <1>4, <1>6, <2>3
  <2>4. CASE i \notin 1..Len(q) /\ j \notin 1..Len(q)
    <3>1. i - Len(q) \in 1..Len(r) /\ j - Len(q) \in 1..Len(r) /\ r[i - Len(q)] = r[j - Len(q)]
      BY <1>4, <2>4
    <3>2. i - Len(q) = j - Len(q)  BY <1>2, <3>1 DEF Distinct
    <3> QED  BY <1>1, <3>2
  <2> QED  BY <2>1, <2>2, <2>3, <2>4
<1>8. Ordered(input, p)
  <2> SUFFICES ASSUME NEW i \in 1..Len(p), NEW k \in 1..Len(input[p[i]])
               PROVE \E j \in 1..(i - 1) : p[j] = input[p[i]][k]
    BY DEF Ordered
  <2>1. CASE i \in 1..Len(q)
    <3>1. p[i] = q[i]  BY <1>3, <2>1
    <3>2. PICK j \in 1..(i - 1) : q[j] = input[q[i]][k]  BY <1>1, <2>1, <3>1 DEF Ordered
    <3>3. j \in 1..Len(q)  BY <1>1, <2>1
    <3> QED  BY <1>3, <3>1, <3>2, <3>3
  <2>2. CASE i \notin 1..Len(q)
    <3>1. i > Len(q) /\ p[i] \in R  BY <1>4, <1>5, <2>2
    <3>2. PICK j \in 1..Len(q) : j <= f /\ q[j] = input[p[i]][k]  BY <3>1 DEF Ready
    <3>3. j \in 1..(i - 1) /\ p[j] = q[j]  BY <1>1, <1>3, <3>1, <3>2
    <3> QED  BY <3>2, <3>3
  <2> QED  BY <2>1, <2>2
<1>9. \A o \in Node : Ready(p, f, o) <=> Ready(q, f, o)
  <2>1. \A j : j \in 1..Len(q) /\ j <= f <=> j \in 1..Len(p) /\ j <= f  BY <1>1, <1>2, <1>3
  <2>2. \A j \in 1..Len(q) : p[j] = q[j]  BY <1>3
  <2> QED  BY <2>1, <2>2 DEF Ready
<1>10. \A o \in Node : Ready(q, f - 1, o) => Ready(q, f, o)
  <2>1. \A j \in 1..Len(q) : j <= f - 1 => j <= f  BY <1>1
  <2> QED  BY <2>1 DEF Ready
<1>11. ASSUME NEW o \in Node PROVE (\E i \in 1..Len(p) : p[i] = o) <=> Ready(p, f, o)
  <2>1. ASSUME NEW i \in 1..Len(p), p[i] = o PROVE Ready(p, f, o)
    <3>1. CASE i \in 1..Len(q)
      <4>1. q[i] = o  BY <1>3, <2>1, <3>1
      <4> QED  BY <1>1, <1>9, <1>10, <3>1, <4>1
    <3>2. CASE i \notin 1..Len(q)
      <4>1. o \in R  BY <1>4, <1>5, <2>1, <3>2
      <4> QED  BY <1>9, <4>1
    <3> QED  BY <3>1, <3>2
  <2>2. ASSUME Ready(p, f, o) PROVE \E i \in 1..Len(p) : p[i] = o
    <3>1. CASE Ready(q, f - 1, o)
      <4>1. PICK i \in 1..Len(q) : q[i] = o  BY <1>1, <3>1
      <4>2. i \in 1..Len(p) /\ p[i] = o  BY <1>1, <1>2, <1>3, <4>1
      <4> QED  BY <4>2
    <3>2. CASE ~Ready(q, f - 1, o)
      <4>1. o \in R  BY <1>9, <2>2, <3>2
      <4>2. PICK i \in 1..Len(r) : r[i] = o  BY <4>1 DEF Lists
      <4>3. Len(q) + i \in 1..Len(p) /\ p[Len(q) + i] = o  BY <1>1, <1>2, <1>3, <4>2
      <4> QED  BY <4>3
    <3> QED  BY <3>1, <3>2
  <2> QED  BY <2>1, <2>2
<1> QED  BY <1>3, <1>7, <1>8, <1>11 DEF Listing

LEMMA ListedStep ==
  ASSUME NodeTypes, Shape(input), NEW reversed \in BOOLEAN, NEW f \in Node, NEW q, Listing(q, f - 1)
  PROVE  Listing(Listed(reversed)[f][q], f)
<1>1. /\ q \in Seq(Node) /\ Len(q) \in Nat /\ f \in Nat \ {0} /\ f - 1 \in Nat
      /\ Distinct(q) /\ Ordered(input, q)
      /\ \A o \in Node : (\E i \in 1..Len(q) : q[i] = o) <=> Ready(q, f - 1, o)
  BY NodeFacts DEF Listing
<1>2. CASE f > Len(q)
  <2>1. Listed(reversed)[f][q] = q  BY <1>1, <1>2 DEF Listed
  <2>2. \A o \in Node : Ready(q, f - 1, o) <=> Ready(q, f, o)
    <3>1. \A j \in 1..Len(q) : j <= f /\ j <= f - 1  BY <1>1, <1>2
    <3> QED  BY <3>1 DEF Ready
  <2>3. Listing(q, f)  BY <1>1, <2>2 DEF Listing
  <2> QED  BY <2>1, <2>3
<1>3. CASE ~(f > Len(q))
  <2>0. f \in 1..Len(q) /\ f <= Len(q)  BY <1>1, <1>3
  <2>1. PICK done : done = ToSet(SubSeq(q, 1, f))  OBVIOUS
  <2>2. PICK R : R = {o \in Node : q[f] \in ToSet(input[o]) /\ ToSet(input[o]) \subseteq done}
    OBVIOUS
  <2>3. Listed(reversed)[f][q] = q \o ByName(R, reversed)  BY <1>1, <1>3, <2>1, <2>2 DEF Listed
  <2>4. \A x : x \in done <=> \E j \in 1..Len(q) : j <= f /\ q[j] = x
    <3>1. PICK u : u = SubSeq(q, 1, f)  OBVIOUS
    <3>u. u \in Seq(Node) /\ Len(u) = f /\ \A j \in 1..f : u[j] = q[j]
      BY <1>1, <2>0, <3>1, Started
    <3>2. \A x : x \in done <=> \E j \in 1..f : u[j] = x
      <4>1. \A x : x \in ToSet(u) <=> \E j \in 1..Len(u) : u[j] = x  BY <3>u, SetOf
      <4> QED  BY <2>1, <3>1, <3>u, <4>1
    <3>3. \A j : j \in 1..f <=> j \in 1..Len(q) /\ j <= f  BY <1>1, <2>0
    <3> QED  BY <3>u, <3>2, <3>3
  <2>5. ASSUME NEW o \in Node
        PROVE  q[f] \in ToSet(input[o]) /\ ToSet(input[o]) \subseteq done
                 <=> Ready(q, f, o) /\ ~Ready(q, f - 1, o)
    <3>1. input[o] \in Seq(Node)  BY DEF Shape
    <3>2. \A x : x \in ToSet(input[o]) <=> \E k \in 1..Len(input[o]) : input[o][k] = x
      BY <3>1, SetOf
    <3>3. ToSet(input[o]) \subseteq done <=> Ready(q, f, o)
      <4>1. ASSUME ToSet(input[o]) \subseteq done PROVE Ready(q, f, o)
        BY <2>4, <3>2, <4>1 DEF Ready
      <4>2. ASSUME Ready(q, f, o) PROVE ToSet(input[o]) \subseteq done
        BY <2>4, <3>2, <4>2 DEF Ready
      <4> QED  BY <4>1, <4>2
    <3>4. ASSUME Ready(q, f - 1, o), q[f] \in ToSet(input[o]) PROVE FALSE
      <4>1. PICK k \in 1..Len(input[o]) : input[o][k] = q[f]  BY <3>2, <3>4
      <4>2. PICK j \in 1..Len(q) : j <= f - 1 /\ q[j] = q[f]  BY <3>4, <4>1 DEF Ready
      <4>3. j = f  BY <1>1, <2>0, <4>2 DEF Distinct
      <4> QED  BY <1>1, <4>2, <4>3
    <3>5. ASSUME Ready(q, f, o), q[f] \notin ToSet(input[o]) PROVE Ready(q, f - 1, o)
      <4> SUFFICES ASSUME NEW k \in 1..Len(input[o])
                   PROVE \E j \in 1..Len(q) : j <= f - 1 /\ q[j] = input[o][k]
        BY DEF Ready
      <4>1. PICK j \in 1..Len(q) : j <= f /\ q[j] = input[o][k]  BY <3>5 DEF Ready
      <4>2. j # f  BY <3>2, <3>5, <4>1
      <4>3. j <= f - 1  BY <1>1, <4>1, <4>2
      <4> QED  BY <4>1, <4>3
    <3> QED  BY <3>3, <3>4, <3>5
  <2>6. R = {o \in Node : Ready(q, f, o) /\ ~Ready(q, f - 1, o)}  BY <2>2, <2>5
  <2>7. Lists(ByName(R, reversed), R)
    <3>1. R \in SUBSET Node /\ R \subseteq Nat  BY <2>2, NodeFacts
    <3>2. IsFiniteSet(R)  BY <3>1, NodeFacts, FS_Subset
    <3> QED  BY <3>1, <3>2, ByNameLists
  <2> QED  BY <1>1, <2>0, <2>3, <2>6, <2>7, ReadyStep
<1> QED  BY <1>2, <1>3

\* A list without repetition is no longer than the graph.
LEMMA NoLonger ==
  ASSUME NodeTypes, NEW q \in Seq(Node), Distinct(q)
  PROVE  Len(q) <= Len(type)
<1>1. PICK l \in Nat : l = Len(q)  OBVIOUS
<1>2. q \in Injection(1..l, Node)
  <2>1. q \in [1..l -> Node]  BY <1>1
  <2>2. \A i, j \in 1..l : q[i] = q[j] => i = j  BY <1>1 DEF Distinct
  <2> QED  BY <2>1, <2>2 DEF Injection, IsInjective
<1>3. Cardinality(1..l) <= Cardinality(Node)  BY <1>2, NodeFacts, FS_Injection
<1>4. Cardinality(1..l) = l
  <2>1. PICK a \in Int, z \in Int : a = 1 /\ z = l  OBVIOUS
  <2>2. Cardinality(a..z) = IF a > z THEN 0 ELSE z - a + 1  BY FS_Interval
  <2> QED  BY <2>1, <2>2
<1> QED  BY <1>1, <1>3, <1>4, NodeFacts

LEMMA RootsListing ==
  ASSUME NodeTypes, Shape(input), NEW reversed \in BOOLEAN
  PROVE  Listing(ByName({n \in Node : input[n] = <<>>}, reversed), 0)
<1>1. PICK R : R = {n \in Node : input[n] = <<>>}  OBVIOUS
<1>2. PICK q : q = ByName(R, reversed)  OBVIOUS
<1>3. Lists(q, R)
  <2>1. R \in SUBSET Node /\ R \subseteq Nat  BY <1>1, NodeFacts
  <2>2. IsFiniteSet(R)  BY <2>1, NodeFacts, FS_Subset
  <2> QED  BY <1>2, <2>1, <2>2, ByNameLists
<1>4. q \in Seq(Node) /\ Len(q) \in Nat /\ Distinct(q) /\ \A i \in 1..Len(q) : q[i] \in R
  <2>1. q \in Seq(R) /\ R \subseteq Node  BY <1>1, <1>3 DEF Lists
  <2>2. \A i \in 1..Len(q) : q[i] \in R  BY <2>1, ElementOfSeq
  <2>3. q \in Seq(Node)  BY <2>1
  <2> QED  BY <1>3, <2>2, <2>3 DEF Lists, Distinct
<1>5. \A o \in Node : o \in R <=> Len(input[o]) = 0
  <2> TAKE o \in Node
  <2>1. input[o] \in Seq(Node)  BY DEF Shape
  <2>2. input[o] = <<>> <=> Len(input[o]) = 0  BY <2>1
  <2> QED  BY <1>1, <2>2
<1>6. Ordered(input, q)  BY <1>4, <1>5 DEF Ordered
<1>7. ASSUME NEW o \in Node PROVE (\E i \in 1..Len(q) : q[i] = o) <=> Ready(q, 0, o)
  <2>1. (\E i \in 1..Len(q) : q[i] = o) <=> o \in R  BY <1>3, <1>4 DEF Lists
  <2>2. Len(input[o]) \in Nat
    <3>1. input[o] \in Seq(Node)  BY DEF Shape
    <3> QED  BY <3>1
  <2>3. Len(input[o]) = 0 => Ready(q, 0, o)  BY DEF Ready
  <2>4. ASSUME Ready(q, 0, o), Len(input[o]) # 0 PROVE FALSE
    <3>1. 1 \in 1..Len(input[o])  BY <2>2, <2>4
    <3>2. \E j \in 1..Len(q) : j <= 0  BY <2>4, <3>1 DEF Ready
    <3> QED  BY <1>4, <3>2
  <2> QED  BY <1>5, <2>1, <2>3, <2>4
<1> QED  BY <1>1, <1>2, <1>4, <1>6, <1>7 DEF Listing

\* The sort has every node of a graph as it was made, after its inputs.
LEMMA SortedFacts ==
  ASSUME NodeTypes, Shape(input), Down(input), NEW reversed \in BOOLEAN
  PROVE  Lists(TopologicalSorted(reversed), Node) /\ Ordered(input, TopologicalSorted(reversed))
<1>1. PICK N \in Nat : N = Len(type) /\ N = Len(Numbers) /\ Node = 1..N /\ \A i \in Node : Numbers[i] = i
  BY NodeFacts
<1>2. PICK J : J = [f \in 0..N |-> {q \in Seq(Node) : Listing(q, f)}]  OBVIOUS
<1>3. PICK a : a = ByName({n \in Node : input[n] = <<>>}, reversed)  OBVIOUS
<1>4. a \in J[0]
  <2>1. Listing(a, 0)  BY <1>3, RootsListing
  <2>2. a \in Seq(Node)  BY <2>1 DEF Listing
  <2> QED  BY <1>2, <2>1, <2>2
<1>5. \A i \in 1..Len(Numbers) : \A x \in J[i - 1] : Listed(reversed)[Numbers[i]][x] \in J[i]
  <2> TAKE i \in 1..Len(Numbers)
  <2> TAKE x \in J[i - 1]
  <2>1. i \in Node /\ i \in 0..N /\ i - 1 \in 0..N /\ Numbers[i] = i  BY <1>1
  <2>2. Listing(x, i - 1)  BY <1>2, <2>1
  <2>3. PICK y : y = Listed(reversed)[i][x]  OBVIOUS
  <2>4. Listing(y, i)  BY <2>1, <2>2, <2>3, ListedStep
  <2>5. y \in Seq(Node)  BY <2>4 DEF Listing
  <2> QED  BY <1>2, <2>1, <2>3, <2>4, <2>5
<1>6. PICK q : q = TopologicalSorted(reversed)  OBVIOUS
<1>7. q \in J[N]
  <2>1. PICK g : g = Listed(reversed)  OBVIOUS
  <2>2. \A i \in 1..Len(Numbers) : \A x \in J[i - 1] : g[Numbers[i]][x] \in J[i]  BY <1>5, <2>1
  <2>3. Along(g, a, Numbers) \in J[Len(Numbers)]  BY <1>1, <1>4, <2>2, LoopRule
  <2> QED  BY <1>1, <1>3, <1>6, <2>1, <2>3 DEF TopologicalSorted
<1>8. Listing(q, N) /\ q \in Seq(Node) /\ Distinct(q) /\ Len(q) \in Nat /\ Ordered(input, q)
  <2>1. Listing(q, N)  BY <1>1, <1>2, <1>7
  <2> QED  BY <2>1 DEF Listing
<1>9. Len(q) <= N  BY <1>1, <1>8, NoLonger
<1>10. \A o \in Node : (\E i \in 1..Len(q) : q[i] = o) <=> Ready(q, N, o)  BY <1>8 DEF Listing
<1>11. ASSUME NEW o \in Node, ~\E i \in 1..Len(q) : q[i] = o PROVE FALSE
  <2>1. PICK U : U = {n \in Node : ~\E i \in 1..Len(q) : q[i] = n}  OBVIOUS
  <2>2. U \subseteq Nat /\ U # {}  BY <1>11, <2>1, NodeFacts
  <2>3. PICK n \in U : \A m \in U : n <= m  BY <2>2, Least
  <2>4. n \in Node /\ ~Ready(q, N, n)  BY <1>10, <2>1
  <2>5. PICK k \in 1..Len(input[n]) : ~\E j \in 1..Len(q) : j <= N /\ q[j] = input[n][k]
    BY <2>4 DEF Ready
  <2>6. input[n][k] \in Node /\ input[n][k] < n
    <3>1. input[n] \in Seq(Node)  BY <2>4 DEF Shape
    <3> QED  BY <2>4, <2>5, <3>1, ElementOfSeq DEF Down
  <2>7. \A j \in 1..Len(q) : j <= N  BY <1>8, <1>9
  <2>8. input[n][k] \in U  BY <2>1, <2>5, <2>6, <2>7
  <2>9. \A x, y \in Node : ~(x <= y /\ y < x)
    <3>1. \A x, y \in Nat : ~(x <= y /\ y < x)  OBVIOUS
    <3> QED  BY <3>1, NodeFacts
  <2> QED  BY <2>3, <2>4, <2>6, <2>8, <2>9
<1> QED  BY <1>6, <1>8, <1>11 DEF Lists, Distinct

-----------------------------------------------------------------------------
(* The common subexpression pass. *)

\* After i turns R are the nodes that were replaced; no node has one of them as an input,
\* and of the nodes that had their turn none is equivalent to a later one.
Removed(q, in, P, R, i) ==
  /\ R \subseteq P /\ R \cap ToSet(targets) = {}
  /\ \A n \in Node : \A k \in 1..Len(in[n]) : in[n][k] \notin R
  /\ \A j \in 1..Len(q) : IF j <= i THEN q[j] \in P ELSE q[j] \in P => q[j] \in R
  /\ \A j, l \in 1..Len(q) :
       j <= i /\ j < l /\ {q[j], q[l]} \cap (R \cup ToSet(targets)) = {} => ~IsEquivalent(in, q[j], q[l])

Progress(q, in, P, i) ==
  /\ Shape(in) /\ P \subseteq Node /\ Ordered(in, q)
  /\ Undropped => Kept(in)
  /\ \E R \in SUBSET Node : Removed(q, in, P, R, i)

\* The inputs with a in the place of the nodes of S.
Replaced(in, S, a) == [n \in Node |-> [k \in DOMAIN in[n] |-> IF in[n][k] \in S THEN a ELSE in[n][k]]]

LEMMA ListFacts ==
  ASSUME NEW S, NEW q, Lists(q, S)
  PROVE  q \in Seq(S) /\ Len(q) \in Nat /\ \A p \in 1..Len(q) : q[p] \in S
<1>1. q \in Seq(S)  BY DEF Lists
<1>2. \A p \in 1..Len(q) : q[p] \in S  BY <1>1, ElementOfSeq
<1> QED  BY <1>1, <1>2

Swapped(in, S, a, r) ==
  /\ \A n \in Node : Len(r[n]) = Len(in[n])
  /\ \A n \in Node : \A k \in 1..Len(in[n]) : in[n][k] \in Node
  /\ \A n \in Node : \A k \in 1..Len(in[n]) : r[n][k] = IF in[n][k] \in S THEN a ELSE in[n][k]

LEMMA ReplacedFacts ==
  ASSUME NodeTypes, NEW in, Shape(in), NEW S, S \subseteq Node, NEW a \in Node,
         NEW r, r = Replaced(in, S, a)
  PROVE  Shape(r) /\ Swapped(in, S, a, r)
<1>2. ASSUME NEW n \in Node
      PROVE  /\ r[n] \in Seq(Node) /\ Len(r[n]) = Len(in[n])
             /\ \A k \in 1..Len(in[n]) : in[n][k] \in Node /\ r[n][k] = IF in[n][k] \in S THEN a ELSE in[n][k]
  <2>1. in[n] \in Seq(Node)  BY DEF Shape
  <2>2. Len(in[n]) \in Nat /\ DOMAIN in[n] = 1..Len(in[n]) /\ \A k \in 1..Len(in[n]) : in[n][k] \in Node
    BY <2>1, ElementOfSeq
  <2>3. r[n] = [k \in 1..Len(in[n]) |-> IF in[n][k] \in S THEN a ELSE in[n][k]]
    BY <2>2 DEF Replaced
  <2>4. r[n] \in Seq(Node) /\ Len(r[n]) = Len(in[n])  BY <2>2, <2>3
  <2> QED  BY <2>2, <2>3, <2>4
<1>3. r = [n \in Node |-> r[n]]  BY DEF Replaced
<1>4. r \in [Node -> Seq(Node)]  BY <1>2, <1>3
<1>5. \A n \in Node : Len(r[n]) = Arity(type[n])  BY <1>2 DEF Shape
<1> QED  BY <1>2, <1>4, <1>5 DEF Shape, Swapped

\* The list keeps its order when a node takes the place of later ones.
LEMMA ReplacedOrdered ==
  ASSUME NodeTypes, NEW in, Shape(in), NEW q, Lists(q, Node), Ordered(in, q), NEW i \in 1..Len(q),
         NEW S, S \subseteq Node, \A b \in S : \A j \in 1..Len(q) : q[j] = b => i < j
  PROVE  Ordered(Replaced(in, S, q[i]), q)
<1>1. PICK r : r = Replaced(in, S, q[i])  OBVIOUS
<1>2. q \in Seq(Node) /\ Len(q) \in Nat /\ \A p \in 1..Len(q) : q[p] \in Node
  BY ListFacts
<1>3. \A n \in Node : /\ Len(r[n]) = Len(in[n])
                      /\ \A k \in 1..Len(in[n]) : r[n][k] = IF in[n][k] \in S THEN q[i] ELSE in[n][k]
  <2>1. PICK a \in Node : a = q[i]  BY <1>2
  <2>2. r = Replaced(in, S, a)  BY <1>1, <2>1
  <2>3. /\ \A n \in Node : Len(r[n]) = Len(in[n])
        /\ \A n \in Node : \A k \in 1..Len(in[n]) : r[n][k] = IF in[n][k] \in S THEN a ELSE in[n][k]
    <3>1. Shape(r) /\ Swapped(in, S, a, r)  BY <2>2, ReplacedFacts
    <3> QED  BY <3>1 DEF Swapped
  <2> QED  BY <2>1, <2>3
<1> SUFFICES ASSUME NEW p \in 1..Len(q), NEW k \in 1..Len(in[q[p]])
             PROVE  \E j \in 1..(p - 1) : q[j] = r[q[p]][k]
  <2>1. \A p \in 1..Len(q) : Len(r[q[p]]) = Len(in[q[p]])  BY <1>2, <1>3
  <2> QED  BY <1>1, <2>1 DEF Ordered
<1>4. PICK j \in 1..(p - 1) : q[j] = in[q[p]][k]  BY DEF Ordered
<1>5. j \in 1..Len(q)  BY <1>2
<1>6. CASE q[j] \in S
  <2>1. i < j  BY <1>5, <1>6
  <2>2. i \in 1..(p - 1)  BY <1>2, <2>1
  <2>3. r[q[p]][k] = q[i]  BY <1>2, <1>3, <1>4, <1>6
  <2> QED  BY <2>2, <2>3
<1>7. CASE q[j] \notin S
  <2>1. r[q[p]][k] = q[j]  BY <1>2, <1>3, <1>4, <1>7
  <2> QED  BY <2>1
<1> QED  BY <1>6, <1>7

\* Replacing later nodes by q[i] makes no node up to q[i] equivalent to another one.
LEMMA StillDifferent ==
  ASSUME NodeTypes, NEW in, Shape(in), NEW q, Lists(q, Node), Ordered(in, q), NEW i \in 1..Len(q),
         NEW S, S \subseteq Node, \A b \in S : \A j \in 1..Len(q) : q[j] = b => i < j,
         NEW j \in 1..Len(q), j <= i, NEW y \in Node, IsEquivalent(Replaced(in, S, q[i]), q[j], y)
  PROVE  IsEquivalent(in, q[j], y)
<1>1. PICK r : r = Replaced(in, S, q[i])  OBVIOUS
<1>2. q \in Seq(Node) /\ Len(q) \in Nat /\ \A p \in 1..Len(q) : q[p] \in Node
  BY ListFacts
<1>3. PICK x \in Node : x = q[j]  BY <1>2
<1>4. /\ Shape(r) /\ \A n \in Node : Len(r[n]) = Len(in[n])
      /\ \A n \in Node : \A k \in 1..Len(in[n]) : r[n][k] = IF in[n][k] \in S THEN q[i] ELSE in[n][k]
  <2>1. PICK a \in Node : a = q[i]  BY <1>2
  <2>2. r = Replaced(in, S, a)  BY <1>1, <2>1
  <2>3. /\ Shape(r) /\ \A n \in Node : Len(r[n]) = Len(in[n])
        /\ \A n \in Node : \A k \in 1..Len(in[n]) : r[n][k] = IF in[n][k] \in S THEN a ELSE in[n][k]
    <3>1. Shape(r) /\ Swapped(in, S, a, r)  BY <2>2, ReplacedFacts
    <3> QED  BY <3>1 DEF Swapped
  <2> QED  BY <2>1, <2>3
<1>5. /\ in[x] \in Seq(Node) /\ in[y] \in Seq(Node) /\ r[x] \in Seq(Node) /\ r[y] \in Seq(Node)
      /\ Len(in[x]) \in Nat /\ Len(in[y]) \in Nat
  <2>1. in[x] \in Seq(Node) /\ in[y] \in Seq(Node) /\ r[x] \in Seq(Node) /\ r[y] \in Seq(Node)
    BY <1>4 DEF Shape
  <2> QED  BY <2>1
<1>6. \A k \in 1..Len(in[x]) : in[x][k] \notin S /\ in[x][k] # q[i]
  <2> TAKE k \in 1..Len(in[x])
  <2>1. PICK p \in 1..(j - 1) : q[p] = in[x][k]  BY <1>3 DEF Ordered
  <2>2. p \in 1..Len(q) /\ ~(i < p) /\ p # i  BY <1>2
  <2>3. q[p] # q[i]  BY <2>2 DEF Lists
  <2> QED  BY <2>1, <2>2, <2>3
<1>7. r[x] = in[x]
  <2>1. \A k \in 1..Len(in[x]) : r[x][k] = in[x][k]  BY <1>4, <1>6
  <2>2. Len(r[x]) = Len(in[x])  BY <1>4
  <2> QED  BY <1>5, <2>1, <2>2, SeqEqual
<1>8. IsEquivalent(r, x, y)  BY <1>1, <1>3
<1>9. \A k \in 1..Len(in[y]) : r[y][k] # q[i]
  <2>1. CASE r[x] = r[y]
    <3>1. r[y] = in[x] /\ Len(in[y]) = Len(in[x])  BY <1>4, <1>7, <2>1
    <3> QED  BY <1>6, <3>1
  <2>2. CASE r[x] = Reverse(r[y])
    <3>1. /\ Len(in[x]) = Len(in[y])
          /\ \A k \in 1..Len(in[y]) : in[x][k] = r[y][(Len(in[y]) - k) + 1]
      <4>1. Len(r[y]) = Len(in[y])  BY <1>4
      <4>2. r[x] = [k \in 1..Len(in[y]) |-> r[y][(Len(in[y]) - k) + 1]]  BY <2>2, <4>1 DEF Reverse
      <4> QED  BY <1>5, <1>7, <4>2
    <3> TAKE k \in 1..Len(in[y])
    <3>2. PICK m \in 1..Len(in[y]) : (Len(in[y]) - m) + 1 = k
      <4>1. (Len(in[y]) - k) + 1 \in 1..Len(in[y])  BY <1>5
      <4>2. (Len(in[y]) - ((Len(in[y]) - k) + 1)) + 1 = k  BY <1>5
      <4> QED  BY <4>1, <4>2
    <3>3. in[x][m] = r[y][k]  BY <3>1, <3>2
    <3> QED  BY <1>6, <3>1, <3>3
  <2> QED  BY <1>8, <2>1, <2>2 DEF IsEquivalent
<1>10. r[y] = in[y]
  <2>1. \A k \in 1..Len(in[y]) : r[y][k] = in[y][k]  BY <1>4, <1>9
  <2>2. Len(r[y]) = Len(in[y])  BY <1>4
  <2> QED  BY <1>5, <2>1, <2>2, SeqEqual
<1> QED  BY <1>3, <1>7, <1>8, <1>10 DEF IsEquivalent

\* The turn of a node that was replaced, or is a target.
LEMMA SkipTurn ==
  ASSUME NEW q, Lists(q, Node), NEW i \in 1..Len(q), NEW in, NEW P, Progress(q, in, P, i - 1),
         NEW a, a = q[i], a \in P \/ a \in ToSet(targets)
  PROVE  Progress(q, in, P \cup {a}, i)
<1>1. PICK R \in SUBSET Node : Removed(q, in, P, R, i - 1)  BY DEF Progress
<1>2. Len(q) \in Nat /\ a \in Node  BY ListFacts
<1>3. \A j \in 1..Len(q) : (j <= i <=> j <= i - 1 \/ j = i) /\ ~(i <= i - 1)  BY <1>2
<1>4. a \in R \cup ToSet(targets)
  <2>1. a \in P => a \in R  BY <1>1, <1>3 DEF Removed
  <2> QED  BY <2>1
<1>5. Removed(q, in, P \cup {a}, R, i)
  <2>1. /\ R \subseteq P /\ R \cap ToSet(targets) = {}
        /\ \A n \in Node : \A k \in 1..Len(in[n]) : in[n][k] \notin R
    BY <1>1 DEF Removed
  <2>2. ASSUME NEW j \in 1..Len(q)
        PROVE  IF j <= i THEN q[j] \in P \cup {a} ELSE q[j] \in P \cup {a} => q[j] \in R
    <3>1. IF j <= i - 1 THEN q[j] \in P ELSE q[j] \in P => q[j] \in R  BY <1>1 DEF Removed
    <3>2. q[j] = a => j = i  BY DEF Lists
    <3> QED  BY <1>3, <3>1, <3>2
  <2>3. ASSUME NEW j \in 1..Len(q), NEW l \in 1..Len(q), j <= i, j < l,
               {q[j], q[l]} \cap (R \cup ToSet(targets)) = {}
        PROVE  ~IsEquivalent(in, q[j], q[l])
    <3>1. j # i  BY <1>4, <2>3
    <3>2. j <= i - 1  BY <1>3, <2>3, <3>1
    <3> QED  BY <1>1, <2>3, <3>2 DEF Removed
  <2> QED  BY <2>1, <2>2, <2>3 DEF Removed
<1>6. Shape(in) /\ P \cup {a} \subseteq Node /\ Ordered(in, q) /\ (Undropped => Kept(in))
  BY <1>2 DEF Progress
<1> QED  BY <1>5, <1>6 DEF Progress

\* The turn of another node.
LEMMA ReplaceTurn ==
  ASSUME Made, NEW q, Lists(q, Node), NEW i \in 1..Len(q), NEW in, NEW P, Progress(q, in, P, i - 1),
         NEW a, a = q[i], a \notin P, a \notin ToSet(targets),
         NEW S, S = {b \in Node \ (P \cup ToSet(targets) \cup {a}) : IsEquivalent(in, a, b)},
         NEW r, r = Replaced(in, S, a)
  PROVE  Progress(q, r, P \cup {a} \cup S, i)
<1>1. PICK R \in SUBSET Node : Removed(q, in, P, R, i - 1)  BY DEF Progress
<1>2. Len(q) \in Nat /\ a \in Node /\ \A j \in 1..Len(q) : q[j] \in Node  BY ListFacts
<1>3. \A j \in 1..Len(q) : (j <= i <=> j <= i - 1 \/ j = i) /\ (j > i => ~(j <= i - 1))
                           /\ (i < j <=> ~(j <= i))  BY <1>2
<1>4. NodeTypes /\ Shape(in) /\ P \subseteq Node /\ Ordered(in, q) /\ S \subseteq Node
  BY DEF Progress, Made
<1>5. Shape(r) /\ Swapped(in, S, a, r)  BY <1>2, <1>4, ReplacedFacts
<1>6. \A b \in S : \A j \in 1..Len(q) : q[j] = b => i < j
  <2> SUFFICES ASSUME NEW b \in S, NEW j \in 1..Len(q), q[j] = b, ~(i < j) PROVE FALSE
    OBVIOUS
  <2>1. b \notin P /\ b # a  OBVIOUS
  <2>2. j # i  BY <2>1
  <2>3. j <= i - 1  BY <1>3, <2>2
  <2> QED  BY <1>1, <2>1, <2>3 DEF Removed
<1>7. Ordered(r, q)
  <2>1. Ordered(Replaced(in, S, q[i]), q)  BY <1>4, <1>6, ReplacedOrdered
  <2> QED  BY <2>1
<1>8. ASSUME Undropped PROVE Kept(r)
  <2>1. Kept(in)  BY <1>8 DEF Progress
  <2>2. \A b \in S : Meaning[a] = Meaning[b]
    <3> TAKE b \in S
    <3>1. b \in Node /\ IsEquivalent(in, a, b)  OBVIOUS
    <3> QED  BY <1>2, <1>4, <1>8, <2>1, <3>1, EquivalentMean
  <2>3. ASSUME NEW n \in Node, NEW k \in 1..Len(r[n])
        PROVE  Meaning[r[n][k]] = Meaning[original[n][k]]
    <3>1. k \in 1..Len(in[n]) /\ r[n][k] = IF in[n][k] \in S THEN a ELSE in[n][k]
      BY <1>5, <2>3 DEF Swapped
    <3>2. Meaning[in[n][k]] = Meaning[original[n][k]]  BY <2>1, <3>1 DEF Kept
    <3>3. CASE in[n][k] \in S
      <4>1. Meaning[a] = Meaning[in[n][k]]  BY <2>2, <3>3
      <4>2. r[n][k] = a  BY <3>1, <3>3
      <4> QED  BY <3>2, <4>1, <4>2
    <3>4. CASE in[n][k] \notin S
      <4>1. r[n][k] = in[n][k]  BY <3>1, <3>4
      <4> QED  BY <3>2, <4>1
    <3> QED  BY <3>3, <3>4
  <2> QED  BY <2>3 DEF Kept
<1>9. PICK U : U = R \cup S  OBVIOUS
<1>10. U \in SUBSET Node /\ U \subseteq P \cup {a} \cup S /\ U \cap ToSet(targets) = {}
  BY <1>1, <1>4, <1>9 DEF Removed
<1>11. a \notin U  BY <1>1, <1>9 DEF Removed
<1>12. ASSUME NEW n \in Node, NEW k \in 1..Len(r[n]) PROVE r[n][k] \notin U
  <2>1. k \in 1..Len(in[n]) /\ r[n][k] = IF in[n][k] \in S THEN a ELSE in[n][k]
    BY <1>5, <1>12 DEF Swapped
  <2>2. in[n][k] \notin R  BY <1>1, <2>1 DEF Removed
  <2> QED  BY <1>9, <1>11, <2>1, <2>2
<1>13. ASSUME NEW j \in 1..Len(q)
       PROVE  IF j <= i THEN q[j] \in P \cup {a} \cup S ELSE q[j] \in P \cup {a} \cup S => q[j] \in U
  <2>1. IF j <= i - 1 THEN q[j] \in P ELSE q[j] \in P => q[j] \in R  BY <1>1 DEF Removed
  <2>2. q[j] = a => j = i  BY DEF Lists
  <2> QED  BY <1>3, <1>9, <2>1, <2>2
<1>14. ASSUME NEW j \in 1..Len(q), NEW l \in 1..Len(q), j <= i, j < l,
              {q[j], q[l]} \cap (U \cup ToSet(targets)) = {}, IsEquivalent(r, q[j], q[l])
       PROVE  FALSE
  <2>1. IsEquivalent(in, q[j], q[l])
    <3>1. PICK y \in Node : y = q[l]  BY <1>2
    <3>2. IsEquivalent(Replaced(in, S, q[i]), q[j], y)  BY <1>14, <3>1
    <3>3. IsEquivalent(in, q[j], y)  BY <1>4, <1>6, <1>14, <3>2, StillDifferent
    <3> QED  BY <3>1, <3>3
  <2>2. CASE j <= i - 1
    <3>1. {q[j], q[l]} \cap (R \cup ToSet(targets)) = {}  BY <1>9, <1>14
    <3> QED  BY <1>1, <1>14, <2>1, <2>2, <3>1 DEF Removed
  <2>3. CASE j = i
    <3>1. q[l] \notin R /\ q[l] \notin S /\ q[l] \notin ToSet(targets) /\ q[l] \in Node
      BY <1>2, <1>9, <1>14
    <3>2. q[l] \notin P
      <4>1. ~(l <= i - 1)  BY <1>2, <1>14, <2>3
      <4>2. q[l] \in P => q[l] \in R  BY <1>1, <4>1 DEF Removed
      <4> QED  BY <3>1, <4>2
    <3>3. q[l] # a  BY <1>2, <1>14, <2>3 DEF Lists
    <3> QED  BY <2>1, <2>3, <3>1, <3>2, <3>3
  <2> QED  BY <1>3, <1>14, <2>2, <2>3
<1>15. Removed(q, r, P \cup {a} \cup S, U, i)  BY <1>10, <1>12, <1>13, <1>14 DEF Removed
<1>16. P \cup {a} \cup S \subseteq Node  BY <1>2, <1>4
<1> QED  BY <1>5, <1>7, <1>8, <1>10, <1>15, <1>16 DEF Progress

LEMMA OneTurn ==
  ASSUME Made, NEW q, Lists(q, Node), NEW i \in 1..Len(q), NEW st \in Pass,
         Progress(q, st.in, st.processed, i - 1), NEW u, u = Turn[q[i]][st]
  PROVE  u \in Pass /\ Progress(q, u.in, u.processed, i)
<1>1. PICK a \in Node : a = q[i]  BY ListFacts
<1>2. PICK in, P : st = [in |-> in, processed |-> P] /\ in = st.in /\ P = st.processed  BY DEF Pass
<1>3. CASE a \in P \/ a \in ToSet(targets)
  <2>1. u = [in |-> in, processed |-> P \cup {a}]  BY <1>1, <1>2, <1>3 DEF Turn
  <2>2. Progress(q, in, P, i - 1)  BY <1>2
  <2>3. Progress(q, in, P \cup {a}, i)  BY <1>1, <1>3, <2>2, SkipTurn
  <2>4. u.in = in /\ u.processed = P \cup {a}  BY <2>1
  <2>5. in \in [Node -> Seq(Node)] /\ P \cup {a} \subseteq Node  BY <2>3 DEF Progress, Shape
  <2>6. u \in Pass  BY <2>1, <2>5 DEF Pass
  <2> QED  BY <2>3, <2>4, <2>6
<1>4. CASE a \notin P /\ a \notin ToSet(targets)
  <2>1. PICK S : S = {b \in Node \ (P \cup ToSet(targets) \cup {a}) : IsEquivalent(in, a, b)}  OBVIOUS
  <2>2. PICK r : r = Replaced(in, S, a)  OBVIOUS
  <2>3. u = [in |-> r, processed |-> P \cup {a} \cup S]
    BY <1>1, <1>2, <1>4, <2>1, <2>2 DEF Turn, Replaced
  <2>4. Progress(q, in, P, i - 1) /\ a = q[i] /\ a \notin P /\ a \notin ToSet(targets)
    BY <1>1, <1>2, <1>4
  <2>5. Progress(q, r, P \cup {a} \cup S, i)  BY <2>1, <2>2, <2>4, ReplaceTurn, Zenon
  <2>6. u.in = r /\ u.processed = P \cup {a} \cup S  BY <2>3
  <2>7. r \in [Node -> Seq(Node)] /\ P \cup {a} \cup S \subseteq Node
    BY <2>5 DEF Progress, Shape
  <2>8. u \in Pass  BY <2>3, <2>7 DEF Pass
  <2> QED  BY <2>5, <2>6, <2>8
<1> QED  BY <1>3, <1>4

\* Nothing is left to replace: of two nodes that were not replaced and are no targets,
\* none is equivalent to the other.
NoneLeft(in) ==
  \E R \in SUBSET Node :
    /\ R \cap ToSet(targets) = {}
    /\ \A n \in Node : \A k \in 1..Len(in[n]) : in[n][k] \notin R
    /\ \A a, b \in Node \ (R \cup ToSet(targets)) : a # b => ~IsEquivalent(in, a, b)

\* The nodes have an order in which every node comes after its inputs.
Acyclic(in) == \E q : Lists(q, Node) /\ Ordered(in, q)

LEMMA Symmetric ==
  ASSUME NodeTypes, NEW in, Shape(in), NEW a \in Node, NEW b \in Node, IsEquivalent(in, a, b)
  PROVE  IsEquivalent(in, b, a)
<1>1. in[a] \in Seq(Node) /\ in[b] \in Seq(Node)  BY DEF Shape
<1>2. ASSUME in[a] = Reverse(in[b]) PROVE in[b] = Reverse(in[a])
  <2>1. Len(in[b]) \in Nat  BY <1>1
  <2>2. in[a] = [k \in 1..Len(in[b]) |-> in[b][(Len(in[b]) - k) + 1]]  BY <1>2 DEF Reverse
  <2>3. Len(in[a]) = Len(in[b])  BY <2>1, <2>2
  <2>4. PICK u : u = Reverse(in[a])  OBVIOUS
  <2>5. u = [k \in 1..Len(in[b]) |-> in[a][(Len(in[b]) - k) + 1]]  BY <2>3, <2>4 DEF Reverse
  <2>6. \A k \in 1..Len(in[b]) : u[k] = in[b][k]
    <3> TAKE k \in 1..Len(in[b])
    <3>1. (Len(in[b]) - k) + 1 \in 1..Len(in[b])  BY <2>1
    <3>2. u[k] = in[a][(Len(in[b]) - k) + 1]  BY <2>5
    <3>3. in[a][(Len(in[b]) - k) + 1] = in[b][(Len(in[b]) - ((Len(in[b]) - k) + 1)) + 1]
      BY <2>2, <3>1
    <3>4. (Len(in[b]) - ((Len(in[b]) - k) + 1)) + 1 = k  BY <2>1
    <3> QED  BY <3>2, <3>3, <3>4
  <2>7. u \in Seq(Node) /\ Len(u) = Len(in[b])
    <3>1. \A k \in 1..Len(in[b]) : u[k] \in Node  BY <1>1, <2>6, ElementOfSeq
    <3>2. u = [k \in 1..Len(in[b]) |-> u[k]]  BY <2>5
    <3> QED  BY <2>1, <3>1, <3>2
  <2> QED  BY <1>1, <2>4, <2>6, <2>7, SeqEqual
<1> QED  BY <1>2 DEF IsEquivalent

LEMMA CseFacts ==
  ASSUME Made, Shape(input), Down(input), input = original, NEW reversed \in BOOLEAN,
         NEW r, r = Along(Turn, [in |-> input, processed |-> {}], TopologicalSorted(reversed)).in
  PROVE  Shape(r) /\ Acyclic(r) /\ (Undropped => Kept(r)) /\ NoneLeft(r)
<1>1. PICK q : q = TopologicalSorted(reversed)  OBVIOUS
<1>2. Lists(q, Node) /\ Ordered(input, q)  BY <1>1, SortedFacts DEF Made
<1>3. q \in Seq(Node) /\ Len(q) \in Nat /\ \A i \in 1..Len(q) : q[i] \in Node
  BY <1>2, ListFacts
<1>4. PICK J : J = [i \in 0..Len(q) |-> {st \in Pass : Progress(q, st.in, st.processed, i)}]
  OBVIOUS
<1>5. PICK a : a = [in |-> input, processed |-> {}]  OBVIOUS
<1>6. a \in J[0]
  <2>1. a \in Pass /\ a.in = input /\ a.processed = {}  BY <1>5 DEF Pass, Shape
  <2>2. Removed(q, input, {}, {}, 0)  BY <1>3 DEF Removed
  <2>3. Kept(input)  BY DEF Kept
  <2>4. Progress(q, input, {}, 0)  BY <1>2, <2>2, <2>3 DEF Progress
  <2> QED  BY <1>3, <1>4, <2>1, <2>4
<1>7. \A i \in 1..Len(q) : \A x \in J[i - 1] : Turn[q[i]][x] \in J[i]
  <2> TAKE i \in 1..Len(q)
  <2> TAKE x \in J[i - 1]
  <2>1. i \in 0..Len(q) /\ i - 1 \in 0..Len(q)  BY <1>3
  <2>2. x \in Pass /\ Progress(q, x.in, x.processed, i - 1)  BY <1>4, <2>1
  <2>3. PICK u : u = Turn[q[i]][x]  OBVIOUS
  <2>4. u \in Pass /\ Progress(q, u.in, u.processed, i)  BY <1>2, <2>2, <2>3, OneTurn
  <2> QED  BY <1>4, <2>1, <2>3, <2>4
<1>8. PICK st : st = Along(Turn, a, q)  OBVIOUS
<1>9. st \in J[Len(q)]
  <2>1. PICK f : f = Turn  OBVIOUS
  <2>2. \A i \in 1..Len(q) : \A x \in J[i - 1] : f[q[i]][x] \in J[i]  BY <1>7, <2>1
  <2>3. Along(f, a, q) \in J[Len(q)]  BY <1>3, <1>6, <2>2, LoopRule
  <2> QED  BY <1>8, <2>1, <2>3
<1>10. Progress(q, st.in, st.processed, Len(q))  BY <1>3, <1>4, <1>9
<1>11. r = st.in  BY <1>1, <1>5, <1>8
<1>12. PICK P : P = st.processed  OBVIOUS
<1>13. Progress(q, r, P, Len(q))  BY <1>10, <1>11, <1>12
<1>14. Shape(r) /\ Ordered(r, q) /\ (Undropped => Kept(r))  BY <1>13 DEF Progress
<1>15. PICK R \in SUBSET Node : Removed(q, r, P, R, Len(q))  BY <1>13 DEF Progress
<1>16. \A x, y \in Node \ (R \cup ToSet(targets)) : x # y => ~IsEquivalent(r, x, y)
  <2> SUFFICES ASSUME NEW x \in Node, NEW y \in Node, {x, y} \cap (R \cup ToSet(targets)) = {},
                      x # y, IsEquivalent(r, x, y)
               PROVE  FALSE
    OBVIOUS
  <2>1. PICK j \in 1..Len(q) : q[j] = x  BY <1>2 DEF Lists
  <2>2. PICK l \in 1..Len(q) : q[l] = y  BY <1>2 DEF Lists
  <2>3. j <= Len(q) /\ l <= Len(q) /\ (j < l \/ l < j \/ j = l)  BY <1>3
  <2>4. j # l  BY <2>1, <2>2
  <2>5. CASE j < l  BY <1>15, <2>1, <2>2, <2>3, <2>5 DEF Removed
  <2>6. CASE l < j
    <3>1. IsEquivalent(r, y, x)  BY <1>14, Symmetric DEF Made
    <3>2. {q[l], q[j]} \cap (R \cup ToSet(targets)) = {}  BY <2>1, <2>2
    <3> QED  BY <1>15, <2>1, <2>2, <2>3, <2>6, <3>1, <3>2 DEF Removed
  <2> QED  BY <2>3, <2>4, <2>5, <2>6
<1>17. NoneLeft(r)
  <2>1. R \cap ToSet(targets) = {} /\ \A n \in Node : \A k \in 1..Len(r[n]) : r[n][k] \notin R
    BY <1>15 DEF Removed
  <2> QED  BY <1>16, <2>1 DEF NoneLeft
<1> QED  BY <1>2, <1>14, <1>17 DEF Acyclic

-----------------------------------------------------------------------------
(* Simplification. *)

\* The graph is made over nodes that were there; the pass keeps the meanings and the order.
GraphInv ==
  /\ type \in Seq(Kind) /\ Shape(input) /\ Acyclic(input)
  /\ stage = "build" => Down(input)
  /\ stage # "build" => Shape(original) /\ Down(original) /\ targets \in Seq(Node)
  /\ stage = "item" => input = original
  /\ stage = "simplified" => (Undropped => Kept(input)) /\ NoneLeft(input)

LEMMA InvTypes ==
  ASSUME GraphConstants, type \in Seq(Kind)
  PROVE  NodeTypes
<1>1. PICK S : S = {"variable", "constant", "random", "dropout", "fun", "add"}  OBVIOUS
<1>2. Kind \subseteq S  BY <1>1 DEF GraphConstants
<1>3. type \in Seq(S)  BY <1>2
<1> QED  BY <1>1, <1>3 DEF NodeTypes

\* A graph that is made over nodes that were there is in the order of its numbers.
LEMMA DownAcyclic ==
  ASSUME NodeTypes, NEW in, Shape(in), Down(in)
  PROVE  Acyclic(in)
<1>1. PICK q : q = Numbers  OBVIOUS
<1>2. /\ q \in Seq(Node) /\ Len(q) \in Nat /\ Node = 1..Len(q) /\ Node \subseteq Nat
      /\ \A i \in Node : q[i] = i
  BY <1>1, NodeFacts
<1>3. Lists(q, Node)  BY <1>2 DEF Lists
<1>4. Ordered(in, q)
  <2> SUFFICES ASSUME NEW i \in 1..Len(q), NEW k \in 1..Len(in[q[i]])
               PROVE  \E j \in 1..(i - 1) : q[j] = in[q[i]][k]
    BY DEF Ordered
  <2>1. i \in Node /\ q[i] = i  BY <1>2
  <2>2. in[i] \in Seq(Node)  BY <2>1 DEF Shape
  <2>3. in[i][k] \in Node /\ in[i][k] < i  BY <2>1, <2>2, ElementOfSeq DEF Down
  <2>4. PICK x \in Node : x = in[i][k]  BY <2>3
  <2>5. x < i /\ i \in Nat /\ x \in 1..Len(q) /\ q[x] = x  BY <1>2, <2>1, <2>3, <2>4
  <2>6. x \in 1..(i - 1)  BY <2>5
  <2> QED  BY <2>1, <2>4, <2>5, <2>6
<1> QED  BY <1>3, <1>4 DEF Acyclic

LEMMA MadeAcyclic == NodeTypes /\ Shape(input) /\ Down(input) => Acyclic(input)
BY DownAcyclic

\* A new node over nodes that are there.
LEMMA Grown ==
  ASSUME NodeTypes, Shape(input), Down(input), NEW k, k \in {"variable", "constant", "random", "dropout", "fun", "add"},
         NEW in \in [1..Arity(k) -> Node], type' = Append(type, k), input' = Append(input, in)
  PROVE  (NodeTypes /\ Shape(input) /\ Down(input))'
<1>1. PICK N \in Nat : N = Len(type) /\ Node = 1..N  BY NodeFacts
<1>2. NodeTypes'  BY DEF NodeTypes
<1>3. Node' = 1..(N + 1)  BY <1>1 DEF NodeTypes, Node
<1>4. input \in Seq(Seq(Node)) /\ Len(input) = N  BY <1>1 DEF Shape
<1>5. Arity(k) \in Nat  BY DEF Arity
<1>6. in \in Seq(Node) /\ Len(in) = Arity(k) /\ \A j \in 1..Arity(k) : in[j] \in 1..N
  <2>1. PICK A \in Nat : A = Arity(k)  BY <1>5
  <2>2. in \in [1..A -> Node]  BY <2>1
  <2>3. in \in Seq(Node) /\ Len(in) = A /\ \A j \in 1..A : in[j] \in Node  BY <2>1, <2>2
  <2> QED  BY <1>1, <2>1, <2>3
<1>7. in \in Seq(1..(N + 1))
  <2>1. \A j \in 1..Arity(k) : in[j] \in 1..(N + 1)  BY <1>1, <1>6
  <2> QED  BY <1>5, <1>6, <2>1
<1>8. \A n \in 1..N : input[n] \in Seq(1..(N + 1))
  <2> TAKE n \in 1..N
  <2>1. input[n] \in Seq(1..N)  BY <1>1 DEF Shape
  <2>2. 1..N \subseteq 1..(N + 1)  BY <1>1
  <2> QED  BY <2>1, <2>2
<1>9. /\ input' \in [1..(N + 1) -> Seq(1..(N + 1))] /\ input'[N + 1] = in
      /\ \A n \in 1..N : input'[n] = input[n]
  <2>1. PICK T : T = Seq(1..(N + 1))  OBVIOUS
  <2>2. PICK s : s = input  OBVIOUS
  <2>3. s \in Seq(T) /\ Len(s) = N
    <3>1. \A n \in 1..N : s[n] \in T  BY <1>8, <2>1, <2>2
    <3>2. s = [n \in 1..N |-> s[n]]  BY <1>1, <2>2 DEF Shape
    <3> QED  BY <1>1, <3>1, <3>2
  <2>4. PICK u : u = Append(s, in)  OBVIOUS
  <2>5. in \in T  BY <1>7, <2>1
  <2>6. u \in Seq(T) /\ Len(u) = N + 1 /\ u[N + 1] = in /\ \A n \in 1..N : u[n] = s[n]
    BY <2>3, <2>4, <2>5
  <2>7. u \in [1..(N + 1) -> T]  BY <2>6
  <2> QED  BY <2>1, <2>2, <2>4, <2>6, <2>7
<1>10. type'[N + 1] = k /\ \A n \in 1..N : type'[n] = type[n]  BY <1>1 DEF NodeTypes
<1>11. \A n \in 1..(N + 1) : n = N + 1 \/ n \in 1..N  BY <1>1
<1>12. \A n \in 1..(N + 1) : Len(input'[n]) = Arity(type'[n])
  <2>1. \A n \in 1..N : Len(input[n]) = Arity(type[n])  BY <1>1 DEF Shape
  <2> QED  BY <1>6, <1>9, <1>10, <1>11, <2>1
<1>13. Shape(input)'  BY <1>3, <1>9, <1>12 DEF Shape
<1>14. \A n \in 1..(N + 1) : \A j \in 1..Len(input'[n]) : input'[n][j] < n
  <2> TAKE n \in 1..(N + 1)
  <2>1. CASE n = N + 1  BY <1>1, <1>6, <1>9, <2>1
  <2>2. CASE n # N + 1
    <3>1. n \in Node /\ input'[n] = input[n]  BY <1>1, <1>9, <1>11, <2>2
    <3> QED  BY <3>1 DEF Down
  <2> QED  BY <2>1, <2>2
<1>15. Down(input)'  BY <1>3, <1>14 DEF Down
<1> QED  BY <1>2, <1>13, <1>15

\* What is said of the inputs after a step of which the types are those before it.
LEMMA Steady ==
  ASSUME type' = type, NEW r, r = input'
  PROVE  (Shape(input)' <=> Shape(r)) /\ (Acyclic(input)' <=> Acyclic(r)) /\ (Down(input)' <=> Down(r))
<1>1. Shape(input)' <=> Shape(r)  BY DEF Shape, Node
<1>2. Acyclic(input)' <=> Acyclic(r)  BY DEF Acyclic, Lists, Ordered, Node
<1>3. Down(input)' <=> Down(r)  BY DEF Down, Node
<1> QED  BY <1>1, <1>2, <1>3

LEMMA SteadyMeaning ==
  ASSUME type' = type, targets' = targets, original' = original, NEW r, r = input'
  PROVE  (Kept(input)' <=> Kept(r)) /\ (NoneLeft(input)' <=> NoneLeft(r)) /\ (Undropped' <=> Undropped)
<1>1. Meaning' = Meaning  BY DEF Meaning, Along, Named, Args, Node, Numbers
<1>2. Kept(input)' <=> Kept(r)  BY <1>1 DEF Kept, Node
<1>3. NoneLeft(input)' <=> NoneLeft(r)  BY DEF NoneLeft, IsEquivalent, Node
<1>4. Undropped' <=> Undropped  BY DEF Undropped, Node
<1> QED  BY <1>2, <1>3, <1>4

LEMMA GraphInvInit ==
  ASSUME GraphConstants, GraphInit
  PROVE  GraphInv
<1>1. type \in Seq(Kind) /\ Node = {} /\ input = <<>> /\ stage = "build"  BY DEF GraphInit, Node
<1>2. NodeTypes  BY <1>1, InvTypes
<1>3. Shape(input)  BY <1>1 DEF Shape
<1>4. Down(input)  BY <1>1 DEF Down
<1>5. Acyclic(input)  BY <1>2, <1>3, <1>4, DownAcyclic
<1> QED  BY <1>1, <1>3, <1>4, <1>5 DEF GraphInv

\* The steps that leave the graph alone.
LEMMA GraphInvKept ==
  ASSUME GraphInv, UNCHANGED <<type, input, targets, original>>,
         stage' = stage \/ (stage # "build" /\ stage' \notin {"build", "item", "simplified"})
  PROVE  GraphInv'
<1>1. PICK r : r = input  OBVIOUS
<1>2. r = input'  BY <1>1
<1>3. (Shape(input)' <=> Shape(r)) /\ (Acyclic(input)' <=> Acyclic(r)) /\ (Down(input)' <=> Down(r))
  BY <1>2, Steady
<1>4. (Kept(input)' <=> Kept(r)) /\ (NoneLeft(input)' <=> NoneLeft(r)) /\ (Undropped' <=> Undropped)
  BY <1>2, SteadyMeaning
<1>5. (Shape(original)' <=> Shape(original)) /\ (Down(original)' <=> Down(original))
  BY DEF Shape, Down, Node
<1>6. targets \in Seq(Node) => targets' \in Seq(Node')  BY DEF Node
<1>7. type' = type /\ (input' = original' <=> input = original)  OBVIOUS
<1> QED  BY <1>1, <1>3, <1>4, <1>5, <1>6, <1>7 DEF GraphInv

LEMMA GraphInvStep ==
  ASSUME GraphConstants, GraphInv, [GraphNext]_graphVars
  PROVE  GraphInv'
<1>1. NodeTypes  BY InvTypes DEF GraphInv
<1>2. CASE Create
  <2>0. PICK k \in Kind : \E in \in [1..Arity(k) -> Node] :
          type' = Append(type, k) /\ input' = Append(input, in)
    BY <1>2 DEF Create
  <2>1. PICK in \in [1..Arity(k) -> Node] : type' = Append(type, k) /\ input' = Append(input, in)
    BY <2>0
  <2>2. k \in {"variable", "constant", "random", "dropout", "fun", "add"}  BY DEF GraphConstants
  <2>3. Shape(input) /\ Down(input) /\ stage = "build" /\ stage' = "build"
    BY <1>2 DEF GraphInv, Create
  <2>4. (NodeTypes /\ Shape(input) /\ Down(input))'  BY <1>1, <2>1, <2>2, <2>3, Grown
  <2>5. Acyclic(input)'
    <3>1. (NodeTypes /\ Shape(input) /\ Down(input) => Acyclic(input))'  BY MadeAcyclic, PTL
    <3> QED  BY <2>4, <3>1
  <2>6. type' \in Seq(Kind)  BY <2>1 DEF GraphInv
  <2> QED  BY <2>3, <2>4, <2>5, <2>6 DEF GraphInv
<1>3. CASE FromGraph
  <2>1. PICK ts \in {<<Len(type)>>} \cup {<<n, Len(type)>> : n \in Node \ {Len(type)}} :
          targets' = ts
    BY <1>3 DEF FromGraph
  <2>2. /\ stage = "build" /\ Node # {} /\ stage' = "item"
        /\ original' = input /\ type' = type /\ input' = input
    BY <1>3 DEF FromGraph
  <2>3. Len(type) \in Node  BY <1>1, <2>2, NodeFacts
  <2>4. ts \in Seq(Node)
    <3>1. ts = <<Len(type)>> \/ \E n \in Node : ts = <<n, Len(type)>>  BY <2>1
    <3>2. <<Len(type)>> \in Seq(Node) /\ \A n \in Node : <<n, Len(type)>> \in Seq(Node)  BY <2>3
    <3> QED  BY <3>1, <3>2
  <2>5. targets' \in Seq(Node')  BY <2>1, <2>2, <2>4 DEF Node
  <2>6. Shape(input) /\ Down(input) /\ Acyclic(input) /\ type \in Seq(Kind)  BY <2>2 DEF GraphInv
  <2>7. Shape(input)' /\ Acyclic(input)'  BY <2>2, <2>6, Steady
  <2>8. Shape(original)' /\ Down(original)'  BY <2>2, <2>6 DEF Shape, Down, Node
  <2> QED  BY <2>2, <2>5, <2>6, <2>7, <2>8 DEF GraphInv
<1>4. ASSUME NEW reversed \in BOOLEAN, Cse(reversed) PROVE GraphInv'
  <2>1. PICK r : r = input'  OBVIOUS
  <2>2. /\ stage = "item" /\ stage' = "simplified"
        /\ type' = type /\ targets' = targets /\ original' = original
        /\ r = Along(Turn, [in |-> input, processed |-> {}], TopologicalSorted(reversed)).in
    BY <1>4, <2>1 DEF Cse
  <2>3. /\ Shape(input) /\ input = original /\ Shape(original) /\ Down(original)
        /\ type \in Seq(Kind) /\ targets \in Seq(Node)
    BY <2>2 DEF GraphInv
  <2>4. Made /\ Down(input)  BY <1>1, <2>3 DEF Made
  <2>5. Shape(r) /\ Acyclic(r) /\ (Undropped => Kept(r)) /\ NoneLeft(r)
    BY <2>2, <2>3, <2>4, CseFacts
  <2>6. Shape(input)' /\ Acyclic(input)'  BY <2>1, <2>2, <2>5, Steady
  <2>7. (Undropped => Kept(input))' /\ NoneLeft(input)'  BY <2>1, <2>2, <2>5, SteadyMeaning
  <2>8. Shape(original)' /\ Down(original)'  BY <2>2, <2>3 DEF Shape, Down, Node
  <2>9. targets' \in Seq(Node')  BY <2>2, <2>3 DEF Node
  <2> QED  BY <2>2, <2>3, <2>6, <2>7, <2>8, <2>9 DEF GraphInv
<1>5. CASE Compile
  <2>1. UNCHANGED <<type, input, targets, original>> /\ stage # "build" /\ stage' = "compiled"
    BY <1>5 DEF Compile
  <2> QED  BY <2>1, GraphInvKept
<1>6. ASSUME NEW loss_index \in {-1, 0}, InitOp(loss_index) PROVE GraphInv'
  <2>1. /\ UNCHANGED <<type, input, targets, original>> /\ stage # "build"
        /\ stage' \notin {"build", "item", "simplified"}
    BY <1>6 DEF InitOp
  <2> QED  BY <2>1, GraphInvKept
<1>7. CASE UNCHANGED graphVars  BY <1>7, GraphInvKept DEF graphVars
<1> QED  BY <1>2, <1>3, <1>4, <1>5, <1>6, <1>7 DEF GraphNext

\* What every reachable graph satisfies.
THEOREM GraphIsMade ==
  ASSUME GraphConstants
  PROVE  GraphSpec => []GraphInv
<1>1. GraphInit => GraphInv  BY GraphInvInit
<1>2. GraphInv /\ [GraphNext]_graphVars => GraphInv'  BY GraphInvStep
<1> QED  BY <1>1, <1>2, PTL DEF GraphSpec

\* What the targets need was not replaced.
LEMMA AliveNotReplaced ==
  ASSUME NodeTypes, Shape(input), targets \in Seq(Node), NEW R \in SUBSET Node, R \cap ToSet(targets) = {},
         \A n \in Node : \A k \in 1..Len(input[n]) : input[n][k] \notin R
  PROVE  Alive \subseteq Node \ R
<1>1. PICK C : C = Node \ R  OBVIOUS
<1>2. Closed(input, C)
  <2> SUFFICES ASSUME NEW n \in C, NEW k \in 1..Len(input[n]) PROVE input[n][k] \in C
    BY DEF Closed
  <2>1. n \in Node  BY <1>1
  <2>2. input[n] \in Seq(Node)  BY <2>1 DEF Shape
  <2>3. input[n][k] \in Node  BY <2>2, ElementOfSeq
  <2> QED  BY <1>1, <2>1, <2>3
<1>3. ToSet(targets) \subseteq C  BY <1>1, SetOf
<1>4. C \subseteq Node /\ input \in [Node -> Seq(Node)]  BY <1>1 DEF Shape
<1>5. Below(input, ToSet(targets)) \subseteq C  BY <1>2, <1>3, <1>4, BelowLeast
<1> QED  BY <1>1, <1>5 DEF Alive

\* Simplifying a graph without dropout changes no result: every node that is left gets inputs
\* that compute what its own inputs computed.
THEOREM SimplifiedMeansTheSame ==
  ASSUME GraphConstants, "dropout" \notin Kind
  PROVE  GraphSpec => []TargetsKeepMeaning
<1>1. ASSUME GraphInv PROVE TargetsKeepMeaning
  <2> SUFFICES ASSUME stage = "simplified", NEW n \in Alive, NEW k \in DOMAIN input[n]
               PROVE  Meaning[input[n][k]] = Meaning[original[n][k]]
    BY DEF TargetsKeepMeaning
  <2>1. NodeTypes /\ Shape(input) /\ targets \in Seq(Node) /\ type \in Seq(Kind)
    BY <1>1, InvTypes DEF GraphInv
  <2>2. Undropped
    <3> SUFFICES ASSUME NEW m \in Node PROVE type[m] # "dropout"  BY DEF Undropped
    <3>1. m \in 1..Len(type)  BY <2>1 DEF Node
    <3>2. type[m] \in Kind  BY <2>1, <3>1, ElementOfSeq
    <3> QED  BY <3>2
  <2>3. Kept(input)  BY <1>1, <2>2 DEF GraphInv
  <2>4. n \in Node
    <3>1. input \in [Node -> Seq(Node)] /\ ToSet(targets) \subseteq Node  BY <2>1, SetOf DEF Shape
    <3>2. Below(input, ToSet(targets)) \subseteq Node  BY <2>1, <3>1, BelowIn
    <3> QED  BY <3>2 DEF Alive
  <2>5. input[n] \in Seq(Node)  BY <2>1, <2>4 DEF Shape
  <2>6. k \in 1..Len(input[n])  BY <2>5
  <2> QED  BY <2>3, <2>4, <2>6 DEF Kept
<1>2. GraphInv => TargetsKeepMeaning  BY <1>1
<1>3. GraphSpec => []GraphInv  BY GraphIsMade
<1> QED  BY <1>2, <1>3, PTL

\* One pass finds everything: no node that is left and is no target could be replaced by another.
THEOREM NothingLeftToReplace ==
  ASSUME GraphConstants
  PROVE  GraphSpec => []OnePassIsEnough
<1>1. ASSUME GraphInv PROVE OnePassIsEnough
  <2> SUFFICES ASSUME stage = "simplified", NEW a \in Alive \ ToSet(targets),
                      NEW b \in Alive \ ToSet(targets), a # b
               PROVE  ~IsEquivalent(input, a, b)
    BY DEF OnePassIsEnough
  <2>1. NodeTypes /\ Shape(input) /\ targets \in Seq(Node)  BY <1>1, InvTypes DEF GraphInv
  <2>2. PICK R \in SUBSET Node :
          /\ R \cap ToSet(targets) = {}
          /\ \A n \in Node : \A k \in 1..Len(input[n]) : input[n][k] \notin R
          /\ \A x, y \in Node \ (R \cup ToSet(targets)) : x # y => ~IsEquivalent(input, x, y)
    BY <1>1 DEF GraphInv, NoneLeft
  <2>3. Alive \subseteq Node \ R  BY <2>1, <2>2, AliveNotReplaced
  <2> QED  BY <2>2, <2>3
<1>2. GraphInv => OnePassIsEnough  BY <1>1
<1>3. GraphSpec => []GraphInv  BY GraphIsMade
<1> QED  BY <1>2, <1>3, PTL

-----------------------------------------------------------------------------
(* What is below a node. *)

\* Of the nodes in X, those after the first l of the list q have their inputs in X.
Reached(in, q, X, l) ==
  \A i \in 1..Len(q) : i > l /\ q[i] \in X => \A k \in 1..Len(in[q[i]]) : in[q[i]][k] \in X

\* All that is below S is reached.
LEMMA BelowClosed ==
  ASSUME NodeTypes, NEW in, Shape(in), Acyclic(in), NEW S, S \subseteq Node
  PROVE  S \subseteq Below(in, S) /\ Below(in, S) \subseteq Node /\ Closed(in, Below(in, S))
<1>1. PICK q : Lists(q, Node) /\ Ordered(in, q)  BY DEF Acyclic
<1>2. q \in Seq(Node) /\ Len(q) \in Nat /\ \A i \in 1..Len(q) : q[i] \in Node  BY <1>1, ListFacts
<1>3. PICK N \in Nat : N = Len(Numbers) /\ \A i \in 1..N : i \in Node /\ Numbers[i] = i
  BY NodeFacts
<1>4. Len(q) <= N
  <2>1. Distinct(q)  BY <1>1 DEF Lists, Distinct
  <2> QED  BY <1>2, <1>3, <2>1, NoLonger, NodeFacts
<1>5. PICK f : f = [i \in Node |-> [X \in SUBSET Node |-> X \cup UNION {ToSet(in[n]) : n \in X}]]
  OBVIOUS
<1>6. PICK J : J = [i \in 0..N |-> {X \in SUBSET Node : S \subseteq X /\ Reached(in, q, X, N - i)}]
  OBVIOUS
<1>7. S \in J[0]
  <2>1. Reached(in, q, S, N - 0)  BY <1>2, <1>3, <1>4 DEF Reached
  <2> QED  BY <1>6, <2>1
<1>8. \A i \in 1..Len(Numbers) : \A X \in J[i - 1] : f[Numbers[i]][X] \in J[i]
  <2> SUFFICES ASSUME NEW i \in 1..N, NEW X \in J[i - 1] PROVE f[i][X] \in J[i]
    BY <1>3
  <2>1. i \in Node /\ i \in 0..N /\ i - 1 \in 0..N  BY <1>3
  <2>2. X \in SUBSET Node /\ S \subseteq X /\ Reached(in, q, X, N - (i - 1))  BY <1>6, <2>1
  <2>3. PICK Y : Y = X \cup UNION {ToSet(in[n]) : n \in X}  OBVIOUS
  <2>4. f[i][X] = Y  BY <1>5, <2>1, <2>2, <2>3
  <2>5. \A n \in X : /\ ToSet(in[n]) \subseteq Node
                     /\ \A x : x \in ToSet(in[n]) <=> \E k \in 1..Len(in[n]) : in[n][k] = x
    <3> TAKE n \in X
    <3>1. in[n] \in Seq(Node)  BY <2>2 DEF Shape
    <3> QED  BY <3>1, SetOf
  <2>6. Y \subseteq Node /\ S \subseteq Y  BY <2>2, <2>3, <2>5
  <2>7. \A n \in X : \A k \in 1..Len(in[n]) : in[n][k] \in Y  BY <2>3, <2>5
  <2>8. ASSUME NEW j \in 1..Len(q), j > N - i, q[j] \in Y, q[j] \notin X PROVE FALSE
    <3>1. PICK n \in X : q[j] \in ToSet(in[n])  BY <2>3, <2>8
    <3>2. PICK k \in 1..Len(in[n]) : in[n][k] = q[j]  BY <2>5, <3>1
    <3>3. PICK l \in 1..Len(q) : q[l] = n  BY <1>1, <2>2 DEF Lists
    <3>4. ~(l > N - (i - 1))  BY <2>2, <2>8, <3>2, <3>3 DEF Reached
    <3>5. PICK p \in 1..(l - 1) : q[p] = in[q[l]][k]  BY <1>1, <3>2, <3>3 DEF Ordered
    <3>6. p \in 1..Len(q) /\ q[p] = q[j] /\ p < l  BY <1>2, <3>2, <3>3, <3>5
    <3>7. p = j  BY <1>1, <3>6 DEF Lists
    <3> QED  BY <1>2, <1>3, <2>8, <3>4, <3>6, <3>7
  <2>9. Reached(in, q, Y, N - i)  BY <2>7, <2>8 DEF Reached
  <2> QED  BY <1>6, <2>1, <2>4, <2>6, <2>9
<1>9. PICK X : X = Along(f, S, Numbers)  OBVIOUS
<1>10. X \in J[N]  BY <1>3, <1>7, <1>8, <1>9, LoopRule
<1>11. X \in SUBSET Node /\ S \subseteq X /\ Reached(in, q, X, N - N)  BY <1>3, <1>6, <1>10
<1>12. Closed(in, X)
  <2> SUFFICES ASSUME NEW n \in X, NEW k \in 1..Len(in[n]) PROVE in[n][k] \in X  BY DEF Closed
  <2>1. PICK i \in 1..Len(q) : q[i] = n  BY <1>1, <1>11 DEF Lists
  <2>2. i > N - N  BY <1>3
  <2> QED  BY <1>11, <2>1, <2>2 DEF Reached
<1>13. Below(in, S) = X  BY <1>5, <1>9 DEF Below
<1> QED  BY <1>11, <1>12, <1>13

\* A list in order has all that is below its nodes.
LEMMA OrderedClosed ==
  ASSUME NEW in, NEW s \in Seq(Node), Ordered(in, s)
  PROVE  Closed(in, ToSet(s))
<1> SUFFICES ASSUME NEW n \in ToSet(s), NEW k \in 1..Len(in[n]) PROVE in[n][k] \in ToSet(s)
  BY DEF Closed
<1>1. PICK i \in 1..Len(s) : s[i] = n  BY SetOf
<1>2. PICK j \in 1..(i - 1) : s[j] = in[n][k]  BY <1>1 DEF Ordered
<1>3. j \in 1..Len(s)  BY <1>1
<1> QED  BY <1>2, <1>3, SetOf

-----------------------------------------------------------------------------
(* The lists that Compile makes. *)

Good(in, s) == s \in Seq(Node) /\ Distinct(s) /\ Ordered(in, s)

\* S has the inputs of m.
Has(in, m, S) == \A k \in 1..Len(in[m]) : in[m][k] \in S

\* u has the nodes of s, and m.
Plus(u, s, m) == ToSet(u) = ToSet(s) \cup {m}

LEMMA AppendGood ==
  ASSUME NEW in, NEW s, Good(in, s), NEW m \in Node, m \notin ToSet(s), Has(in, m, ToSet(s)),
         NEW u, u = Append(s, m)
  PROVE  Good(in, u) /\ Plus(u, s, m)
<1>1. s \in Seq(Node) /\ Distinct(s) /\ Ordered(in, s)  BY DEF Good
<1>2. PICK l \in Nat : l = Len(s)  BY <1>1
<1>3. u \in Seq(Node) /\ Len(u) = l + 1 /\ u[l + 1] = m /\ \A i \in 1..l : u[i] = s[i]
  BY <1>1, <1>2
<1>4. \A x : x \in ToSet(s) <=> \E i \in 1..l : s[i] = x  BY <1>1, <1>2, SetOf
<1>5. \A x : x \in ToSet(u) <=> \E i \in 1..(l + 1) : u[i] = x  BY <1>3, SetOf
<1>6. \A i \in 1..(l + 1) : i \in 1..l \/ i = l + 1  BY <1>2
<1>7. l + 1 \in 1..(l + 1) /\ \A i \in 1..l : i \in 1..(l + 1)  BY <1>2
<1>8. ToSet(u) = ToSet(s) \cup {m}
  <2>1. ASSUME NEW x \in ToSet(u) PROVE x \in ToSet(s) \cup {m}
    <3>1. PICK i \in 1..(l + 1) : u[i] = x  BY <1>5, <2>1
    <3> QED  BY <1>3, <1>4, <1>6, <3>1
  <2>2. ASSUME NEW x \in ToSet(s) PROVE x \in ToSet(u)
    <3>1. PICK i \in 1..l : s[i] = x  BY <1>4, <2>2
    <3> QED  BY <1>3, <1>5, <1>7, <3>1
  <2>3. m \in ToSet(u)  BY <1>3, <1>5, <1>7
  <2> QED  BY <2>1, <2>2, <2>3
<1>9. Distinct(u)
  <2> SUFFICES ASSUME NEW i \in 1..(l + 1), NEW j \in 1..(l + 1), u[i] = u[j] PROVE i = j
    BY <1>3 DEF Distinct
  <2>1. \A p \in 1..l : u[p] # m  BY <1>3, <1>4
  <2>2. CASE i \in 1..l /\ j \in 1..l  BY <1>1, <1>2, <1>3, <2>2 DEF Distinct
  <2>3. CASE i = l + 1 \/ j = l + 1  BY <1>3, <1>6, <2>1, <2>3
  <2> QED  BY <1>6, <2>2, <2>3
<1>10. Ordered(in, u)
  <2> SUFFICES ASSUME NEW i \in 1..(l + 1), NEW k \in 1..Len(in[u[i]])
               PROVE  \E j \in 1..(i - 1) : u[j] = in[u[i]][k]
    BY <1>3 DEF Ordered
  <2>1. CASE i \in 1..l
    <3>1. u[i] = s[i]  BY <1>3, <2>1
    <3>2. PICK j \in 1..(i - 1) : s[j] = in[s[i]][k]  BY <1>1, <1>2, <2>1, <3>1 DEF Ordered
    <3>3. j \in 1..l  BY <1>2, <2>1
    <3> QED  BY <1>3, <3>1, <3>2, <3>3
  <2>2. CASE i = l + 1
    <3>1. u[i] = m  BY <1>3, <2>2
    <3>2. PICK j \in 1..l : s[j] = in[m][k]  BY <1>4, <3>1 DEF Has
    <3>3. j \in 1..(i - 1) /\ u[j] = s[j]  BY <1>2, <1>3, <2>2
    <3> QED  BY <3>1, <3>2, <3>3
  <2> QED  BY <1>6, <2>1, <2>2
<1> QED  BY <1>3, <1>8, <1>9, <1>10 DEF Good, Plus

\* v visits the first d nodes of q well: after its inputs, each node once, nothing else.
Extends(in, seq, s, m) ==
  /\ Good(in, s) /\ ToSet(seq) \subseteq ToSet(s) /\ m \in ToSet(s)
  /\ \A C \in SUBSET Node : Closed(in, C) /\ m \in C => ToSet(s) \subseteq ToSet(seq) \cup C

Visits(in, q, v, d) ==
  \A i \in 1..Len(q) : i <= d =>
    \A seq \in Seq(Node) : Good(in, seq) => Extends(in, seq, v[q[i]][seq], q[i])

\* Visiting the inputs of a node.
ExtendsBy(in, seq, s, m, j) ==
  /\ Good(in, s) /\ ToSet(seq) \subseteq ToSet(s) /\ \A k \in 1..j : in[m][k] \in ToSet(s)
  /\ \A C \in SUBSET Node :
       Closed(in, C) /\ (\A k \in 1..Len(in[m]) : in[m][k] \in C) => ToSet(s) \subseteq ToSet(seq) \cup C

LEMMA InputsVisited ==
  ASSUME NEW in, Shape(in), NEW q, Lists(q, Node), Ordered(in, q), NEW d \in Nat \ {0}, NEW v,
         Visits(in, q, v, d - 1), NEW i \in 1..Len(q), i <= d, NEW seq \in Seq(Node), Good(in, seq)
  PROVE  ExtendsBy(in, seq, Along(v, seq, in[q[i]]), q[i], Len(in[q[i]]))
<1>1. Len(q) \in Nat /\ \A j \in 1..Len(q) : q[j] \in Node  BY ListFacts
<1>2. PICK m \in Node : m = q[i]  BY <1>1
<1>3. PICK a \in Seq(Node) : a = in[m]  BY DEF Shape
<1>4. PICK J : J = [j \in 0..Len(a) |-> {s \in Seq(Node) : ExtendsBy(in, seq, s, m, j)}]  OBVIOUS
<1>5. Len(a) \in Nat  BY <1>3
<1>6. seq \in J[0]
  <2>1. ExtendsBy(in, seq, seq, m, 0)  BY DEF ExtendsBy
  <2> QED  BY <1>4, <1>5, <2>1
<1>7. \A j \in 1..Len(a) : \A s \in J[j - 1] : v[a[j]][s] \in J[j]
  <2> TAKE j \in 1..Len(a)
  <2> TAKE s \in J[j - 1]
  <2>1. j \in 0..Len(a) /\ j - 1 \in 0..Len(a)  BY <1>5
  <2>2. s \in Seq(Node) /\ ExtendsBy(in, seq, s, m, j - 1)  BY <1>4, <2>1
  <2>3. PICK p \in 1..(i - 1) : q[p] = a[j]  BY <1>2, <1>3 DEF Ordered
  <2>4. p \in 1..Len(q) /\ p <= d - 1  BY <1>1, <2>3
  <2>5. PICK u : u = v[a[j]][s]  OBVIOUS
  <2>6. Good(in, s) /\ ToSet(seq) \subseteq ToSet(s)  BY <2>2 DEF ExtendsBy
  <2>7. Extends(in, s, u, a[j])
    <3>1. Extends(in, s, v[q[p]][s], q[p])  BY <2>2, <2>4, <2>6 DEF Visits
    <3> QED  BY <2>3, <2>5, <3>1
  <2>8. Good(in, u) /\ ToSet(s) \subseteq ToSet(u) /\ a[j] \in ToSet(u)  BY <2>7 DEF Extends
  <2>9. \A k \in 1..j : in[m][k] \in ToSet(u)
    <3> TAKE k \in 1..j
    <3>1. CASE k = j  BY <1>3, <2>8, <3>1
    <3>2. CASE k # j
      <4>1. k \in 1..(j - 1)  BY <2>1, <3>2
      <4> QED  BY <2>2, <2>8, <4>1 DEF ExtendsBy
    <3> QED  BY <3>1, <3>2
  <2>10. ASSUME NEW C \in SUBSET Node, Closed(in, C), \A k \in 1..Len(in[m]) : in[m][k] \in C
         PROVE  ToSet(u) \subseteq ToSet(seq) \cup C
    <3>1. ToSet(s) \subseteq ToSet(seq) \cup C  BY <2>2, <2>10 DEF ExtendsBy
    <3>2. a[j] \in C  BY <1>3, <2>10
    <3>3. ToSet(u) \subseteq ToSet(s) \cup C  BY <2>7, <2>10, <3>2 DEF Extends
    <3> QED  BY <3>1, <3>3
  <2>11. ExtendsBy(in, seq, u, m, j)  BY <2>6, <2>8, <2>9, <2>10 DEF ExtendsBy
  <2>12. u \in Seq(Node)  BY <2>8 DEF Good
  <2> QED  BY <1>4, <2>1, <2>5, <2>11, <2>12
<1>8. PICK w : w = Along(v, seq, a)  OBVIOUS
<1>9. w \in J[Len(a)]  BY <1>5, <1>6, <1>7, <1>8, LoopRule
<1>10. ExtendsBy(in, seq, w, m, Len(a))  BY <1>4, <1>5, <1>9
<1> QED  BY <1>2, <1>3, <1>8, <1>10

\* One level more of depth.
LEMMA VisitsStep ==
  ASSUME NEW in, Shape(in), NEW q, Lists(q, Node), Ordered(in, q), NEW d \in Nat \ {0}, NEW v,
         Visits(in, q, v, d - 1), NEW w,
         \A m \in Node : \A seq \in Seq(Node) :
           w[m][seq] = IF m \in ToSet(seq) THEN seq ELSE Append(Along(v, seq, in[m]), m)
  PROVE  Visits(in, q, w, d)
<1> SUFFICES ASSUME NEW i \in 1..Len(q), i <= d, NEW seq \in Seq(Node), Good(in, seq)
             PROVE  Extends(in, seq, w[q[i]][seq], q[i])
  BY DEF Visits
<1>1. Len(q) \in Nat /\ \A j \in 1..Len(q) : q[j] \in Node  BY ListFacts
<1>2. PICK m \in Node : m = q[i]  BY <1>1
<1>3. PICK u : u = w[m][seq]  OBVIOUS
<1>4. CASE m \in ToSet(seq)
  <2>1. u = seq  BY <1>3, <1>4
  <2>2. Extends(in, seq, seq, m)  BY <1>4 DEF Extends
  <2> QED  BY <1>2, <1>3, <2>1, <2>2
<1>5. CASE m \notin ToSet(seq)
  <2>1. PICK s : s = Along(v, seq, in[m])  OBVIOUS
  <2>2. ExtendsBy(in, seq, s, m, Len(in[m]))  BY <1>2, <2>1, InputsVisited
  <2>3. /\ Good(in, s) /\ ToSet(seq) \subseteq ToSet(s)
        /\ \A k \in 1..Len(in[m]) : in[m][k] \in ToSet(s)
        /\ \A C \in SUBSET Node :
             Closed(in, C) /\ (\A k \in 1..Len(in[m]) : in[m][k] \in C) => ToSet(s) \subseteq ToSet(seq) \cup C
    BY <2>2 DEF ExtendsBy
  <2>4. u = Append(s, m)  BY <1>3, <1>5, <2>1
  <2>5. PICK C : C = {q[j] : j \in 1..(i - 1)}  OBVIOUS
  <2>6. C \in SUBSET Node
    <3>1. \A j \in 1..(i - 1) : j \in 1..Len(q)  BY <1>1
    <3> QED  BY <1>1, <2>5, <3>1
  <2>7. Closed(in, C)
    <3> SUFFICES ASSUME NEW n \in C, NEW k \in 1..Len(in[n]) PROVE in[n][k] \in C  BY DEF Closed
    <3>1. PICK j \in 1..(i - 1) : q[j] = n  BY <2>5
    <3>2. j \in 1..Len(q)  BY <1>1
    <3>3. PICK p \in 1..(j - 1) : q[p] = in[n][k]  BY <3>1, <3>2 DEF Ordered
    <3>4. p \in 1..(i - 1)  BY <1>1, <3>1, <3>3
    <3> QED  BY <2>5, <3>3, <3>4
  <2>8. \A k \in 1..Len(in[m]) : in[m][k] \in C  BY <1>2, <2>5 DEF Ordered
  <2>9. m \notin C
    <3>1. \A j \in 1..(i - 1) : j \in 1..Len(q) /\ j # i  BY <1>1
    <3>2. \A j \in 1..(i - 1) : q[j] # q[i]  BY <3>1 DEF Lists
    <3> QED  BY <1>2, <2>5, <3>2
  <2>10. m \notin ToSet(s)  BY <1>5, <2>3, <2>6, <2>7, <2>8, <2>9
  <2>11. Good(in, u) /\ ToSet(u) = ToSet(s) \cup {m}
    <3>1. Good(in, s) /\ Has(in, m, ToSet(s))  BY <2>3 DEF Has
    <3>2. Good(in, u) /\ Plus(u, s, m)  BY <1>2, <2>4, <2>10, <3>1, AppendGood
    <3> QED  BY <3>2 DEF Plus
  <2>12. ASSUME NEW D \in SUBSET Node, Closed(in, D), m \in D
         PROVE  ToSet(u) \subseteq ToSet(seq) \cup D
    <3>1. \A k \in 1..Len(in[m]) : in[m][k] \in D  BY <2>12 DEF Closed
    <3>2. ToSet(s) \subseteq ToSet(seq) \cup D  BY <2>3, <2>12, <3>1
    <3> QED  BY <2>11, <2>12, <3>2
  <2>13. Extends(in, seq, u, m)  BY <2>3, <2>11, <2>12 DEF Extends
  <2> QED  BY <1>2, <1>3, <2>13
<1> QED  BY <1>4, <1>5

\* The visits that are at most d deep, from those that are one less.
Level(in, d, v) ==
  [m \in Node |-> [seq \in Seq(Node) |->
    IF d = 0 \/ m \in ToSet(seq) THEN seq ELSE Append(Along(v, seq, in[m]), m)]]

Walked(in, W, n) ==
  /\ DOMAIN W = 0..n /\ W = [d \in DOMAIN W |-> W[d]]
  /\ \A d \in 0..n : W[d] = Level(in, d, W[d - 1])

LEMMA LevelZero ==
  ASSUME NEW in, NEW v, NEW w
  PROVE  Level(in, 0, v) = Level(in, 0, w)
BY DEF Level

LEMMA WalkedExists ==
  ASSUME NEW in, NEW N \in Nat
  PROVE  \E W : Walked(in, W, N)
<1> DEFINE T == {n \in Nat : \E W : Walked(in, W, n)}
<1>1. 0 \in T
  <2>1. PICK v : v = Level(in, 0, 0)  OBVIOUS
  <2>2. PICK W : W = [d \in 0..0 |-> v]  OBVIOUS
  <2>3. W[0] = Level(in, 0, W[0 - 1])  BY <2>1, <2>2, LevelZero
  <2>4. DOMAIN W = 0..0 /\ W = [d \in DOMAIN W |-> W[d]]  BY <2>2
  <2>5. \A d \in 0..0 : d = 0  OBVIOUS
  <2>6. Walked(in, W, 0)  BY <2>3, <2>4, <2>5 DEF Walked
  <2> QED  BY <2>6
<1>2. ASSUME NEW n \in Nat, n \in T PROVE \E W : Walked(in, W, n + 1)
  <2>1. PICK W : Walked(in, W, n)  BY <1>2
  <2>2. PICK v : v = Level(in, n + 1, W[n])  OBVIOUS
  <2>3. PICK Q : Q = [d \in 0..(n + 1) |-> IF d = n + 1 THEN v ELSE W[d]]  OBVIOUS
  <2>4. DOMAIN Q = 0..(n + 1) /\ Q = [d \in DOMAIN Q |-> Q[d]]  BY <2>3
  <2>5. Q[n + 1] = v /\ \A d \in 0..n : Q[d] = W[d]  BY <2>3
  <2>6. \A d \in 0..(n + 1) : Q[d] = Level(in, d, Q[d - 1])
    <3> TAKE d \in 0..(n + 1)
    <3>1. CASE d = n + 1
      <4>1. d - 1 = n /\ n \in 0..n  BY <3>1
      <4> QED  BY <2>2, <2>5, <3>1, <4>1
    <3>2. CASE d = 0
      <4>1. 0 \in 0..n  OBVIOUS
      <4>2. Q[0] = Level(in, 0, W[0 - 1])  BY <2>1, <2>5, <4>1 DEF Walked
      <4>3. Level(in, 0, W[0 - 1]) = Level(in, 0, Q[0 - 1])  BY LevelZero
      <4> QED  BY <3>2, <4>2, <4>3
    <3>3. CASE d # n + 1 /\ d # 0
      <4>1. d \in 0..n /\ d - 1 \in 0..n  BY <3>3
      <4>2. W[d] = Level(in, d, W[d - 1])  BY <2>1, <4>1 DEF Walked
      <4> QED  BY <2>5, <4>1, <4>2
    <3> QED  BY <3>1, <3>2, <3>3
  <2>7. Walked(in, Q, n + 1)  BY <2>4, <2>6 DEF Walked
  <2> QED  BY <2>7
<1>3. \A n \in Nat : n \in T => n + 1 \in T  BY <1>2
<1> HIDE DEF T
<1>4. N \in T  BY <1>1, <1>3, SetInduction
<1> QED  BY <1>4 DEF T

LEMMA WalkedVisits ==
  ASSUME NEW in, Shape(in), NEW q, Lists(q, Node), Ordered(in, q), NEW N \in Nat, NEW W,
         Walked(in, W, N)
  PROVE  Visits(in, q, W[N], N)
<1> DEFINE T == {n \in Nat : n <= N => Visits(in, q, W[n], n)}
<1>1. 0 \in T
  <2>1. \A i \in 1..Len(q) : ~(i <= 0)  BY ListFacts
  <2>2. Visits(in, q, W[0], 0)  BY <2>1 DEF Visits
  <2> QED  BY <2>2
<1>2. ASSUME NEW n \in Nat, n \in T, n + 1 <= N PROVE Visits(in, q, W[n + 1], n + 1)
  <2>1. Visits(in, q, W[n], n)  BY <1>2
  <2>2. n + 1 \in 0..N /\ (n + 1) - 1 = n /\ n + 1 \in Nat \ {0}  BY <1>2
  <2>3. PICK v, w : v = W[n] /\ w = W[n + 1]  OBVIOUS
  <2>4. w = Level(in, n + 1, v)  BY <2>2, <2>3 DEF Walked
  <2>5. \A m \in Node : \A seq \in Seq(Node) :
          w[m][seq] = IF m \in ToSet(seq) THEN seq ELSE Append(Along(v, seq, in[m]), m)
    BY <2>2, <2>4 DEF Level
  <2>6. PICK d \in Nat \ {0} : d = n + 1 /\ d - 1 = n  BY <2>2
  <2>7. Visits(in, q, v, d - 1)  BY <2>1, <2>3, <2>6
  <2>8. Visits(in, q, w, d)  BY <2>5, <2>7, VisitsStep
  <2> QED  BY <2>3, <2>6, <2>8
<1>3. \A n \in Nat : n \in T => n + 1 \in T  BY <1>2
<1> HIDE DEF T
<1>4. N \in T  BY <1>1, <1>3, SetInduction
<1> QED  BY <1>4 DEF T

\* The list of a target: what is below it, in order, once.
LEMMA VisitFacts ==
  ASSUME NodeTypes, NEW in, Shape(in), Acyclic(in), NEW n \in Node, NEW s, s = Visit(in, n)
  PROVE  Good(in, s) /\ ToSet(s) = Below(in, {n})
<1>1. PICK q : Lists(q, Node) /\ Ordered(in, q)  BY DEF Acyclic
<1>2. PICK N \in Nat : N = Len(in) /\ Len(q) <= N
  <2>1. Distinct(q) /\ q \in Seq(Node)  BY <1>1 DEF Lists, Distinct
  <2>2. Len(q) <= Len(type) /\ Len(type) \in Nat  BY <2>1, NoLonger, NodeFacts
  <2>3. DOMAIN in = 1..Len(type)  BY NodeFacts DEF Shape
  <2>4. Len(in) = Len(type)  BY <2>2, <2>3
  <2> QED  BY <2>2, <2>4
<1> DEFINE Eq(V) == V = [d \in 0..Len(in) |-> Level(in, d, V[d - 1])]
<1>3. PICK W : Walked(in, W, N)  BY WalkedExists
<1>4. Eq(W)
  <2>1. DOMAIN W = 0..N /\ W = [d \in DOMAIN W |-> W[d]] /\ \A d \in 0..N : W[d] = Level(in, d, W[d - 1])
    BY <1>3 DEF Walked
  <2> QED  BY <1>2, <2>1
<1>5. PICK V : V = CHOOSE Z : Eq(Z)  OBVIOUS
<1>6. Eq(V)  BY <1>4, <1>5
<1>7. Walked(in, V, N)  BY <1>2, <1>6 DEF Walked
<1>8. s = V[N][n][<<>>]  BY <1>2, <1>5 DEF Visit, Level
<1>9. Visits(in, q, V[N], N)  BY <1>1, <1>7, WalkedVisits
<1>10. PICK i \in 1..Len(q) : q[i] = n  BY <1>1 DEF Lists
<1>11. i <= N
  <2>1. Len(q) \in Nat  BY <1>1, ListFacts
  <2> QED  BY <1>2, <2>1
<1>12. <<>> \in Seq(Node) /\ Good(in, <<>>) /\ ToSet(<<>>) = {}  BY DEF Good, Distinct, Ordered, ToSet
<1>13. Extends(in, <<>>, s, n)  BY <1>8, <1>9, <1>10, <1>11, <1>12 DEF Visits
<1>14. PICK B : B = Below(in, {n})  OBVIOUS
<1>15. n \in B /\ B \in SUBSET Node /\ Closed(in, B)  BY <1>14, BelowClosed
<1>16. ToSet(s) \subseteq B  BY <1>12, <1>13, <1>15 DEF Extends
<1>17. B \subseteq ToSet(s)
  <2>1. s \in Seq(Node) /\ Ordered(in, s) /\ n \in ToSet(s)  BY <1>13 DEF Extends, Good
  <2>2. Closed(in, ToSet(s)) /\ ToSet(s) \subseteq Node  BY <2>1, OrderedClosed, SetOf
  <2>3. PICK C, S : C = ToSet(s) /\ S = {n}  OBVIOUS
  <2>4. in \in [Node -> Seq(Node)] /\ S \subseteq C  BY <2>1, <2>3 DEF Shape
  <2>5. Below(in, S) \subseteq C  BY <2>2, <2>3, <2>4, BelowLeast
  <2> QED  BY <1>14, <2>3, <2>5
<1> QED  BY <1>13, <1>14, <1>16, <1>17 DEF Extends

-----------------------------------------------------------------------------
(* The chains. *)

\* The nodes of the lists, each once and after its inputs.
OnceOf(in, c, s, j, u) ==
  Good(in, u) /\ \A x : x \in ToSet(u) <=> x \in ToSet(c) \/ \E i \in 1..j : s[i] = x

LEMMA OnceFacts ==
  ASSUME NEW in, Shape(in), NEW c, Good(in, c), NEW s, Good(in, s), NEW u, u = Along(Once, c, s)
  PROVE  OnceOf(in, c, s, Len(s), u)
<1>1. s \in Seq(Node) /\ c \in Seq(Node) /\ Ordered(in, s)  BY DEF Good
<1>2. PICK l \in Nat : l = Len(s)  BY <1>1
<1>3. PICK J : J = [j \in 0..l |-> {v \in Seq(Node) : OnceOf(in, c, s, j, v)}]  OBVIOUS
<1>4. c \in J[0]
  <2>1. OnceOf(in, c, s, 0, c)  BY DEF OnceOf
  <2> QED  BY <1>1, <1>2, <1>3, <2>1
<1>5. ASSUME NEW j \in 1..l, NEW v \in J[j - 1] PROVE Once[s[j]][v] \in J[j]
  <2>1. j \in 0..l /\ j - 1 \in 0..l /\ \A i \in 1..j : i \in 1..(j - 1) \/ i = j  BY <1>2
  <2>2. v \in Seq(Node) /\ OnceOf(in, c, s, j - 1, v)  BY <1>3, <2>1
  <2>3. PICK m \in Node : m = s[j]
    <3>1. s[j] \in Node  BY <1>1, <1>2, ElementOfSeq
    <3> QED  BY <3>1
  <2>4. PICK w : w = Once[m][v]  OBVIOUS
  <2>5. w = IF m \in ToSet(v) THEN v ELSE Append(v, m)  BY <2>2, <2>3, <2>4 DEF Once
  <2>6. Good(in, v) /\ \A x : x \in ToSet(v) <=> x \in ToSet(c) \/ \E i \in 1..(j - 1) : s[i] = x
    BY <2>2 DEF OnceOf
  <2>7. \A x : (\E i \in 1..j : s[i] = x) <=> (\E i \in 1..(j - 1) : s[i] = x) \/ x = m
    BY <1>2, <2>1, <2>3
  <2>8. CASE m \in ToSet(v)
    <3>1. w = v  BY <2>5, <2>8
    <3>2. OnceOf(in, c, s, j, v)  BY <2>6, <2>7, <2>8 DEF OnceOf
    <3> QED  BY <1>3, <2>1, <2>2, <2>3, <2>4, <3>1, <3>2
  <2>9. CASE m \notin ToSet(v)
    <3>1. w = Append(v, m)  BY <2>5, <2>9
    <3>2. Has(in, m, ToSet(v))
      <4> SUFFICES ASSUME NEW k \in 1..Len(in[m]) PROVE in[m][k] \in ToSet(v)  BY DEF Has
      <4>1. PICK i \in 1..(j - 1) : s[i] = in[m][k]  BY <1>1, <1>2, <2>3 DEF Ordered
      <4> QED  BY <2>6, <4>1
    <3>3. Good(in, w) /\ Plus(w, v, m)  BY <2>3, <2>6, <2>9, <3>1, <3>2, AppendGood
    <3>4. OnceOf(in, c, s, j, w)  BY <2>6, <2>7, <3>3 DEF OnceOf, Plus
    <3>5. w \in Seq(Node)  BY <3>3 DEF Good
    <3> QED  BY <1>3, <2>1, <2>3, <2>4, <3>4, <3>5
  <2> QED  BY <2>8, <2>9
<1>6. PICK f : f = Once  OBVIOUS
<1>7. \A j \in 1..Len(s) : \A v \in J[j - 1] : f[s[j]][v] \in J[j]  BY <1>2, <1>5, <1>6
<1>8. Along(f, c, s) \in J[Len(s)]  BY <1>2, <1>4, <1>7, LoopRule
<1> QED  BY <1>2, <1>3, <1>6, <1>8

\* The nodes of the first j lists.
Nodes(lists, j) == {x \in Node : \E i \in 1..j : x \in ToSet(lists[i])}

LEMMA NodesStep ==
  ASSUME NEW lists, NEW j \in Nat \ {0}, ToSet(lists[j]) \subseteq Node
  PROVE  Nodes(lists, j) = Nodes(lists, j - 1) \cup ToSet(lists[j])
<1>1. \A i : i \in 1..j <=> i \in 1..(j - 1) \/ i = j  OBVIOUS
<1> QED  BY <1>1 DEF Nodes

LEMMA ChainedFacts ==
  ASSUME NEW in, Shape(in), NEW lists, Len(lists) \in Nat,
         \A i \in 1..Len(lists) : Good(in, lists[i]), NEW u, u = Chained(lists)
  PROVE  Good(in, u) /\ ToSet(u) = Nodes(lists, Len(lists))
<1>1. PICK l \in Nat : l = Len(lists)  OBVIOUS
<1>2. PICK f : f = [s \in Seq(Node) |-> [c \in Seq(Node) |-> Along(Once, c, s)]]  OBVIOUS
<1>3. PICK J : J = [j \in 0..l |-> {c \in Seq(Node) : Good(in, c) /\ ToSet(c) = Nodes(lists, j)}]
  OBVIOUS
<1>4. <<>> \in J[0]
  <2>1. Good(in, <<>>) /\ ToSet(<<>>) = {}  BY DEF Good, Distinct, Ordered, ToSet
  <2>2. Nodes(lists, 0) = {}  BY DEF Nodes
  <2> QED  BY <1>1, <1>3, <2>1, <2>2
<1>5. ASSUME NEW j \in 1..l, NEW c \in J[j - 1] PROVE f[lists[j]][c] \in J[j]
  <2>1. j \in 0..l /\ j - 1 \in 0..l /\ j \in Nat \ {0}  BY <1>1
  <2>2. c \in Seq(Node) /\ Good(in, c) /\ ToSet(c) = Nodes(lists, j - 1)  BY <1>3, <2>1
  <2>3. PICK s : s = lists[j]  OBVIOUS
  <2>4. Good(in, s) /\ s \in Seq(Node)  BY <1>1, <2>3 DEF Good
  <2>5. PICK w : w = Along(Once, c, s)  OBVIOUS
  <2>6. f[s][c] = w  BY <1>2, <2>2, <2>4, <2>5
  <2>7. OnceOf(in, c, s, Len(s), w)  BY <2>2, <2>4, <2>5, OnceFacts
  <2>8. Good(in, w) /\ \A x : x \in ToSet(w) <=> x \in ToSet(c) \/ x \in ToSet(s)
    <3>1. \A x : x \in ToSet(s) <=> \E i \in 1..Len(s) : s[i] = x  BY <2>4, SetOf
    <3> QED  BY <2>7, <3>1 DEF OnceOf
  <2>9. ToSet(w) = ToSet(c) \cup ToSet(s)  BY <2>8
  <2>10. Nodes(lists, j) = Nodes(lists, j - 1) \cup ToSet(s)
    <3>1. ToSet(s) \subseteq Node  BY <2>4, SetOf
    <3> QED  BY <2>1, <2>3, <3>1, NodesStep
  <2>11. w \in Seq(Node)  BY <2>8 DEF Good
  <2> QED  BY <1>3, <2>1, <2>2, <2>3, <2>6, <2>8, <2>9, <2>10, <2>11
<1>6. Along(f, <<>>, lists) \in J[Len(lists)]  BY <1>1, <1>4, <1>5, LoopRule
<1>7. u = Along(f, <<>>, lists)  BY <1>2 DEF Chained
<1> QED  BY <1>1, <1>3, <1>6, <1>7

-----------------------------------------------------------------------------
(* Gradients. *)

\* The nodes with a variable below.
HasVar == {n \in Node : \E v \in Below(input, {n}) : type[v] = "variable"}

LEMMA VariablesBelow ==
  ASSUME NodeTypes, Shape(input), Acyclic(input), NEW n \in Node
  PROVE  /\ type[n] = "variable" => n \in HasVar
         /\ \A k \in 1..Len(input[n]) : input[n][k] \in HasVar => n \in HasVar
         /\ n \in HasVar /\ type[n] # "variable" => \E k \in 1..Len(input[n]) : input[n][k] \in HasVar
<1>1. input \in [Node -> Seq(Node)] /\ \A m \in Node : \A k \in 1..Len(input[m]) : input[m][k] \in Node
  <2>1. input \in [Node -> Seq(Node)]  BY DEF Shape
  <2>2. ASSUME NEW m \in Node, NEW k \in 1..Len(input[m]) PROVE input[m][k] \in Node
    <3>1. input[m] \in Seq(Node)  BY <2>1
    <3> QED  BY <3>1, ElementOfSeq
  <2> QED  BY <2>1, <2>2
<1>2. \A m \in Node : m \in Below(input, {m}) /\ Below(input, {m}) \subseteq Node /\ Closed(input, Below(input, {m}))
  <2> TAKE m \in Node
  <2>1. PICK S : S = {m}  OBVIOUS
  <2>2. S \subseteq Below(input, S) /\ Below(input, S) \subseteq Node /\ Closed(input, Below(input, S))
    BY <2>1, BelowClosed
  <2> QED  BY <2>1, <2>2
<1>3. \A m \in Node : \A C \in SUBSET Node : Closed(input, C) /\ m \in C => Below(input, {m}) \subseteq C
  <2> SUFFICES ASSUME NEW m \in Node, NEW C \in SUBSET Node, Closed(input, C), m \in C
               PROVE  Below(input, {m}) \subseteq C
    OBVIOUS
  <2>1. PICK S : S = {m}  OBVIOUS
  <2>2. S \subseteq C  BY <2>1
  <2>3. Below(input, S) \subseteq C  BY <1>1, <2>2, BelowLeast
  <2> QED  BY <2>1, <2>3
<1>4. \A m \in Node : type[m] = "variable" => m \in HasVar  BY <1>2 DEF HasVar
<1>5. \A m \in Node : \A k \in 1..Len(input[m]) : input[m][k] \in HasVar => m \in HasVar
  <2> SUFFICES ASSUME NEW m \in Node, NEW k \in 1..Len(input[m]), input[m][k] \in HasVar
               PROVE  m \in HasVar
    OBVIOUS
  <2>1. PICK x \in Node : x = input[m][k]  BY <1>1
  <2>2. x \in Below(input, {m})  BY <1>2, <2>1 DEF Closed
  <2>3. Below(input, {x}) \subseteq Below(input, {m})  BY <1>2, <1>3, <2>2
  <2>4. PICK v \in Below(input, {x}) : type[v] = "variable"  BY <2>1 DEF HasVar
  <2> QED  BY <2>3, <2>4 DEF HasVar
<1>6. ASSUME n \in HasVar, type[n] # "variable", \A k \in 1..Len(input[n]) : input[n][k] \notin HasVar
      PROVE  FALSE
  <2>1. PICK C : C = {n} \cup (Node \ HasVar)  OBVIOUS
  <2>2. Closed(input, C)
    <3> SUFFICES ASSUME NEW m \in C, NEW k \in 1..Len(input[m]) PROVE input[m][k] \in C
      BY DEF Closed
    <3>1. m \in Node  BY <2>1
    <3>2. input[m][k] \in Node  BY <1>1, <3>1
    <3>3. input[m][k] \notin HasVar
      <4>1. CASE m = n  BY <1>6, <4>1
      <4>2. CASE m # n  BY <1>5, <2>1, <3>1, <4>2
      <4> QED  BY <4>1, <4>2
    <3> QED  BY <2>1, <3>2, <3>3
  <2>3. C \in SUBSET Node /\ n \in C  BY <2>1
  <2>4. Below(input, {n}) \subseteq C  BY <1>3, <2>2, <2>3
  <2>5. PICK v \in Below(input, {n}) : type[v] = "variable"  BY <1>6 DEF HasVar
  <2>6. v \in HasVar /\ v # n  BY <1>2, <1>4, <1>6, <2>5
  <2> QED  BY <2>1, <2>4, <2>5, <2>6
<1> QED  BY <1>4, <1>5, <1>6

\* G has the variables, nothing that does not need a gradient, and what of X does.
Graded(G, X) ==
  /\ \A n \in Node : type[n] = "variable" => n \in G
  /\ G \subseteq HasVar /\ X \cap HasVar \subseteq G

LEMMA GradStep ==
  ASSUME NodeTypes, Shape(input), Acyclic(input), NEW n \in Node, NEW G, NEW X, Graded(G, X),
         Has(input, n, X), NEW H, H = IF ToSet(input[n]) \cap G # {} THEN G \cup {n} ELSE G
  PROVE  Graded(H, X \cup {n})
<1>1. input[n] \in Seq(Node)  BY DEF Shape
<1>2. \A x : x \in ToSet(input[n]) <=> \E k \in 1..Len(input[n]) : input[n][k] = x  BY <1>1, SetOf
<1>3. /\ \A m \in Node : type[m] = "variable" => m \in G
      /\ G \subseteq HasVar /\ X \cap HasVar \subseteq G
  BY DEF Graded
<1>4. ASSUME ToSet(input[n]) \cap G # {} PROVE n \in HasVar
  <2>1. PICK x : x \in ToSet(input[n]) /\ x \in G  BY <1>4
  <2>2. PICK k \in 1..Len(input[n]) : input[n][k] = x  BY <1>2, <2>1
  <2>3. input[n][k] \in HasVar  BY <1>3, <2>1, <2>2
  <2> QED  BY <2>3, VariablesBelow
<1>5. ASSUME n \in HasVar PROVE n \in H
  <2>1. CASE type[n] = "variable"  BY <1>3, <2>1
  <2>2. CASE type[n] # "variable"
    <3>1. PICK k \in 1..Len(input[n]) : input[n][k] \in HasVar  BY <1>5, <2>2, VariablesBelow
    <3>2. input[n][k] \in X  BY <3>1 DEF Has
    <3>3. input[n][k] \in G /\ input[n][k] \in ToSet(input[n])  BY <1>2, <1>3, <3>1, <3>2
    <3> QED  BY <3>3
  <2> QED  BY <2>1, <2>2
<1> QED  BY <1>3, <1>4, <1>5 DEF Graded

LEMMA GradList ==
  ASSUME NodeTypes, Shape(input), Acyclic(input), NEW G \in SUBSET Node, NEW X, Graded(G, X),
         NEW s, Good(input, s), NEW H, H = Along(WithGrad, G, s)
  PROVE  H \in SUBSET Node /\ Graded(H, X \cup ToSet(s))
<1>1. s \in Seq(Node) /\ Ordered(input, s)  BY DEF Good
<1>2. PICK l \in Nat : l = Len(s)  BY <1>1
<1>3. PICK D : D = [j \in 0..l |-> X \cup {s[i] : i \in 1..j}]  OBVIOUS
<1>4. PICK J : J = [j \in 0..l |-> {K \in SUBSET Node : Graded(K, D[j])}]  OBVIOUS
<1>5. G \in J[0]
  <2>1. D[0] = X  BY <1>2, <1>3
  <2> QED  BY <1>2, <1>4, <2>1
<1>6. ASSUME NEW j \in 1..l, NEW K \in J[j - 1] PROVE WithGrad[s[j]][K] \in J[j]
  <2>1. j \in 0..l /\ j - 1 \in 0..l /\ \A i : i \in 1..j <=> i \in 1..(j - 1) \/ i = j  BY <1>2
  <2>2. K \in SUBSET Node /\ Graded(K, D[j - 1])  BY <1>4, <2>1
  <2>3. PICK m \in Node : m = s[j]
    <3>1. s[j] \in Node  BY <1>1, <1>2, ElementOfSeq
    <3> QED  BY <3>1
  <2>4. PICK L : L = IF ToSet(input[m]) \cap K # {} THEN K \cup {m} ELSE K  OBVIOUS
  <2>5. WithGrad[m][K] = L  BY <2>2, <2>3, <2>4 DEF WithGrad
  <2>6. D[j] = D[j - 1] \cup {m}  BY <1>3, <2>1, <2>3
  <2>7. Has(input, m, D[j - 1])
    <3> SUFFICES ASSUME NEW k \in 1..Len(input[m]) PROVE input[m][k] \in D[j - 1]  BY DEF Has
    <3>1. PICK i \in 1..(j - 1) : s[i] = input[m][k]  BY <1>1, <1>2, <2>3 DEF Ordered
    <3> QED  BY <1>3, <2>1, <3>1
  <2>8. PICK Y : Y = D[j - 1]  OBVIOUS
  <2>9. Graded(L, Y \cup {m})  BY <2>2, <2>3, <2>4, <2>7, <2>8, GradStep
  <2>10. L \in SUBSET Node  BY <2>2, <2>3, <2>4
  <2> QED  BY <1>4, <2>1, <2>3, <2>5, <2>6, <2>8, <2>9, <2>10
<1>7. PICK f : f = WithGrad  OBVIOUS
<1>8. \A j \in 1..Len(s) : \A K \in J[j - 1] : f[s[j]][K] \in J[j]  BY <1>2, <1>6, <1>7
<1>9. H \in J[l]
  <2>1. Along(f, G, s) \in J[Len(s)]  BY <1>2, <1>5, <1>8, LoopRule
  <2> QED  BY <1>2, <1>7, <2>1
<1>10. D[l] = X \cup ToSet(s)
  <2>1. \A x : x \in ToSet(s) <=> \E i \in 1..l : s[i] = x  BY <1>1, <1>2, SetOf
  <2>2. D[l] = X \cup {s[i] : i \in 1..l}  BY <1>2, <1>3
  <2> QED  BY <2>1, <2>2
<1> QED  BY <1>2, <1>4, <1>9, <1>10

LEMMA GradLists ==
  ASSUME NodeTypes, Shape(input), Acyclic(input), NEW G \in SUBSET Node,
         G = {n \in Node : type[n] = "variable"}, NEW lists, Len(lists) \in Nat,
         \A i \in 1..Len(lists) : Good(input, lists[i]), NEW H,
         H = Along([s \in Seq(Node) |-> [K \in SUBSET Node |-> Along(WithGrad, K, s)]], G, lists)
  PROVE  Graded(H, Nodes(lists, Len(lists)))
<1>1. PICK l \in Nat : l = Len(lists)  OBVIOUS
<1>2. PICK f : f = [s \in Seq(Node) |-> [K \in SUBSET Node |-> Along(WithGrad, K, s)]]  OBVIOUS
<1>3. PICK J : J = [j \in 0..l |-> {K \in SUBSET Node : Graded(K, Nodes(lists, j))}]  OBVIOUS
<1>4. G \in J[0]
  <2>1. Nodes(lists, 0) = {}  BY DEF Nodes
  <2>2. \A n \in Node : type[n] = "variable" => n \in HasVar  BY VariablesBelow
  <2>3. PICK X : X = Nodes(lists, 0)  OBVIOUS
  <2>4. G \subseteq HasVar /\ X = {}  BY <2>1, <2>2, <2>3
  <2>5. Graded(G, X)  BY <2>4 DEF Graded
  <2>6. 0 \in 0..l  BY <1>1
  <2> QED  BY <1>3, <2>3, <2>5, <2>6
<1>5. ASSUME NEW j \in 1..l, NEW K \in J[j - 1] PROVE f[lists[j]][K] \in J[j]
  <2>1. j \in 0..l /\ j - 1 \in 0..l /\ j \in Nat \ {0}  BY <1>1
  <2>2. PICK X : X = Nodes(lists, j - 1)  OBVIOUS
  <2>3. K \in SUBSET Node /\ Graded(K, X)  BY <1>3, <2>1, <2>2
  <2>4. PICK s : s = lists[j]  OBVIOUS
  <2>5. Good(input, s) /\ s \in Seq(Node)  BY <1>1, <2>4 DEF Good
  <2>6. PICK L : L = Along(WithGrad, K, s)  OBVIOUS
  <2>7. f[s][K] = L  BY <1>2, <2>3, <2>5, <2>6
  <2>8. L \in SUBSET Node /\ Graded(L, X \cup ToSet(s))  BY <2>3, <2>5, <2>6, GradList
  <2>9. Nodes(lists, j) = X \cup ToSet(s)
    <3>1. ToSet(s) \subseteq Node  BY <2>5, SetOf
    <3> QED  BY <2>1, <2>2, <2>4, <3>1, NodesStep
  <2> QED  BY <1>3, <2>1, <2>4, <2>7, <2>8, <2>9
<1>6. Along(f, G, lists) \in J[Len(lists)]  BY <1>1, <1>4, <1>5, LoopRule
<1> QED  BY <1>1, <1>2, <1>3, <1>6

-----------------------------------------------------------------------------
(* Compile and InitOp. *)

\* The lists have what the targets need.
LEMMA ListsAlive ==
  ASSUME NodeTypes, Shape(input), Acyclic(input), targets \in Seq(Node), NEW lists,
         Len(lists) = Len(targets),
         \A i \in 1..Len(targets) : ToSet(lists[i]) = Below(input, {targets[i]})
  PROVE  Nodes(lists, Len(targets)) = Alive
<1>1. PICK l \in Nat : l = Len(targets)  OBVIOUS
<1>2. PICK S : S = ToSet(targets)  OBVIOUS
<1>3. \A x : x \in S <=> \E i \in 1..l : targets[i] = x  BY <1>1, <1>2, SetOf
<1>4. S \subseteq Node /\ input \in [Node -> Seq(Node)]  BY <1>2, SetOf DEF Shape
<1>5. PICK B : B = Below(input, S)  OBVIOUS
<1>6. S \subseteq B /\ B \subseteq Node /\ Closed(input, B)  BY <1>4, <1>5, BelowClosed
<1>7. ASSUME NEW i \in 1..l
      PROVE  /\ targets[i] \in ToSet(lists[i]) /\ ToSet(lists[i]) \subseteq B
             /\ ToSet(lists[i]) \subseteq Node /\ Closed(input, ToSet(lists[i]))
  <2>1. PICK T : T = {targets[i]}  OBVIOUS
  <2>2. targets[i] \in S /\ targets[i] \in Node  BY <1>3, <1>4, <1>7
  <2>3. T \subseteq Node /\ T \subseteq B  BY <1>6, <2>1, <2>2
  <2>4. T \subseteq Below(input, T) /\ Below(input, T) \subseteq Node /\ Closed(input, Below(input, T))
    BY <2>3, BelowClosed
  <2>5. Below(input, T) \subseteq B  BY <1>4, <1>6, <2>3, BelowLeast
  <2>6. ToSet(lists[i]) = Below(input, T)  BY <1>1, <1>7, <2>1
  <2> QED  BY <2>1, <2>4, <2>5, <2>6
<1>8. PICK N : N = Nodes(lists, l)  OBVIOUS
<1>9. \A x : x \in N <=> \E i \in 1..l : x \in ToSet(lists[i])  BY <1>7, <1>8 DEF Nodes
<1>10. N \subseteq B  BY <1>7, <1>9
<1>11. Closed(input, N)
  <2> SUFFICES ASSUME NEW n \in N, NEW k \in 1..Len(input[n]) PROVE input[n][k] \in N  BY DEF Closed
  <2>1. PICK i \in 1..l : n \in ToSet(lists[i])  BY <1>9
  <2>2. input[n][k] \in ToSet(lists[i])  BY <1>7, <2>1 DEF Closed
  <2> QED  BY <1>9, <2>2
<1>12. S \subseteq N  BY <1>3, <1>7, <1>9
<1>13. N \subseteq Node  BY <1>6, <1>10
<1>14. B \subseteq N  BY <1>4, <1>5, <1>11, <1>12, <1>13, BelowLeast
<1> QED  BY <1>1, <1>2, <1>5, <1>8, <1>10, <1>14 DEF Alive

\* What Compile makes.
Compiled(lists, G) ==
  /\ lists \in Seq(Seq(Node)) /\ Len(lists) = Len(targets)
  /\ \A i \in 1..Len(targets) : Good(input, lists[i]) /\ ToSet(lists[i]) = Below(input, {targets[i]})
  /\ \A n \in Alive : n \in G <=> \E v \in Below(input, {n}) : type[v] = "variable"

LEMMA CompileFacts ==
  ASSUME NodeTypes, Shape(input), Acyclic(input), targets \in Seq(Node),
         needGrad = {n \in Node : type[n] = "variable"},
         NEW lists, lists = [i \in DOMAIN targets |-> Visit(input, targets[i])],
         NEW G, G = Along([s \in Seq(Node) |-> [K \in SUBSET Node |-> Along(WithGrad, K, s)]],
                          needGrad, lists)
  PROVE  Compiled(lists, G)
<1>1. PICK l \in Nat : l = Len(targets) /\ DOMAIN targets = 1..l  OBVIOUS
<1>2. ASSUME NEW i \in 1..l
      PROVE  /\ Good(input, lists[i]) /\ ToSet(lists[i]) = Below(input, {targets[i]})
             /\ lists[i] \in Seq(Node)
  <2>1. PICK n \in Node : n = targets[i]
    <3>1. targets[i] \in Node  BY <1>1, <1>2, ElementOfSeq
    <3> QED  BY <3>1
  <2>2. PICK s : s = lists[i]  OBVIOUS
  <2>3. s = Visit(input, n)  BY <1>1, <2>1, <2>2
  <2>4. Good(input, s) /\ ToSet(s) = Below(input, {n})  BY <2>3, VisitFacts
  <2> QED  BY <2>1, <2>2, <2>4 DEF Good
<1>3. lists \in Seq(Seq(Node)) /\ Len(lists) = l
  <2>1. PICK S : S = Seq(Node)  OBVIOUS
  <2>2. \A i \in 1..l : lists[i] \in S  BY <1>2, <2>1
  <2>3. lists = [i \in 1..l |-> lists[i]]  BY <1>1
  <2>4. lists \in Seq(S) /\ Len(lists) = l  BY <1>1, <2>2, <2>3
  <2> QED  BY <2>1, <2>4
<1>4. Graded(G, Nodes(lists, l))
  <2>1. PICK g \in SUBSET Node : g = needGrad  OBVIOUS
  <2>2. g = {n \in Node : type[n] = "variable"}  BY <2>1
  <2>3. Len(lists) \in Nat /\ \A i \in 1..Len(lists) : Good(input, lists[i])  BY <1>1, <1>2, <1>3
  <2>4. G = Along([s \in Seq(Node) |-> [K \in SUBSET Node |-> Along(WithGrad, K, s)]], g, lists)
    BY <2>1
  <2>5. Graded(G, Nodes(lists, Len(lists)))  BY <2>1, <2>2, <2>3, <2>4, GradLists
  <2> QED  BY <1>3, <2>5
<1>5. Nodes(lists, l) = Alive
  <2>1. Nodes(lists, Len(targets)) = Alive  BY <1>1, <1>2, <1>3, ListsAlive
  <2> QED  BY <1>1, <2>1
<1>6. Alive \subseteq Node
  <2>1. ToSet(targets) \subseteq Node  BY SetOf
  <2>2. Below(input, ToSet(targets)) \subseteq Node  BY <2>1, BelowClosed
  <2> QED  BY <2>2 DEF Alive
<1>7. \A n \in Alive : n \in G <=> n \in HasVar  BY <1>4, <1>5 DEF Graded
<1>8. \A n \in Alive : n \in G <=> \E v \in Below(input, {n}) : type[v] = "variable"
  BY <1>6, <1>7 DEF HasVar
<1> QED  BY <1>1, <1>2, <1>3, <1>8 DEF Compiled

\* The first list alone.
LEMMA ChainOfFirst ==
  ASSUME NEW in, Shape(in), NEW lists, lists \in Seq(Seq(Node)), Len(lists) > 0, Good(in, lists[1]),
         NEW u, u = Chained(SubSeq(lists, 1, 1))
  PROVE  Good(in, u) /\ ToSet(u) = ToSet(lists[1])
<1>1. PICK one : one = SubSeq(lists, 1, 1)  OBVIOUS
<1>2. Len(one) = 1 /\ one[1] = lists[1]  BY <1>1
<1>3. Good(in, u) /\ ToSet(u) = Nodes(one, Len(one))
  <2>1. Len(one) \in Nat /\ \A i \in 1..Len(one) : Good(in, one[i])  BY <1>2
  <2> QED  BY <1>1, <2>1, ChainedFacts
<1>4. ToSet(lists[1]) \subseteq Node
  <2>1. lists[1] \in Seq(Node)  BY DEF Good
  <2> QED  BY <2>1, SetOf
<1>5. Nodes(one, 1) = ToSet(lists[1])  BY <1>2, <1>4 DEF Nodes
<1> QED  BY <1>2, <1>3, <1>5

LEMMA GoodInOrder ==
  ASSUME NEW in, Shape(in), NEW c, Good(in, c)
  PROVE  IsInjective(c) /\ \A i \in DOMAIN c : ToSet(in[c[i]]) \subseteq ToSet(SubSeq(c, 1, i - 1))
<1>1. c \in Seq(Node) /\ Distinct(c) /\ Ordered(in, c)  BY DEF Good
<1>2. PICK l \in Nat : l = Len(c) /\ DOMAIN c = 1..l  BY <1>1
<1>3. IsInjective(c)  BY <1>1, <1>2 DEF IsInjective, Distinct
<1>4. ASSUME NEW i \in 1..l, NEW x \in ToSet(in[c[i]]) PROVE x \in ToSet(SubSeq(c, 1, i - 1))
  <2>1. PICK s : s = SubSeq(c, 1, i - 1)  OBVIOUS
  <2>2. i - 1 \in 0..Len(c)  BY <1>2
  <2>3. s \in Seq(Node) /\ Len(s) = i - 1 /\ \A j \in 1..(i - 1) : s[j] = c[j]
    BY <1>1, <2>1, <2>2, Started
  <2>4. in[c[i]] \in Seq(Node)
    <3>1. c[i] \in Node  BY <1>1, <1>2, ElementOfSeq
    <3> QED  BY <3>1 DEF Shape
  <2>5. PICK k \in 1..Len(in[c[i]]) : in[c[i]][k] = x  BY <1>4, <2>4, SetOf
  <2>6. PICK j \in 1..(i - 1) : c[j] = x  BY <1>1, <1>2, <2>5 DEF Ordered
  <2>7. j \in 1..Len(s) /\ s[j] = x  BY <2>3, <2>6
  <2> QED  BY <2>1, <2>3, <2>7, SetOf
<1> QED  BY <1>2, <1>3, <1>4

\* The chains that InitOp makes.
ChainRight(c) ==
  /\ IsInjective(c) /\ ToSet(c) = Alive
  /\ \A i \in DOMAIN c : ToSet(input[c[i]]) \subseteq ToSet(SubSeq(c, 1, i - 1))

BackwardRight(b) ==
  /\ ToSet(b) = Below(input, {targets[1]})
  /\ \A i \in DOMAIN b : ToSet(input[b[i]]) \subseteq ToSet(SubSeq(b, 1, i - 1))

LEMMA ChainFacts ==
  ASSUME NodeTypes, Shape(input), Acyclic(input), targets \in Seq(Node), Len(targets) > 0,
         Compiled(forward, needGrad), NEW c, c = Chained(forward)
  PROVE  ChainRight(c)
<1>1. /\ Len(forward) = Len(targets) /\ Len(targets) \in Nat
      /\ \A i \in 1..Len(targets) : Good(input, forward[i]) /\ ToSet(forward[i]) = Below(input, {targets[i]})
  BY DEF Compiled
<1>2. PICK lists : lists = forward  OBVIOUS
<1>3. Good(input, c) /\ ToSet(c) = Nodes(lists, Len(lists))  BY <1>1, <1>2, ChainedFacts
<1>4. Nodes(lists, Len(targets)) = Alive  BY <1>1, <1>2, ListsAlive
<1>5. ToSet(c) = Alive  BY <1>1, <1>2, <1>3, <1>4
<1> QED  BY <1>3, <1>5, GoodInOrder DEF ChainRight

LEMMA BackwardFacts ==
  ASSUME NodeTypes, Shape(input), Acyclic(input), targets \in Seq(Node), Len(targets) > 0,
         Compiled(forward, needGrad), NEW b,
         b = LET before == Chained(SubSeq(forward, 1, 0))
                 after == Chained(SubSeq(forward, 1, 0 + 1))
             IN SubSeq(after, Len(before) + 1, Len(after))
  PROVE  BackwardRight(b)
<1>1. /\ Len(forward) = Len(targets) /\ Len(targets) \in Nat /\ forward \in Seq(Seq(Node))
      /\ Good(input, forward[1]) /\ ToSet(forward[1]) = Below(input, {targets[1]})
  BY DEF Compiled
<1>2. PICK before, after : before = Chained(SubSeq(forward, 1, 0)) /\ after = Chained(SubSeq(forward, 1, 1))
  OBVIOUS
<1>3. b = SubSeq(after, Len(before) + 1, Len(after))
  <2>1. 0 + 1 = 1  OBVIOUS
  <2> QED  BY <1>2, <2>1
<1>4. Len(before) = 0
  <2>1. PICK none : none = SubSeq(forward, 1, 0)  OBVIOUS
  <2>2. Len(none) = 0  BY <1>1, <2>1
  <2>3. Good(input, before) /\ ToSet(before) = Nodes(none, 0)
    <3>1. Len(none) \in Nat /\ \A i \in 1..Len(none) : Good(input, none[i])  BY <2>2
    <3>2. before = Chained(none)  BY <1>2, <2>1
    <3>3. Good(input, before) /\ ToSet(before) = Nodes(none, Len(none))  BY <3>1, <3>2, ChainedFacts
    <3> QED  BY <2>2, <3>3
  <2>4. Nodes(none, 0) = {}  BY DEF Nodes
  <2>5. before \in Seq(Node)  BY <2>3 DEF Good
  <2>6. \A i \in 1..Len(before) : before[i] \in ToSet(before)  BY <2>5, SetOf
  <2> QED  BY <2>3, <2>4, <2>5, <2>6
<1>5. Good(input, after) /\ ToSet(after) = ToSet(forward[1])  BY <1>1, <1>2, ChainOfFirst
<1>6. b = after
  <2>1. after \in Seq(Node)  BY <1>5 DEF Good
  <2>2. b = SubSeq(after, 1, Len(after))  BY <1>3, <1>4
  <2>3. Len(after) \in 0..Len(after)  BY <2>1
  <2>4. b \in Seq(Node) /\ Len(b) = Len(after) /\ \A j \in 1..Len(after) : b[j] = after[j]
    BY <2>1, <2>2, <2>3, Started
  <2> QED  BY <2>1, <2>4, SeqEqual
<1> QED  BY <1>1, <1>5, <1>6, GoodInOrder DEF BackwardRight

\* The state of the chains: nothing but the variables needs a gradient until Compile.
ChainInv ==
  /\ GraphInv
  /\ stage # "build" => Len(targets) > 0
  /\ stage \in {"build", "item", "simplified"} => needGrad = {n \in Node : type[n] = "variable"}
  /\ stage = "compiled" => Compiled(forward, needGrad)
  /\ ChainsInOrder

LEMMA BelowSteady ==
  ASSUME type' = type, input' = input
  PROVE  \A S : Below(input, S)' = Below(input, S)
BY DEF Below, Along, Node, Numbers

LEMMA ChainInvStep ==
  ASSUME GraphConstants, ChainInv, [GraphNext]_graphVars
  PROVE  ChainInv'
<1>1. GraphInv /\ GraphInv'  BY GraphInvStep DEF ChainInv
<1>2. NodeTypes /\ Shape(input) /\ Acyclic(input)  BY <1>1, InvTypes DEF GraphInv
<1>3. CASE Create
  <2>1. PICK k \in Kind : /\ type' = Append(type, k)
                          /\ needGrad' = IF k = "variable" THEN needGrad \cup {Len(type) + 1} ELSE needGrad
    BY <1>3 DEF Create
  <2>2. stage = "build" /\ stage' = "build"  BY <1>3 DEF Create
  <2>3. PICK N \in Nat : N = Len(type) /\ Node = 1..N  BY <1>2, NodeFacts
  <2>4. Node' = 1..(N + 1) /\ type'[N + 1] = k /\ \A n \in 1..N : type'[n] = type[n]
    BY <1>2, <2>1, <2>3 DEF Node, NodeTypes
  <2>5. needGrad = {n \in 1..N : type[n] = "variable"}  BY <2>2, <2>3 DEF ChainInv
  <2>6. \A n : n \in 1..(N + 1) <=> n \in 1..N \/ n = N + 1  BY <2>3
  <2>7. needGrad' = {n \in 1..(N + 1) : type'[n] = "variable"}
    <3>1. \A n : n \in needGrad' <=> n \in 1..(N + 1) /\ type'[n] = "variable"
      BY <2>1, <2>3, <2>4, <2>5, <2>6
    <3> QED  BY <3>1
  <2>8. (needGrad = {n \in Node : type[n] = "variable"})'  BY <2>4, <2>7
  <2>9. ChainsInOrder'  BY <2>2 DEF ChainsInOrder
  <2> QED  BY <1>1, <2>2, <2>8, <2>9 DEF ChainInv
<1>4. CASE FromGraph
  <2>1. /\ stage = "build" /\ stage' = "item" /\ type' = type /\ needGrad' = needGrad
        /\ \E ts \in {<<Len(type)>>} \cup {<<n, Len(type)>> : n \in Node \ {Len(type)}} : targets' = ts
    BY <1>4 DEF FromGraph
  <2>2. Len(targets') > 0  BY <2>1
  <2>3. (needGrad = {n \in Node : type[n] = "variable"})'  BY <2>1 DEF ChainInv, Node
  <2>4. ChainsInOrder'  BY <2>1 DEF ChainsInOrder
  <2> QED  BY <1>1, <2>1, <2>2, <2>3, <2>4 DEF ChainInv
<1>5. ASSUME NEW reversed \in BOOLEAN, Cse(reversed) PROVE ChainInv'
  <2>1. /\ stage = "item" /\ stage' = "simplified" /\ type' = type
        /\ needGrad' = needGrad /\ targets' = targets
    BY <1>5 DEF Cse
  <2>2. (needGrad = {n \in Node : type[n] = "variable"})'  BY <2>1 DEF ChainInv, Node
  <2>3. ChainsInOrder'  BY <2>1 DEF ChainsInOrder
  <2>4. Len(targets') > 0  BY <2>1 DEF ChainInv
  <2> QED  BY <1>1, <2>1, <2>2, <2>3, <2>4 DEF ChainInv
<1>6. CASE Compile
  <2>1. /\ stage \in {"item", "simplified"} /\ stage' = "compiled"
        /\ UNCHANGED <<type, input, targets>>
        /\ forward' = [i \in DOMAIN targets |-> Visit(input, targets[i])]
        /\ needGrad' = Along([s \in Seq(Node) |-> [G \in SUBSET Node |-> Along(WithGrad, G, s)]],
                             needGrad, [i \in DOMAIN targets |-> Visit(input, targets[i])])
    BY <1>6 DEF Compile
  <2>2. PICK lists, G : lists = forward' /\ G = needGrad'  OBVIOUS
  <2>3. targets \in Seq(Node) /\ Len(targets) > 0  BY <1>1, <2>1 DEF GraphInv, ChainInv
  <2>4. needGrad = {n \in Node : type[n] = "variable"}  BY <2>1 DEF ChainInv
  <2>5. Compiled(lists, G)
    <3>1. lists = [i \in DOMAIN targets |-> Visit(input, targets[i])]  BY <2>1, <2>2
    <3>2. G = Along([s \in Seq(Node) |-> [K \in SUBSET Node |-> Along(WithGrad, K, s)]], needGrad, lists)
      BY <2>1, <2>2
    <3> QED  BY <1>2, <2>3, <2>4, <3>1, <3>2, CompileFacts
  <2>6. \A S : Below(input, S)' = Below(input, S)  BY <2>1, BelowSteady
  <2>7. Alive' = Alive  BY <2>1, <2>6 DEF Alive
  <2>8. Node' = Node /\ \A s : Good(input, s)' <=> Good(input, s)
    BY <2>1 DEF Node, Good, Distinct, Ordered
  <2>9. Compiled(forward, needGrad)'  BY <2>1, <2>2, <2>5, <2>6, <2>7, <2>8 DEF Compiled
  <2>10. ChainsInOrder'  BY <2>1 DEF ChainsInOrder
  <2> QED  BY <1>1, <2>1, <2>3, <2>9, <2>10 DEF ChainInv
<1>7. ASSUME NEW loss_index \in {-1, 0}, InitOp(loss_index) PROVE ChainInv'
  <2>1. /\ stage = "compiled" /\ UNCHANGED <<type, input, targets, needGrad>>
        /\ chain' = Chained(forward)
        /\ stage' = IF loss_index = -1 THEN "predict" ELSE "train"
    BY <1>7 DEF InitOp
  <2>2. PICK c, b : c = chain' /\ b = backward'  OBVIOUS
  <2>3. targets \in Seq(Node) /\ Len(targets) > 0 /\ Compiled(forward, needGrad)
    BY <1>1, <2>1 DEF GraphInv, ChainInv
  <2>4. ChainRight(c)  BY <1>2, <2>1, <2>2, <2>3, ChainFacts
  <2>5. loss_index = 0 => BackwardRight(b)
    <3> SUFFICES ASSUME loss_index = 0 PROVE BackwardRight(b)  OBVIOUS
    <3>1. b = LET before == Chained(SubSeq(forward, 1, 0))
                  after == Chained(SubSeq(forward, 1, 0 + 1))
              IN SubSeq(after, Len(before) + 1, Len(after))
      BY <1>7, <2>2 DEF InitOp
    <3> QED  BY <1>2, <2>3, <3>1, BackwardFacts
  <2>6. \A n \in Alive : n \in needGrad <=> \E v \in Below(input, {n}) : type[v] = "variable"
    BY <2>3 DEF Compiled
  <2>7. \A S : Below(input, S)' = Below(input, S)  BY <2>1, BelowSteady
  <2>8. Alive' = Alive  BY <2>1, <2>7 DEF Alive
  <2>9. stage' = "train" => loss_index = 0  BY <2>1
  <2>10. ChainsInOrder'
    BY <2>1, <2>2, <2>4, <2>5, <2>6, <2>7, <2>8, <2>9 DEF ChainsInOrder, ChainRight, BackwardRight
  <2> QED  BY <1>1, <2>1, <2>3, <2>10 DEF ChainInv
<1>8. CASE UNCHANGED graphVars
  <2>1. UNCHANGED <<stage, type, input, targets, forward, needGrad, chain, backward>>
    BY <1>8 DEF graphVars
  <2>2. \A S : Below(input, S)' = Below(input, S)  BY <2>1, BelowSteady
  <2>3. Alive' = Alive  BY <2>1, <2>2 DEF Alive
  <2>4. Node' = Node /\ \A s : Good(input, s)' <=> Good(input, s)
    BY <2>1 DEF Node, Good, Distinct, Ordered
  <2>5. Compiled(forward, needGrad)' <=> Compiled(forward, needGrad)
    BY <2>1, <2>2, <2>3, <2>4 DEF Compiled
  <2>6. ChainsInOrder' <=> ChainsInOrder  BY <2>1, <2>2, <2>3 DEF ChainsInOrder
  <2> QED  BY <1>1, <2>1, <2>4, <2>5, <2>6 DEF ChainInv
<1> QED  BY <1>3, <1>4, <1>5, <1>6, <1>7, <1>8 DEF GraphNext

\* Forward finds every input computed and runs every node once, Backward walks the nodes of the
\* loss, and a node needs a gradient exactly when there is a variable below it.
THEOREM ChainsAreInOrder ==
  ASSUME GraphConstants
  PROVE  GraphSpec => []ChainsInOrder
<1>1. ASSUME GraphInit PROVE ChainInv
  <2>1. stage = "build" /\ needGrad = {} /\ Node = {}  BY <1>1 DEF GraphInit, Node
  <2>2. GraphInv  BY <1>1, GraphInvInit
  <2> QED  BY <2>1, <2>2 DEF ChainInv, ChainsInOrder
<1>2. GraphInit => ChainInv  BY <1>1
<1>3. ChainInv /\ [GraphNext]_graphVars => ChainInv'  BY ChainInvStep
<1>4. ChainInv => ChainsInOrder  BY DEF ChainInv
<1> QED  BY <1>2, <1>3, <1>4, PTL DEF GraphSpec
=============================================================================
