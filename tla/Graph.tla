-------------------------------- MODULE Graph -------------------------------
(***************************************************************************)
(* The life of a graph: nodes are created over nodes that exist, the       *)
(* graph of one or two targets may be simplified (of Simplify the common   *)
(* subexpression pass), Compile fixes the order of its nodes, and InitOp   *)
(* makes the chains that Forward and Backward walk.  A node is its number; *)
(* its attributes are equal when its kind is.                              *)
(***************************************************************************)
EXTENDS Integers, Sequences, SequencesExt, FiniteSets, FiniteSetsExt

CONSTANTS MaxNode,  \* bound: nodes of a graph
          Kind      \* the kinds of node that are created: among "variable",
                    \* "constant", "random", "dropout", "fun" (one input) and
                    \* "add" (two inputs, commutative)

\* What the constants may be.
GraphConstants ==
  MaxNode \in Nat /\ Kind \subseteq {"variable", "constant", "random", "dropout", "fun", "add"}

VARIABLES stage,    \* "build", "item" (targets are chosen), "simplified", "compiled",
                    \* "train" or "predict"
          type,     \* type_index() of each node
          input,    \* GraphNode::input_
          targets,  \* target_, the loss first
          original, \* history: the inputs before the pass
          forward,  \* GraphTarget::forward_ of each target
          needGrad, \* the nodes with need_grad_
          chain,    \* forward_chain_
          backward  \* backward_chain_

graphVars == <<stage, type, input, targets, original, forward, needGrad, chain, backward>>

Node == DOMAIN type
Arity(k) == CASE k \in {"variable", "constant", "random"} -> 0
              [] k \in {"fun", "dropout"} -> 1
              [] k = "add" -> 2

GraphInit ==
  /\ stage = "build" /\ type = <<>> /\ input = <<>>
  /\ targets = <<>> /\ original = <<>> /\ forward = <<>> /\ needGrad = {}
  /\ chain = <<>> /\ backward = <<>>

\* The constructor of a node.
Create ==
  /\ stage = "build" /\ Len(type) < MaxNode
  /\ \E k \in Kind : \E in \in [1..Arity(k) -> Node] :
       /\ type' = Append(type, k) /\ input' = Append(input, in)
       /\ needGrad' = IF k = "variable" THEN needGrad \cup {Len(type) + 1} ELSE needGrad
  /\ UNCHANGED <<stage, targets, original, forward, chain, backward>>

-----------------------------------------------------------------------------
(* Walks over the graph whose inputs are `in`.  The loops and recursions    *)
(* are functions, which can be reasoned about.                              *)

\* From a, the steps f[s[1]], f[s[2]], ..., f[s[Len(s)]].
Along(f, a, s) ==
  LET R[i \in 0..Len(s)] == IF i = 0 THEN a ELSE f[s[i]][R[i - 1]]
  IN R[Len(s)]

Numbers == [n \in Node |-> n]

\* The nodes that the set S depends on, with S: no way down is longer than the graph.
Below(in, S) ==
  Along([i \in Node |-> [X \in SUBSET Node |-> X \cup UNION {ToSet(in[n]) : n \in X}]], S, Numbers)

\* Mutant: a node is listed when it is reached, before its inputs.
VisitPreorder(in, n) ==
  LET V[d \in 0..Len(in)] ==
        [m \in Node |-> [seq \in Seq(Node) |->
          IF d = 0 \/ m \in ToSet(seq) THEN seq ELSE Along(V[d - 1], Append(seq, m), in[m])]]
  IN V[Len(in)][n][<<>>]

\* Graph::CompileTarget of a node, at most d deep: its inputs, then itself, each once.
Visit(in, n) ==
  LET V[d \in 0..Len(in)] ==
        [m \in Node |-> [seq \in Seq(Node) |->
          IF d = 0 \/ m \in ToSet(seq) THEN seq ELSE Append(Along(V[d - 1], seq, in[m]), m)]]
  IN V[Len(in)][n][<<>>]

\* The number of n among the names of S.
NameRank(S, n, reversed) == Cardinality({m \in S : IF reversed THEN m >= n ELSE m <= n})

\* By name; the names are in the order the nodes were made in, or reversed.
ByName(S, reversed) ==
  [i \in 1..Cardinality(S) |-> CHOOSE n \in S : NameRank(S, n, reversed) = i]

\* Mutant: the nodes in the order of their names only.
SortedByName(reversed) == ByName(Node, reversed)

\* The list, and the outputs of its node number `front` whose inputs are now all there, by name.
Listed(reversed) ==
  [front \in Node |-> [seq \in Seq(Node) |->
    IF front > Len(seq) THEN seq
    ELSE LET done == ToSet(SubSeq(seq, 1, front))
             ready == {o \in Node : seq[front] \in ToSet(input[o]) /\ ToSet(input[o]) \subseteq done}
         IN seq \o ByName(ready, reversed)]]

\* GetTopologicalSortedNodes: the nodes without inputs by name, then the outputs of each
\* node of the list.
TopologicalSorted(reversed) ==
  Along(Listed(reversed), ByName({n \in Node : input[n] = <<>>}, reversed), Numbers)

\* Mutant: random nodes are like any other.
IsEquivalentRandom(in, a, b) ==
  /\ type[a] = type[b] /\ type[a] # "variable"
  /\ \/ in[a] = in[b]
     \/ type[a] = "add" /\ in[a] = Reverse(in[b])

\* IsEquivalent.  Instances, variables and random nodes are equal to no
\* other; dropout nodes are not among the exceptions.
IsEquivalent(in, a, b) ==
  /\ type[a] = type[b] /\ type[a] \notin {"variable", "random"}
  /\ \/ in[a] = in[b]
     \/ type[a] = "add" /\ in[a] = Reverse(in[b])

\* What the turns in CSESimp::Simplify work on.
Pass == [in : [Node -> Seq(Node)], processed : SUBSET Node]

\* The turn of node a: the nodes that are not processed and that are equivalent to it
\* are replaced by it wherever they are an input.
Turn ==
  [a \in Node |-> [st \in Pass |->
    IF a \in st.processed \/ a \in ToSet(targets)
      THEN [st EXCEPT !.processed = @ \cup {a}]
      ELSE LET same == {b \in Node \ (st.processed \cup ToSet(targets) \cup {a}) :
                          IsEquivalent(st.in, a, b)}
           IN [in |-> [n \in Node |-> [k \in DOMAIN st.in[n] |->
                         IF st.in[n][k] \in same THEN a ELSE st.in[n][k]]],
               processed |-> st.processed \cup {a} \cup same]]]

-----------------------------------------------------------------------------

\* FromGraph: the targets are named; nodes that no target needs are not part
\* of the graph.
FromGraph ==
  /\ stage = "build" /\ Node # {}
  /\ \E ts \in {<<Len(type)>>} \cup {<<n, Len(type)>> : n \in Node \ {Len(type)}} :
       /\ Below(input, ToSet(ts)) = Node
       /\ targets' = ts
  /\ stage' = "item" /\ original' = input
  /\ UNCHANGED <<type, input, forward, needGrad, chain, backward>>

\* CSESimp::Simplify; what its Prune takes away is what Alive leaves out.
Cse(reversed) ==
  /\ stage = "item"
  /\ input' = Along(Turn, [in |-> input, processed |-> {}], TopologicalSorted(reversed)).in
  /\ stage' = "simplified"
  /\ UNCHANGED <<type, targets, original, forward, needGrad, chain, backward>>

\* SimpItem::Prune: what the targets still need.
Alive == Below(input, ToSet(targets))

\* A node one of whose inputs needs a gradient needs one.
WithGrad ==
  [n \in Node |-> [G \in SUBSET Node |->
    IF ToSet(input[n]) \cap G # {} THEN G \cup {n} ELSE G]]

\* Graph::Compile, of the graph as it was made or as ToGraph hands it over:
\* CompileTarget of each target.
Compile ==
  /\ stage \in {"item", "simplified"}
  /\ LET lists == [i \in DOMAIN targets |-> Visit(input, targets[i])] IN
     /\ forward' = lists
     /\ needGrad' = Along([s \in Seq(Node) |-> [G \in SUBSET Node |-> Along(WithGrad, G, s)]],
                          needGrad, lists)
  /\ stage' = "compiled"
  /\ UNCHANGED <<type, input, targets, original, chain, backward>>

\* An operator for a node that has none.
Once == [n \in Node |-> [c \in Seq(Node) |-> IF n \in ToSet(c) THEN c ELSE Append(c, n)]]

\* The operators for some targets, in their order.
Chained(lists) ==
  Along([s \in Seq(Node) |-> [c \in Seq(Node) |-> Along(Once, c, s)]], <<>>, lists)

\* OpContext::InitOp: an operator for each node of the targets, once; those
\* made for the loss, targets[loss_index + 1], are the backward chain too.
InitOp(loss_index) ==
  /\ stage = "compiled"
  /\ chain' = Chained(forward)
  /\ backward' =
       IF loss_index = -1 THEN <<>>
       ELSE LET before == Chained(SubSeq(forward, 1, loss_index))
                after == Chained(SubSeq(forward, 1, loss_index + 1))
            IN SubSeq(after, Len(before) + 1, Len(after))
  /\ stage' = IF loss_index = -1 THEN "predict" ELSE "train"
  /\ UNCHANGED <<type, input, targets, original, forward, needGrad>>

GraphNext ==
  \/ Create
  \/ FromGraph
  \/ \E reversed \in BOOLEAN : Cse(reversed)
  \/ Compile
  \/ \E loss_index \in {-1, 0} : InitOp(loss_index)

GraphSpec == GraphInit /\ [][GraphNext]_graphVars

-----------------------------------------------------------------------------
(* Properties. *)

\* What a node of the unsimplified graph computes: the first node that
\* computes the same.  Every draw of a random node or of a dropout mask is a
\* value of its own.
Args(m, n) ==
  LET x == [k \in DOMAIN original[n] |-> m[original[n][k]]]
  IN IF Len(x) = 2 /\ x[2] < x[1] THEN <<x[2], x[1]>> ELSE x

Named ==
  [n \in Node |-> [m \in Seq(Node) |->
    LET same == {a \in 1..(n - 1) :
                   /\ type[a] = type[n] /\ type[a] \notin {"variable", "random", "dropout"}
                   /\ Args(m, a) = Args(m, n)}
    IN Append(m, IF same = {} THEN n ELSE m[Min(same)])]]

Meaning == Along(Named, <<>>, Numbers)

\* Simplification changes no result: every node that is left gets inputs that
\* compute what its own inputs computed, so (by induction over the graph)
\* each target computes what it did.
TargetsKeepMeaning ==
  stage = "simplified" =>
    LET m == Meaning IN
    \A n \in Alive : \A k \in DOMAIN input[n] : m[input[n][k]] = m[original[n][k]]

\* One pass finds everything: of two nodes that are left and are no targets,
\* neither could still be replaced by the other.
OnePassIsEnough ==
  stage = "simplified" =>
    \A a, b \in Alive \ ToSet(targets) : a # b => ~IsEquivalent(input, a, b)

\* Forward finds every input computed and runs every node once; Backward
\* walks all the nodes of the loss, each before its inputs; and a node needs
\* a gradient exactly when there is a variable below it.
ChainsInOrder ==
  stage \in {"predict", "train"} =>
    /\ IsInjective(chain) /\ ToSet(chain) = Alive
    /\ \A i \in DOMAIN chain : ToSet(input[chain[i]]) \subseteq ToSet(SubSeq(chain, 1, i - 1))
    /\ stage = "train" => /\ ToSet(backward) = Below(input, {targets[1]})
                          /\ \A i \in DOMAIN backward :
                               ToSet(input[backward[i]]) \subseteq ToSet(SubSeq(backward, 1, i - 1))
    /\ \A n \in Alive : n \in needGrad <=> \E v \in Below(input, {n}) : type[v] = "variable"
=============================================================================
