--------------------------- MODULE DataflowGraphs ---------------------------
(***************************************************************************)
(* A function to evaluate: a sequence of nodes [op, args, number], each    *)
(* before those that read its tensor; args are positions, number is the    *)
(* value of a constant.  And what becomes of it when HESealExecutable      *)
(* compiles it: src/pass/he_fusion.cpp, and passes of nGraph.              *)
(***************************************************************************)
EXTENDS Integers, Sequences

Ids(g) == DOMAIN g
Of(g, op) == {i \in Ids(g) : g[i].op = op}
Args(node) == {node.args[n] : n \in DOMAIN node.args}
Readers(g, i) == {k \in Ids(g) : i \in Args(g[k])}

Arity(op) ==
  CASE op \in {"parameter", "constant"} -> 0
    [] op \in {"add", "multiply", "minimum"} -> 2
    [] OTHER -> 1

Operations == {"parameter", "constant", "add", "multiply", "minimum", "relu", "reshape", "result"}

\* Nodes read tensors of nodes before them, and none that is a result.
WellFormed(g) ==
  /\ g \in Seq([op: Operations, args: Seq(Nat), number: Int])
  /\ \A k \in Ids(g) : Len(g[k].args) = Arity(g[k].op)
  /\ \A k \in Ids(g) : Args(g[k]) \subseteq 1..(k - 1) \ Of(g, "result")

\* The number that each node of g stands for when w are the parameters' (external:
\* what nGraph says of its operations).
Meaning(g, w) ==
  LET v[i \in Ids(g)] ==
        LET x == v[g[i].args[1]]
            y == v[g[i].args[2]]
        IN  CASE g[i].op = "parameter" -> w[i]
              [] g[i].op = "constant"  -> g[i].number
              [] g[i].op = "add"       -> x + y
              [] g[i].op = "multiply"  -> x * y
              [] g[i].op = "minimum"   -> IF x < y THEN x ELSE y
              [] g[i].op = "relu"      -> IF x > 0 THEN x ELSE 0
              [] g[i].op \in {"reshape", "result"} -> x
  IN  v

-----------------------------------------------------------------------------
(* Compilation.                                                            *)

\* pass::Liveness (external): a tensor between nodes is obsolete after the last
\* node that reads it.
FreeList(g, k) ==
  {i \in Args(g[k]) : /\ g[i].op \notin {"parameter", "constant"}
                      /\ \A r \in Readers(g, i) : r <= k}

\* HEFusion::construct_bounded_relu: the minimum of a relu and a constant, in either
\* order,
FusedArg(g, k, op) == CHOOSE i \in Args(g[k]) : g[i].op = op
IsBoundedRelu(g, k) ==
  g[k].op = "minimum" /\ {g[i].op : i \in Args(g[k])} = {"relu", "constant"}

\* becomes a node of its own, with a tensor of its own.
NewId(g, k) == IF IsBoundedRelu(g, k) THEN Len(g) + k ELSE k

NewArgs(g, k) == [n \in DOMAIN g[k].args |-> NewId(g, g[k].args[n])]

\* Relus and constants that nothing else reads are gone.
Remains(g, k) ==
  \/ g[k].op \notin {"relu", "constant"}
  \/ \E r \in Readers(g, k) : ~IsBoundedRelu(g, r)

\* Liveness has run before HEFusion does: a new node frees nothing, and the lists
\* of others still name the tensors of nodes that are gone.
CompiledNode(g, k) ==
  IF IsBoundedRelu(g, k)
  THEN [id |-> NewId(g, k), op |-> "bounded_relu", args |-> NewArgs(g, FusedArg(g, k, "relu")),
        number |-> g[FusedArg(g, k, "constant")].number, free |-> {}]
  ELSE [id |-> k, op |-> g[k].op, args |-> NewArgs(g, k),
        number |-> g[k].number, free |-> FreeList(g, k)]

\* m_wrapped_nodes, by position: a new node takes the place of the minimum.
Compiled(g) == [k \in {k \in Ids(g) : Remains(g, k)} |-> CompiledNode(g, k)]

\* No node frees what a later one reads.
FreesSoundly(nodes) ==
  \A m, n \in DOMAIN nodes : m < n => nodes[m].free \cap Args(nodes[n]) = {}

\* The fusion does not ask for the sign of the bound; the bounded relu of a number
\* that is not above a negative bound is zero, where the minimum is the bound.
BoundsNotNegative(nodes) ==
  \A n \in DOMAIN nodes : nodes[n].op = "bounded_relu" => nodes[n].number >= 0
=============================================================================
