------------------------ MODULE GraphExecution_proofs ------------------------
(***************************************************************************)
(* call() finds every argument of every node in tensor_map, for every      *)
(* graph whose free lists are sound once it has been compiled; and, where  *)
(* it meets nothing that the code is known to be wrong on, it gives the    *)
(* function of its inputs to every output it has mapped, and leaves its    *)
(* inputs what their caller has written, whatever it shares and changes    *)
(* in place.  Nor does it throw, on inputs that no call has used, where    *)
(* the modulus has a level for each multiplication.                        *)
(***************************************************************************)
EXTENDS GraphExecution, Elements_proofs, FiniteSetTheorems

-----------------------------------------------------------------------------
(* Compiled graphs.                                                        *)

\* Compilation keeps the places of the nodes.
LEMMA CompiledDomain ==
  ASSUME NEW g, WellFormed(g)
  PROVE  /\ DOMAIN Compiled(g) \subseteq Ids(g)
         /\ Ids(g) = 1..Len(g) /\ Len(g) \in Nat
         /\ \A k \in DOMAIN Compiled(g) : Compiled(g)[k] = CompiledNode(g, k)
BY DEF WellFormed, Compiled, Ids

\* A node of a function, and its arguments.
LEMMA NodeParts ==
  ASSUME NEW g, WellFormed(g), NEW i \in Ids(g)
  PROVE  /\ g[i].op \in Operations /\ g[i].number \in Int
         /\ DOMAIN g[i].args = 1..Arity(g[i].op)
         /\ \A n \in DOMAIN g[i].args :
              /\ g[i].args[n] \in Args(g[i])
              /\ g[i].args[n] \in Ids(g) /\ g[i].args[n] < i
              /\ g[g[i].args[n]].op # "result"
<1> DEFINE Node1 == [op: Operations, args: Seq(Nat), number: Int]
<1>1. g[i] \in Node1 /\ Len(g) \in Nat /\ Ids(g) = 1..Len(g)
  <2>1. g \in Seq(Node1)
    BY DEF WellFormed
  <2> HIDE DEF Node1
  <2>2. QED BY <2>1, LenProperties, ElementOfSeq DEF Ids
<1>2. DOMAIN g[i].args = 1..Arity(g[i].op)
  BY <1>1 DEF WellFormed
<1>3. ASSUME NEW n \in DOMAIN g[i].args
      PROVE  /\ g[i].args[n] \in Args(g[i])
             /\ g[i].args[n] \in Ids(g) /\ g[i].args[n] < i
             /\ g[g[i].args[n]].op # "result"
  <2>1. g[i].args[n] \in Args(g[i])
    BY DEF Args
  <2>2. g[i].args[n] \in 1..(i - 1) /\ g[i].args[n] \notin Of(g, "result")
    BY <2>1 DEF WellFormed
  <2>3. g[i].args[n] \in Ids(g) /\ g[i].args[n] < i
    BY <1>1, <2>2
  <2>4. QED BY <2>1, <2>2, <2>3 DEF Of
<1>4. QED BY <1>1, <1>2, <1>3

\* The relu and the bound that a minimum is fused with.
LEMMA FusedArgs ==
  ASSUME NEW g, WellFormed(g), NEW n \in Ids(g), IsBoundedRelu(g, n)
  PROVE  LET a == FusedArg(g, n, "relu")
             b == FusedArg(g, n, "constant")
         IN  /\ g[n].op = "minimum"
             /\ a \in Ids(g) /\ a < n /\ g[a].op = "relu"
             /\ b \in Ids(g) /\ b < n /\ g[b].op = "constant"
             /\ \/ g[n].args[1] = a /\ g[n].args[2] = b
                \/ g[n].args[1] = b /\ g[n].args[2] = a
<1> DEFINE a == FusedArg(g, n, "relu")
           b == FusedArg(g, n, "constant")
<1>1. g[n].op = "minimum" /\ {g[i].op : i \in Args(g[n])} = {"relu", "constant"}
  BY DEF IsBoundedRelu
<1>2. a \in Args(g[n]) /\ g[a].op = "relu" /\ b \in Args(g[n]) /\ g[b].op = "constant"
  <2>1. \E i \in Args(g[n]) : g[i].op = "relu"
    BY <1>1
  <2>2. \E i \in Args(g[n]) : g[i].op = "constant"
    BY <1>1
  <2>3. QED BY <2>1, <2>2 DEF FusedArg
<1>3. DOMAIN g[n].args = 1..2
  BY <1>1, NodeParts DEF Arity
<1> HIDE DEF a, b
<1>4. PICK k \in 1..2 : a = g[n].args[k]
  BY <1>2, <1>3 DEF Args
<1>5. PICK l \in 1..2 : b = g[n].args[l]
  BY <1>2, <1>3 DEF Args
<1>6. k # l
  BY <1>2, <1>4, <1>5
<1>7. a \in Ids(g) /\ a < n /\ b \in Ids(g) /\ b < n
  BY <1>3, <1>4, <1>5, NodeParts
<1>8. \/ g[n].args[1] = a /\ g[n].args[2] = b
      \/ g[n].args[1] = b /\ g[n].args[2] = a
  BY <1>4, <1>5, <1>6
<1>9. QED BY <1>1, <1>2, <1>7, <1>8 DEF a, b

\* The arguments of a node that reads what node x of the function has read.
LEMMA NewArgsUnread ==
  ASSUME NEW g, WellFormed(g), NEW x \in Ids(g), NEW r \in Ids(g), g[r].op = "result"
  PROVE  \A n \in DOMAIN NewArgs(g, x) : NewArgs(g, x)[n] # r
<1> SUFFICES ASSUME NEW n \in DOMAIN g[x].args
             PROVE  NewId(g, g[x].args[n]) # r
  BY DEF NewArgs
<1> DEFINE a == g[x].args[n]
<1>1. a \in Args(g[x])
  BY DEF Args
<1>2. a \in 1..(x - 1) /\ a \notin Of(g, "result")
  BY <1>1 DEF WellFormed
<1>3. Ids(g) = 1..Len(g) /\ Len(g) \in Nat
  BY CompiledDomain
<1>4. a # r
  BY <1>2 DEF Of
<1>5. Len(g) + a # r
  BY <1>2, <1>3
<1>6. QED BY <1>4, <1>5 DEF NewId

\* No compiled node reads a result.
LEMMA ResultsUnread ==
  ASSUME NEW g, WellFormed(g), NEW k \in DOMAIN Compiled(g),
         NEW r \in Ids(g), g[r].op = "result"
  PROVE  r \notin Args(Compiled(g)[k])
<1>1. k \in Ids(g) /\ Compiled(g)[k] = CompiledNode(g, k)
  BY CompiledDomain
<1>2. PICK x \in Ids(g) : CompiledNode(g, k).args = NewArgs(g, x)
  <2>1. CASE IsBoundedRelu(g, k)
    <3>1. FusedArg(g, k, "relu") \in Ids(g)
      BY <1>1, <2>1, FusedArgs
    <3>2. CompiledNode(g, k).args = NewArgs(g, FusedArg(g, k, "relu"))
      BY <2>1 DEF CompiledNode
    <3>3. QED BY <3>1, <3>2
  <2>2. CASE ~IsBoundedRelu(g, k)
    BY <1>1, <2>2 DEF CompiledNode
  <2>3. QED BY <2>1, <2>2
<1>3. QED BY <1>1, <1>2, NewArgsUnread DEF Args

\* Parameters and results keep their names.
LEMMA NamesKept ==
  ASSUME NEW g, WellFormed(g), NEW k \in DOMAIN Compiled(g),
         Compiled(g)[k].op \in {"parameter", "result"}
  PROVE  k \in Ids(g) /\ Compiled(g)[k].id = k /\ g[k].op = Compiled(g)[k].op
<1>1. k \in Ids(g) /\ Compiled(g)[k] = CompiledNode(g, k)
  BY CompiledDomain
<1>2. ~IsBoundedRelu(g, k)
  BY <1>1 DEF CompiledNode
<1>3. QED BY <1>1, <1>2 DEF CompiledNode

-----------------------------------------------------------------------------
(* Every argument of a node is found.                                      *)

MapInv ==
  /\ function \in Graphs
  /\ nodes = Compiled(function)
  /\ FreesSoundly(nodes)
  /\ at = "nodes" => next \in DOMAIN nodes
  /\ ArgumentsInMap

\* It holds at first.
LEMMA InitMap == KnownDefects = FALSE /\ Init => MapInv
BY DEF Init, MapInv, ArgumentsInMap

\* What the invariant is about does not change.
LEMMA MapInvFrame ==
  ASSUME MapInv,
         function' = function, nodes' = nodes,
         at' # "nodes" \/ (at' = at /\ next' = next /\ tensorMap' = tensorMap)
  PROVE  MapInv'
BY DEF MapInv, ArgumentsInMap, Parameters

\* The first node begins with the parameters only.
LEMMA BeginMap == MapInv /\ Begin => MapInv'
<1> SUFFICES ASSUME MapInv, Begin PROVE MapInv' OBVIOUS
<1>1. function' = function /\ nodes' = nodes /\ tensorMap' = tensorMap
  BY DEF Begin, configVars
<1>2. PICK f \in DOMAIN nodes : next' = f /\ \A m \in DOMAIN nodes : f <= m
  BY DEF Begin, GoToFirst
<1>3. \A m \in DOMAIN nodes : m \in Int
  BY CompiledDomain, GraphsAssumption DEF MapInv
<1>4. \A m \in DOMAIN nodes : ~(m < next')
  BY <1>2, <1>3
<1>5. Parameters \subseteq DOMAIN tensorMap
  BY DEF Begin
<1>6. ArgumentsInMap'
  BY <1>1, <1>4, <1>5 DEF ArgumentsInMap, Parameters
<1>7. QED BY <1>1, <1>2, <1>6 DEF MapInv

\* On to the next node, when the present one has its tensor in map or has none that
\* another reads.
LEMMA AdvanceMap ==
  ASSUME MapInv, at = "nodes", NEW map, Advance(map),
         DOMAIN tensorMap \subseteq DOMAIN map,
         Node.op \in {"parameter", "result"} \/ Node.id \in DOMAIN map
  PROVE  MapInv'
<1>1. function' = function /\ nodes' = nodes
  BY DEF Advance, configVars
<1>2. WellFormed(function) /\ nodes = Compiled(function) /\ next \in DOMAIN nodes
  BY GraphsAssumption DEF MapInv
<1>3. \A m \in DOMAIN nodes : m \in Int
  BY <1>2, CompiledDomain
<1>4. CASE at' # "nodes"
  BY <1>1, <1>4, MapInvFrame
<1>5. CASE at' = "nodes"
  <2>1. PICK f \in {n \in DOMAIN nodes : n > next} :
          next' = f /\ \A m \in {n \in DOMAIN nodes : n > next} : f <= m
    BY <1>5 DEF Advance, GoToFirst
  <2>2. DOMAIN tensorMap' = DOMAIN map \ Node.free
    BY DEF Advance, Freed
  <2>3. ASSUME NEW n \in DOMAIN nodes, n >= next', NEW k \in Args(nodes[n]),
               k \in Parameters \/ (\E m \in DOMAIN nodes : m < next' /\ nodes[m].id = k)
        PROVE  k \in DOMAIN tensorMap'
    <3>1. n > next /\ n >= next
      BY <1>2, <1>3, <2>1, <2>3
    <3>2. k \notin Node.free
      BY <1>2, <3>1 DEF MapInv, FreesSoundly, Node
    <3>3. CASE k \in Parameters \/ (\E m \in DOMAIN nodes : m < next /\ nodes[m].id = k)
      <4>1. k \in DOMAIN tensorMap
        BY <3>1, <3>3 DEF MapInv, ArgumentsInMap
      <4>2. QED BY <4>1, <3>2, <2>2
    <3>4. CASE \E m \in DOMAIN nodes : ~(m < next) /\ m < next' /\ nodes[m].id = k
      <4>1. PICK m \in DOMAIN nodes : ~(m < next) /\ m < next' /\ nodes[m].id = k
        BY <3>4
      <4>2. m = next
        BY <1>2, <1>3, <2>1, <4>1
      <4>3. Node.id = k
        BY <4>1, <4>2 DEF Node
      <4>4. CASE Node.op = "parameter"
        <5>1. k \in Parameters
          BY <1>2, <4>3, <4>4, NamesKept DEF Node, Parameters, Of
        <5>2. QED BY <5>1, <3>3
      <4>5. CASE Node.op = "result"
        <5>1. k \in Ids(function) /\ function[k].op = "result"
          BY <1>2, <4>3, <4>5, NamesKept DEF Node
        <5>2. k \notin Args(nodes[n])
          BY <1>2, <5>1, ResultsUnread
        <5>3. QED BY <5>2
      <4>6. CASE Node.id \in DOMAIN map
        BY <4>3, <4>6, <3>2, <2>2
      <4>7. QED BY <4>4, <4>5, <4>6
    <3>5. QED BY <2>3, <3>3, <3>4
  <2>4. ArgumentsInMap'
    BY <1>1, <2>3 DEF ArgumentsInMap, Parameters
  <2>5. QED BY <1>1, <2>1, <2>4 DEF MapInv
<1>6. QED BY <1>4, <1>5

\* A node that computes or moves inserts its tensor.
LEMMA InsertedDomain ==
  ASSUME NEW id, NEW tensor
  PROVE  DOMAIN tensorMap \subseteq DOMAIN Inserted(id, tensor) /\ id \in DOMAIN Inserted(id, tensor)
BY DEF Inserted

\* A call that fails leaves tensor_map alone.
LEMMA FailMap == ASSUME MapInv, NEW why, Fail(why) PROVE MapInv'
BY MapInvFrame DEF Fail, configVars, callVars

\* A parameter is in the map already.
LEMMA SkipParameterMap == MapInv /\ SkipParameter => MapInv'
BY AdvanceMap DEF SkipParameter, Running

\* A node that computes inserts its tensor.
LEMMA ComputeMap == MapInv /\ Compute => MapInv'
<1> SUFFICES ASSUME MapInv, Compute PROVE MapInv' OBVIOUS
<1>1. CASE \E why : Fail(why)
  BY <1>1, FailMap
<1>2. CASE Advance(Inserted(Node.id, [cipher |-> Kernel[3].cipher, at |-> New]))
  BY <1>2, AdvanceMap, InsertedDomain DEF Compute, Running
<1>3. QED BY <1>1, <1>2 DEF Compute

\* So does one that moves.
LEMMA ReshapeMap == MapInv /\ Reshape => MapInv'
<1> SUFFICES ASSUME MapInv, Reshape PROVE MapInv' OBVIOUS
<1>1. CASE \E why : Fail(why)
  BY <1>1, FailMap
<1>2. CASE \E out : Advance(Inserted(Node.id, out))
  BY <1>2, AdvanceMap, InsertedDomain DEF Reshape, Running
<1>3. QED BY <1>1, <1>2 DEF Reshape

\* A result inserts none, and none is read.
LEMMA ResultMap == MapInv /\ Result1 => MapInv'
<1> SUFFICES ASSUME MapInv, Result1 PROVE MapInv' OBVIOUS
<1>1. CASE \E why : Fail(why)
  BY <1>1, FailMap
<1>2. CASE Advance(tensorMap)
  BY <1>2, AdvanceMap DEF Result1, Running
<1>3. QED BY <1>1, <1>2 DEF Result1

\* No node is left to run.
LEMMA ReturnMap == MapInv /\ Return => MapInv'
<1> SUFFICES ASSUME MapInv, Return PROVE MapInv' OBVIOUS
<1>1. CASE \E why : Fail(why)
  BY <1>1, FailMap
<1>2. CASE at' = "idle" /\ UNCHANGED configVars
  BY <1>2, MapInvFrame DEF configVars
<1>3. QED BY <1>1, <1>2 DEF Return, configVars

\* Every step keeps it.
LEMMA NextMap == MapInv /\ [Next]_vars => MapInv'
<1> SUFFICES ASSUME MapInv, [Next]_vars PROVE MapInv' OBVIOUS
<1>1. CASE \E i \in Parameters, v \in Numbers : Write(i, v)
  BY <1>1, MapInvFrame DEF Write, configVars
<1>2. CASE Call
  BY <1>2, MapInvFrame DEF Call, configVars
<1>3. CASE \E i \in Parameters : MapParameter(i)
  BY <1>3, FailMap, MapInvFrame DEF MapParameter, configVars
<1>4. CASE UNCHANGED vars
  BY <1>4, MapInvFrame DEF vars, configVars, callVars
<1>5. QED
  BY <1>1, <1>2, <1>3, <1>4, BeginMap, SkipParameterMap, ComputeMap, ReshapeMap, ResultMap,
     ReturnMap DEF Next, Finished

-----------------------------------------------------------------------------
\* Every argument of a node still to run that has been made is in tensor_map, in
\* every call on every graph whose free lists, which are from before the fusion,
\* are sound for the nodes that the fusion has left.
THEOREM ArgumentsInMapThm == KnownDefects = FALSE => (Spec => []ArgumentsInMap)
<1> SUFFICES ASSUME KnownDefects = FALSE PROVE Spec => []ArgumentsInMap OBVIOUS
<1>1. Init => MapInv
  BY InitMap
<1>2. MapInv /\ [Next]_vars => MapInv'
  BY NextMap
<1>3. MapInv => ArgumentsInMap
  BY DEF MapInv
<1>4. QED BY <1>1, <1>2, <1>3, PTL DEF Spec

-----------------------------------------------------------------------------
(* What the nodes of a graph mean.                                         *)

\* The number of node i when v are those of the nodes.
ValueIn(g, w, v, i) ==
  LET x == v[g[i].args[1]]
      y == v[g[i].args[2]]
  IN  CASE g[i].op = "parameter" -> w[i]
        [] g[i].op = "constant"  -> g[i].number
        [] g[i].op = "add"       -> x + y
        [] g[i].op = "multiply"  -> x * y
        [] g[i].op = "minimum"   -> IF x < y THEN x ELSE y
        [] g[i].op = "relu"      -> IF x > 0 THEN x ELSE 0
        [] g[i].op \in {"reshape", "result"} -> x

Evaluates(g, w, v) == v = [i \in Ids(g) |-> ValueIn(g, w, v, i)]

\* It is decided by the numbers of its arguments.
LEMMA ValueLocal ==
  ASSUME NEW g, WellFormed(g), NEW w, NEW i \in Ids(g), NEW u, NEW v,
         \A n \in DOMAIN g[i].args : u[g[i].args[n]] = v[g[i].args[n]]
  PROVE  ValueIn(g, w, u, i) = ValueIn(g, w, v, i)
<1>1. g[i].op \in Operations /\ DOMAIN g[i].args = 1..Arity(g[i].op)
  BY NodeParts
<1>2. CASE g[i].op \in {"parameter", "constant"}
  BY <1>2 DEF ValueIn
<1>3. CASE g[i].op \in {"add", "multiply", "minimum"}
  <2>1. 1 \in DOMAIN g[i].args /\ 2 \in DOMAIN g[i].args
    BY <1>1, <1>3 DEF Arity
  <2>2. u[g[i].args[1]] = v[g[i].args[1]] /\ u[g[i].args[2]] = v[g[i].args[2]]
    BY <2>1
  <2>3. QED BY <2>2 DEF ValueIn
<1>4. CASE g[i].op \in {"relu", "reshape", "result"}
  <2>1. 1 \in DOMAIN g[i].args
    BY <1>1, <1>4 DEF Arity
  <2>2. u[g[i].args[1]] = v[g[i].args[1]]
    BY <2>1
  <2>3. QED BY <1>4, <2>2 DEF ValueIn
<1>5. QED BY <1>1, <1>2, <1>3, <1>4 DEF Operations

\* The numbers of the nodes exist, one after the other.
LEMMA ValuesExist ==
  ASSUME NEW g, WellFormed(g), NEW w
  PROVE  \E v : Evaluates(g, w, v)
<1> DEFINE UpTo(n, v) == v = [i \in 1..n |-> ValueIn(g, w, v, i)]
           T == {n \in Nat : n <= Len(g) /\ ~\E v : UpTo(n, v)}
<1>1. Len(g) \in Nat /\ Ids(g) = 1..Len(g)
  BY DEF WellFormed, Ids
<1>2. T = {}
  <2> SUFFICES ASSUME T # {} PROVE FALSE
    OBVIOUS
  <2>1. PICK n \in T : \A m \in T : n <= m
    BY LeastNumber
  <2>2. n # 0
    <3>1. UpTo(0, [i \in 1..0 |-> ValueIn(g, w, <<>>, i)])
      OBVIOUS
    <3>2. QED BY <2>1, <3>1
  <2>3. n - 1 \in Nat /\ n - 1 \notin T /\ n - 1 <= Len(g)
    BY <1>1, <2>1, <2>2
  <2>4. PICK v : UpTo(n - 1, v)
    BY <2>3
  <2> DEFINE u == [i \in 1..n |-> ValueIn(g, w, v, i)]
  <2>5. ASSUME NEW i \in 1..n PROVE ValueIn(g, w, v, i) = ValueIn(g, w, u, i)
    <3>1. i \in Ids(g)
      BY <1>1, <2>1
    <3>2. ASSUME NEW k \in DOMAIN g[i].args PROVE v[g[i].args[k]] = u[g[i].args[k]]
      <4>1. g[i].args[k] \in Ids(g) /\ g[i].args[k] < i
        BY <3>1, NodeParts
      <4>2. g[i].args[k] \in 1..(n - 1) /\ g[i].args[k] \in 1..n
        BY <1>1, <2>1, <4>1
      <4>3. QED BY <2>4, <4>2
    <3> HIDE DEF u
    <3>3. QED BY <3>1, <3>2, ValueLocal
  <2>6. UpTo(n, u)
    BY <2>5
  <2>7. QED BY <2>1, <2>6
<1>3. \E v : UpTo(Len(g), v)
  BY <1>1, <1>2
<1>4. QED BY <1>1, <1>3 DEF Evaluates

\* So what Meaning chooses are the numbers of the nodes.
LEMMA MeaningEvaluates ==
  ASSUME NEW g, WellFormed(g), NEW w
  PROVE  \A i \in Ids(g) : Meaning(g, w)[i] = ValueIn(g, w, Meaning(g, w), i)
<1>1. Meaning(g, w) = CHOOSE v : Evaluates(g, w, v)
  BY Zenon DEF Meaning, Evaluates, ValueIn
<1>2. Evaluates(g, w, Meaning(g, w))
  BY <1>1, ValuesExist
<1>3. QED BY <1>2 DEF Evaluates

-----------------------------------------------------------------------------
(* What compiled nodes mean.                                               *)

\* The node that a tensor is named after: a fused node means what the minimum did
\* in whose place it is.
Original(g, k) == IF k > Len(g) THEN k - Len(g) ELSE k
MeaningOf(g, w, k) == Meaning(g, w)[Original(g, k)]

\* Which node of the function has the arguments of a compiled node.
LEMMA CompiledNodeArgs ==
  ASSUME NEW g, WellFormed(g), NEW n \in DOMAIN Compiled(g)
  PROVE  LET nd == Compiled(g)[n]
         IN  \/ /\ ~IsBoundedRelu(g, n) /\ n \in Ids(g)
                /\ nd.op = g[n].op /\ nd.number = g[n].number
                /\ nd.args = NewArgs(g, n) /\ nd.id = n
             \/ /\ IsBoundedRelu(g, n) /\ n \in Ids(g)
                /\ nd.op = "bounded_relu" /\ nd.id = Len(g) + n
                /\ nd.number = g[FusedArg(g, n, "constant")].number
                /\ nd.args = NewArgs(g, FusedArg(g, n, "relu"))
<1>1. n \in Ids(g) /\ Compiled(g)[n] = CompiledNode(g, n)
  BY CompiledDomain
<1>2. CASE IsBoundedRelu(g, n)
  BY <1>1, <1>2 DEF CompiledNode, NewId
<1>3. CASE ~IsBoundedRelu(g, n)
  BY <1>1, <1>3 DEF CompiledNode
<1>4. QED BY <1>2, <1>3

\* New names are of the same nodes.
LEMMA NewArgsParts ==
  ASSUME NEW g, WellFormed(g), NEW x \in Ids(g)
  PROVE  /\ DOMAIN NewArgs(g, x) = 1..Arity(g[x].op)
         /\ \A k \in DOMAIN NewArgs(g, x) :
              /\ NewArgs(g, x)[k] \in Nat
              /\ Original(g, NewArgs(g, x)[k]) = g[x].args[k]
<1>1. DOMAIN NewArgs(g, x) = DOMAIN g[x].args /\ DOMAIN g[x].args = 1..Arity(g[x].op)
  BY NodeParts DEF NewArgs
<1>2. ASSUME NEW k \in DOMAIN NewArgs(g, x)
      PROVE  /\ NewArgs(g, x)[k] \in Nat
             /\ Original(g, NewArgs(g, x)[k]) = g[x].args[k]
  <2>1. g[x].args[k] \in 1..Len(g) /\ Len(g) \in Nat
    BY <1>1, NodeParts, CompiledDomain
  <2>2. NewArgs(g, x)[k] = NewId(g, g[x].args[k])
    BY <1>1 DEF NewArgs
  <2>3. QED BY <2>1, <2>2 DEF NewId, Original
<1>3. QED BY <1>1, <1>2

\* The names, numbers and arguments of compiled nodes.
LEMMA CompiledParts ==
  ASSUME NEW g, WellFormed(g), NEW n \in DOMAIN Compiled(g)
  PROVE  LET nd == Compiled(g)[n]
         IN  /\ nd.op \in Operations \cup {"bounded_relu"}
             /\ nd.number \in Int
             /\ nd.id \in Nat \ {0} /\ Original(g, nd.id) = n
             /\ nd.op # "bounded_relu" => nd.id = n /\ g[n].op = nd.op
             /\ DOMAIN nd.args = 1..Arity(nd.op)
<1> DEFINE nd == Compiled(g)[n]
<1>1. n \in 1..Len(g) /\ Len(g) \in Nat /\ n \in Ids(g)
  BY CompiledDomain
<1>2. CASE /\ ~IsBoundedRelu(g, n) /\ n \in Ids(g)
           /\ nd.op = g[n].op /\ nd.number = g[n].number
           /\ nd.args = NewArgs(g, n) /\ nd.id = n
  <2>1. nd.op \in Operations /\ nd.number \in Int
    BY <1>2, NodeParts
  <2>2. nd.id \in Nat \ {0} /\ Original(g, nd.id) = n
    BY <1>1, <1>2 DEF Original
  <2>3. DOMAIN nd.args = 1..Arity(nd.op)
    BY <1>2, NewArgsParts
  <2>4. QED BY <1>2, <2>1, <2>2, <2>3
<1>3. CASE /\ IsBoundedRelu(g, n) /\ n \in Ids(g)
           /\ nd.op = "bounded_relu" /\ nd.id = Len(g) + n
           /\ nd.number = g[FusedArg(g, n, "constant")].number
           /\ nd.args = NewArgs(g, FusedArg(g, n, "relu"))
  <2>1. /\ nd.number \in Int
        /\ FusedArg(g, n, "relu") \in Ids(g) /\ g[FusedArg(g, n, "relu")].op = "relu"
    BY <1>3, FusedArgs, NodeParts
  <2>2. nd.id \in Nat \ {0} /\ Original(g, nd.id) = n
    BY <1>1, <1>3 DEF Original
  <2>3. DOMAIN nd.args = 1..Arity("relu")
    BY <1>3, <2>1, NewArgsParts
  <2>4. Arity("relu") = Arity("bounded_relu")
    BY DEF Arity
  <2>5. QED BY <1>3, <2>1, <2>2, <2>3, <2>4
<1>4. QED BY <1>2, <1>3, CompiledNodeArgs

\* No two compiled nodes have one name.
LEMMA NamesDiffer ==
  ASSUME NEW g, WellFormed(g), NEW m \in DOMAIN Compiled(g), NEW n \in DOMAIN Compiled(g),
         Compiled(g)[m].id = Compiled(g)[n].id
  PROVE  m = n
BY CompiledParts

\* The number v of a compiled node, from those of its arguments.
NodeValue(nd, w, v, x, y) ==
  /\ nd.op = "parameter" => v = w[nd.id]
  /\ nd.op = "constant" => v = nd.number
  /\ nd.op = "add" => v = x + y
  /\ nd.op = "multiply" => v = x * y
  /\ nd.op = "minimum" => v = IF x < y THEN x ELSE y
  /\ nd.op = "relu" => v = Relu(x)
  /\ nd.op = "bounded_relu" /\ x \in Int => v = IF Relu(x) < nd.number THEN Relu(x) ELSE nd.number
  /\ nd.op \in {"reshape", "result"} => v = x

\* A compiled node makes of its arguments what its node of the function means.
LEMMA CompiledMeans ==
  ASSUME NEW g, WellFormed(g), NEW w, NEW n \in DOMAIN Compiled(g)
  PROVE  NodeValue(Compiled(g)[n], w, MeaningOf(g, w, Compiled(g)[n].id),
                   MeaningOf(g, w, Compiled(g)[n].args[1]), MeaningOf(g, w, Compiled(g)[n].args[2]))
<1> DEFINE nd == Compiled(g)[n]
           v == MeaningOf(g, w, nd.id)
           x == MeaningOf(g, w, nd.args[1])
           y == MeaningOf(g, w, nd.args[2])
           M == Meaning(g, w)
<1> SUFFICES NodeValue(nd, w, v, x, y)
  OBVIOUS
<1>1. n \in Ids(g) /\ Original(g, nd.id) = n /\ nd.op \in Operations \cup {"bounded_relu"}
  BY CompiledParts, CompiledDomain
<1>2. v = M[n] /\ M[n] = ValueIn(g, w, M, n)
  BY <1>1, MeaningEvaluates DEF MeaningOf
<1>3. CASE /\ ~IsBoundedRelu(g, n) /\ n \in Ids(g)
           /\ nd.op = g[n].op /\ nd.number = g[n].number
           /\ nd.args = NewArgs(g, n) /\ nd.id = n
  <2>1. g[n].op # "bounded_relu"
    BY <1>3, NodeParts DEF Operations
  <2>2. CASE g[n].op \in {"parameter", "constant"}
    BY <1>2, <1>3, <2>2 DEF ValueIn, NodeValue
  <2>3. CASE g[n].op \in {"add", "multiply", "minimum"}
    <3>1. 1 \in DOMAIN nd.args /\ 2 \in DOMAIN nd.args
      BY <1>3, <2>3, NewArgsParts DEF Arity
    <3>2. x = M[g[n].args[1]] /\ y = M[g[n].args[2]]
      BY <1>3, <3>1, NewArgsParts DEF MeaningOf
    <3> HIDE DEF v, x, y, M
    <3>3. QED BY <1>2, <1>3, <2>3, <3>2 DEF ValueIn, NodeValue
  <2>4. CASE g[n].op \in {"relu", "reshape", "result"}
    <3>1. 1 \in DOMAIN nd.args
      BY <1>3, <2>4, NewArgsParts DEF Arity
    <3>2. x = M[g[n].args[1]]
      BY <1>3, <3>1, NewArgsParts DEF MeaningOf
    <3> HIDE DEF v, x, y, M
    <3>3. QED BY <1>2, <1>3, <2>4, <3>2 DEF ValueIn, Relu, NodeValue
  <2>5. g[n].op \in Operations
    BY <1>1, NodeParts
  <2> HIDE DEF v, x, y, M
  <2>6. QED BY <1>3, <2>1, <2>2, <2>3, <2>4, <2>5 DEF Operations
<1>4. CASE /\ IsBoundedRelu(g, n) /\ n \in Ids(g)
           /\ nd.op = "bounded_relu" /\ nd.id = Len(g) + n
           /\ nd.number = g[FusedArg(g, n, "constant")].number
           /\ nd.args = NewArgs(g, FusedArg(g, n, "relu"))
  <2> DEFINE a == FusedArg(g, n, "relu")
             b == FusedArg(g, n, "constant")
  <2>1. /\ g[n].op = "minimum"
        /\ a \in Ids(g) /\ g[a].op = "relu" /\ b \in Ids(g) /\ g[b].op = "constant"
        /\ \/ g[n].args[1] = a /\ g[n].args[2] = b
           \/ g[n].args[1] = b /\ g[n].args[2] = a
    BY <1>4, FusedArgs
  <2>2. nd.args = NewArgs(g, a) /\ nd.number = g[b].number /\ nd.number \in Int
    BY <1>4, <2>1, NodeParts
  <2> HIDE DEF a, b
  <2>3. M[a] = ValueIn(g, w, M, a) /\ M[b] = ValueIn(g, w, M, b)
    BY <2>1, MeaningEvaluates
  <2>4. M[b] = nd.number
    BY <2>1, <2>2, <2>3 DEF ValueIn
  <2>5. 1 \in DOMAIN nd.args
    BY <2>1, <2>2, NewArgsParts DEF Arity
  <2>6. x = M[g[a].args[1]]
    BY <2>1, <2>2, <2>5, NewArgsParts DEF MeaningOf
  <2> HIDE DEF v, x, y, M
  <2>7. M[a] = Relu(x)
    BY <2>1, <2>3, <2>6 DEF ValueIn, Relu
  <2>8. \/ v = IF M[a] < M[b] THEN M[a] ELSE M[b]
        \/ v = IF M[b] < M[a] THEN M[b] ELSE M[a]
    BY <1>2, <2>1 DEF ValueIn
  <2>9. ASSUME x \in Int PROVE v = IF Relu(x) < nd.number THEN Relu(x) ELSE nd.number
    <3>1. Relu(x) \in Int
      BY <2>9 DEF Relu
    <3>2. QED BY <2>2, <2>4, <2>7, <2>8, <3>1
  <2>10. QED BY <1>4, <2>9 DEF NodeValue
<1>5. QED BY <1>3, <1>4, CompiledNodeArgs

-----------------------------------------------------------------------------
(* Results, and their order.                                               *)

Rank(g, k) == Cardinality({i \in Of(g, "result") : i <= k})
NodeOfResult(g, j) == CHOOSE k \in Of(g, "result") : Rank(g, k) = j

\* The nodes that compilation leaves are as they were, but for names.
LEMMA ResultsRemain ==
  ASSUME NEW g, WellFormed(g), NEW op \in {"result", "parameter"}
  PROVE  /\ Of(g, op) \subseteq DOMAIN Compiled(g)
         /\ \A n \in DOMAIN Compiled(g) : Compiled(g)[n].op = op <=> n \in Of(g, op)
         /\ \A n \in Of(g, op) : Compiled(g)[n].id = n
<1>1. \A n \in Of(g, op) : n \in Ids(g) /\ g[n].op = op
  BY DEF Of
<1>2. Of(g, op) \subseteq DOMAIN Compiled(g)
  BY <1>1 DEF Compiled, Remains
<1>3. ASSUME NEW n \in Of(g, op) PROVE Compiled(g)[n].op = op /\ Compiled(g)[n].id = n
  <2>1. ~IsBoundedRelu(g, n)
    BY <1>1 DEF IsBoundedRelu
  <2>2. QED BY <1>1, <1>2, <2>1, CompiledNodeArgs
<1>4. ASSUME NEW n \in DOMAIN Compiled(g), Compiled(g)[n].op = op PROVE n \in Of(g, op)
  <2>1. n \in Ids(g) /\ g[n].op = op
    BY <1>4, CompiledParts, CompiledDomain
  <2>2. QED BY <2>1 DEF Of
<1>5. QED BY <1>2, <1>3, <1>4

\* The nodes of an operation are finitely many.
LEMMA ResultsFinite ==
  ASSUME NEW g, WellFormed(g), NEW op
  PROVE  /\ IsFiniteSet(Of(g, op)) /\ Cardinality(Of(g, op)) \in Nat
         /\ Of(g, op) \subseteq 1..Len(g) /\ Len(g) \in Nat
<1>1. Of(g, op) \subseteq 1..Len(g) /\ Len(g) \in Nat
  BY CompiledDomain DEF Of
<1>2. IsFiniteSet(1..Len(g))
  BY <1>1, FS_Interval
<1>3. QED BY <1>1, <1>2, FS_Subset, FS_CardinalityType

\* A rank is the number of a result.
LEMMA RankType ==
  ASSUME NEW g, WellFormed(g), NEW k \in Of(g, "result")
  PROVE  Rank(g, k) \in 1..Cardinality(Of(g, "result"))
<1> DEFINE R == Of(g, "result")
           S == {i \in R : i <= k}
<1>1. IsFiniteSet(R) /\ Cardinality(R) \in Nat /\ R \subseteq 1..Len(g) /\ Len(g) \in Nat
  BY ResultsFinite
<1>2. k \in S
  BY <1>1
<1>3. IsFiniteSet(S) /\ Cardinality(S) <= Cardinality(R) /\ Cardinality(S) \in Nat
  BY <1>1, FS_Subset, FS_CardinalityType
<1>4. Cardinality(S) # 0
  BY <1>2, <1>3, FS_EmptySet
<1>5. QED BY <1>1, <1>3, <1>4 DEF Rank

\* Later results have another rank.
LEMMA RankGrows ==
  ASSUME NEW g, WellFormed(g), NEW k \in Of(g, "result"), NEW l \in Of(g, "result"), k < l
  PROVE  Rank(g, k) # Rank(g, l)
<1> DEFINE R == Of(g, "result")
           S == {i \in R : i <= k}
           T == {i \in R : i <= l}
<1>1. IsFiniteSet(R) /\ R \subseteq 1..Len(g) /\ Len(g) \in Nat
  BY ResultsFinite
<1>2. S \subseteq T /\ l \in T /\ l \notin S
  BY <1>1
<1>3. IsFiniteSet(T)
  BY <1>1, FS_Subset
<1>4. QED BY <1>2, <1>3, FS_Subset DEF Rank

\* No two results have one rank.
LEMMA RankInjective ==
  ASSUME NEW g, WellFormed(g), NEW k \in Of(g, "result"), NEW l \in Of(g, "result"),
         Rank(g, k) = Rank(g, l)
  PROVE  k = l
<1>1. k \in Nat /\ l \in Nat
  BY ResultsFinite
<1>2. QED BY <1>1, RankGrows

\* Every number of a result is a rank.
LEMMA RankSurjective ==
  ASSUME NEW g, WellFormed(g), NEW j \in 1..Cardinality(Of(g, "result"))
  PROVE  /\ NodeOfResult(g, j) \in Of(g, "result")
         /\ Rank(g, NodeOfResult(g, j)) = j
<1> DEFINE R == Of(g, "result")
           C == Cardinality(R)
           f == [k \in R |-> Rank(g, k)]
<1>1. IsFiniteSet(R) /\ C \in Nat
  BY ResultsFinite
<1>2. IsFiniteSet(1..C) /\ Cardinality(1..C) = C
  BY <1>1, FS_Interval
<1>3. f \in Injection(R, 1..C)
  BY RankType, RankInjective DEF Injection, IsInjective
<1>4. f \in Surjection(R, 1..C)
  <2> HIDE DEF f
  <2>1. QED BY <1>2, <1>3, FS_Injection
<1>5. \E k \in R : Rank(g, k) = j
  BY <1>4 DEF Surjection
<1>6. QED BY <1>5 DEF NodeOfResult

\* The result of a given rank.
LEMMA NodeOfRank ==
  ASSUME NEW g, WellFormed(g), NEW k \in Of(g, "result")
  PROVE  NodeOfResult(g, Rank(g, k)) = k
BY RankInjective, RankType, RankSurjective

\* The result that a compiled node is.
LEMMA ResultIndexRank ==
  ASSUME WellFormed(function), nodes = Compiled(function), NEW n \in DOMAIN nodes,
         nodes[n].op = "result"
  PROVE  /\ n \in Of(function, "result") /\ nodes[n].id = n
         /\ ResultIndex(nodes[n]) = Rank(function, n)
<1>1. n \in Of(function, "result") /\ nodes[n].id = n
  BY ResultsRemain
<1>2. {m \in DOMAIN nodes : nodes[m].op = "result" /\ nodes[m].id <= nodes[n].id}
        = {i \in Of(function, "result") : i <= n}
  BY <1>1, ResultsRemain
<1>3. QED BY <1>1, <1>2 DEF ResultIndex, Rank

-----------------------------------------------------------------------------
(* Which tensors of a call are ciphers.                                    *)

\* The tensor of node n is a cipher, when those named in S are.
IsCipherNode(n, S) ==
  \/ nodes[n].op = "parameter" /\ (EncryptsInputs \/ inputs[nodes[n].id].cipher)
  \/ nodes[n].op = "constant" /\ config.encryptModel
  \/ Args(nodes[n]) \cap S # {}

ClosedUnderCiphers(S) == \A n \in DOMAIN nodes : IsCipherNode(n, S) => nodes[n].id \in S

\* The least set: it is the same in every call.
Ciphers == {k \in Nat : \A S \in SUBSET Nat : ClosedUnderCiphers(S) => k \in S}

\* A tensor is a cipher by the rule only.
LEMMA CiphersRule ==
  ASSUME WellFormed(function), nodes = Compiled(function), NEW n \in DOMAIN nodes
  PROVE  nodes[n].id \in Ciphers <=> IsCipherNode(n, Ciphers)
<1>1. ASSUME NEW m \in DOMAIN nodes, NEW S, NEW T, S \subseteq T, IsCipherNode(m, S)
      PROVE  IsCipherNode(m, T)
  BY <1>1 DEF IsCipherNode
<1>2. \A m \in DOMAIN nodes : nodes[m].id \in Nat
  BY CompiledParts
<1>3. ASSUME NEW m \in DOMAIN nodes, IsCipherNode(m, Ciphers) PROVE nodes[m].id \in Ciphers
  <2>1. ASSUME NEW S \in SUBSET Nat, ClosedUnderCiphers(S) PROVE nodes[m].id \in S
    <3>1. Ciphers \subseteq S
      BY <2>1 DEF Ciphers
    <3>2. IsCipherNode(m, S)
      BY <1>1, <1>3, <3>1
    <3>3. QED BY <2>1, <3>2 DEF ClosedUnderCiphers
  <2>2. QED BY <1>2, <2>1 DEF Ciphers
<1>4. ASSUME nodes[n].id \in Ciphers, ~IsCipherNode(n, Ciphers) PROVE FALSE
  <2> DEFINE S == Ciphers \ {nodes[n].id}
  <2>1. ASSUME NEW m \in DOMAIN nodes, IsCipherNode(m, S) PROVE nodes[m].id \in S
    <3>1. IsCipherNode(m, Ciphers)
      BY <1>1, <2>1
    <3>2. m # n
      BY <1>4, <3>1
    <3>3. nodes[m].id # nodes[n].id
      BY <3>2, NamesDiffer
    <3>4. QED BY <1>3, <3>1, <3>3
  <2>2. ClosedUnderCiphers(S) /\ S \in SUBSET Nat
    BY <2>1 DEF ClosedUnderCiphers, Ciphers
  <2>3. QED BY <1>4, <2>2 DEF Ciphers
<1>5. QED BY <1>3, <1>4

-----------------------------------------------------------------------------
(* New addresses.                                                          *)

\* An image has no more members than the set.
LEMMA ImageSmall ==
  ASSUME NEW S, IsFiniteSet(S), NEW f, DOMAIN f = S
  PROVE  IsFiniteSet({f[x] : x \in S}) /\ Cardinality({f[x] : x \in S}) <= Cardinality(S)
<1> DEFINE T == {f[x] : x \in S}
           h == [x \in S |-> f[x]]
<1>1. h \in Surjection(S, T)
  BY DEF Surjection
<1> HIDE DEF h
<1>2. QED BY <1>1, FS_Surjection

\* Nor a union than the two sets together.
LEMMA UnionSmall ==
  ASSUME NEW S, IsFiniteSet(S), NEW T, IsFiniteSet(T)
  PROVE  IsFiniteSet(S \cup T) /\ Cardinality(S \cup T) <= Cardinality(S) + Cardinality(T)
<1>1. Cardinality(S \cap T) \in Nat /\ Cardinality(S) \in Nat /\ Cardinality(T) \in Nat
  BY FS_Intersection, FS_CardinalityType
<1>2. /\ IsFiniteSet(S \cup T)
      /\ Cardinality(S \cup T) = Cardinality(S) + Cardinality(T) - Cardinality(S \cap T)
  BY FS_Union
<1>3. QED BY <1>1, <1>2

\* The names of tensors in tensor_map.
TensorIds == {nodes[n].id : n \in DOMAIN nodes \ Of(function, "result")}

\* There are as many tensors as nodes that are no results, at most.
LEMMA TensorIdsSmall ==
  ASSUME WellFormed(function), nodes = Compiled(function)
  PROVE  /\ IsFiniteSet(TensorIds)
         /\ Cardinality(TensorIds) + Cardinality(Of(function, "result")) <= Len(function)
<1> DEFINE R == Of(function, "result")
           D == DOMAIN nodes \ R
           f == [n \in D |-> nodes[n].id]
           l == Len(function)
<1>1. IsFiniteSet(R) /\ Cardinality(R) \in Nat /\ R \subseteq 1..l /\ l \in Nat
  BY ResultsFinite
<1>2. IsFiniteSet(1..l) /\ Cardinality(1..l) = l
  <2> HIDE DEF l
  <2>1. QED BY <1>1, FS_Interval
<1>3. D \subseteq 1..l
  BY CompiledDomain
<1>4. IsFiniteSet(D) /\ Cardinality(D) \in Nat
  BY <1>2, <1>3, FS_Subset, FS_CardinalityType
<1>5. D \cap R = {} /\ D \cup R \in SUBSET (1..l)
  BY <1>1, <1>3
<1>6. Cardinality(D \cup R) = Cardinality(D) + Cardinality(R)
  <2> HIDE DEF D, R
  <2>1. Cardinality(D \cup R) = Cardinality(D) + Cardinality(R) - Cardinality(D \cap R)
    BY <1>1, <1>4, FS_Union
  <2>2. Cardinality(D \cap R) = 0
    BY <1>5, FS_EmptySet
  <2>3. QED BY <1>1, <1>4, <2>1, <2>2
<1>7. Cardinality(D \cup R) <= l
  BY <1>2, <1>5, FS_Subset
<1>8. IsFiniteSet({f[n] : n \in D}) /\ Cardinality({f[n] : n \in D}) <= Cardinality(D)
  BY <1>4, ImageSmall
<1>9. TensorIds = {f[n] : n \in D}
  BY DEF TensorIds
<1>10. Cardinality(TensorIds) \in Nat
  BY <1>8, <1>9, FS_CardinalityType
<1> HIDE DEF D, R, f, l
<1>11. QED BY <1>1, <1>4, <1>6, <1>7, <1>8, <1>9, <1>10 DEF R, l

\* make_shared finds an address that nothing points to.
LEMMA NewFresh ==
  ASSUME function \in Graphs, nodes = Compiled(function),
         DOMAIN inputs = Parameters, DOMAIN outputs = Results, DOMAIN tensorMap \subseteq TensorIds
  PROVE  New \in Addresses /\ New \notin Pointers(inputs, outputs, tensorMap)
<1> DEFINE p == Cardinality(Parameters)
           r == Cardinality(Of(function, "result"))
           n == Len(function)
           f == [i \in Parameters |-> inputs[i].at]
           g == [j \in Results |-> outputs[j].at]
           h == [k \in DOMAIN tensorMap |-> tensorMap[k].at]
           A == {f[i] : i \in Parameters}
           B == {g[j] : j \in Results}
           C == {h[k] : k \in DOMAIN tensorMap}
           P == Pointers(inputs, outputs, tensorMap)
<1>1. WellFormed(function) /\ Addresses \subseteq Nat /\ 1..(p + n + 1) \subseteq Addresses
  BY GraphsAssumption, AddressesAssumption DEF Parameters
<1>2. IsFiniteSet(Parameters) /\ p \in Nat /\ r \in Nat /\ n \in Nat
  BY <1>1, ResultsFinite DEF Parameters
<1>3. IsFiniteSet(Results) /\ Cardinality(Results) = r
  BY <1>2, FS_Interval DEF Results
<1>4. /\ IsFiniteSet(DOMAIN tensorMap)
      /\ Cardinality(DOMAIN tensorMap) \in Nat /\ Cardinality(DOMAIN tensorMap) + r <= n
  <2>1. IsFiniteSet(TensorIds) /\ Cardinality(TensorIds) + r <= n
    BY <1>1, TensorIdsSmall
  <2>2. /\ IsFiniteSet(DOMAIN tensorMap) /\ Cardinality(DOMAIN tensorMap) <= Cardinality(TensorIds)
        /\ Cardinality(DOMAIN tensorMap) \in Nat /\ Cardinality(TensorIds) \in Nat
    BY <2>1, FS_Subset, FS_CardinalityType
  <2> HIDE DEF r, n
  <2>3. QED BY <1>2, <2>1, <2>2
<1>5. P = (A \cup B) \cup C
  BY DEF Pointers
<1>6. IsFiniteSet(A) /\ Cardinality(A) <= p
  <2>1. DOMAIN f = Parameters
    OBVIOUS
  <2> HIDE DEF f
  <2>2. QED BY <1>2, <2>1, ImageSmall
<1>7. IsFiniteSet(B) /\ Cardinality(B) <= r
  <2>1. DOMAIN g = Results
    OBVIOUS
  <2> HIDE DEF g
  <2>2. IsFiniteSet(B) /\ Cardinality(B) <= Cardinality(Results)
    BY <1>3, <2>1, ImageSmall
  <2>3. QED BY <1>3, <2>2
<1>8. IsFiniteSet(C) /\ Cardinality(C) <= Cardinality(DOMAIN tensorMap)
  BY <1>4, ImageSmall
<1> HIDE DEF A, B, C, P, p, r, n
<1>9. IsFiniteSet(A \cup B) /\ Cardinality(A \cup B) <= Cardinality(A) + Cardinality(B)
  BY <1>6, <1>7, UnionSmall
<1>10. IsFiniteSet(P) /\ Cardinality(P) <= Cardinality(A \cup B) + Cardinality(C)
  BY <1>5, <1>8, <1>9, UnionSmall
<1>11. /\ Cardinality(A) \in Nat /\ Cardinality(B) \in Nat /\ Cardinality(C) \in Nat
       /\ Cardinality(A \cup B) \in Nat /\ Cardinality(P) \in Nat
  BY <1>6, <1>7, <1>8, <1>9, <1>10, FS_CardinalityType
<1>12. Cardinality(P) <= p + n
  BY <1>2, <1>4, <1>6, <1>7, <1>8, <1>9, <1>10, <1>11
<1>13. ~(1..(p + n + 1) \subseteq P)
  <2>1. Cardinality(1..(p + n + 1)) = p + n + 1
    BY <1>2, FS_Interval
  <2>2. 1..(p + n + 1) \subseteq P => Cardinality(1..(p + n + 1)) <= Cardinality(P)
    BY <1>10, FS_Subset
  <2>3. QED BY <1>2, <1>11, <1>12, <2>1, <2>2
<1> DEFINE Free == {a \in Addresses : a \notin P}
<1>14. Free # {} /\ Free \in SUBSET Nat
  BY <1>1, <1>13
<1>15. PICK a \in Free : \A b \in Free : a <= b
  BY <1>14, LeastNumber
<1>16. a \in Addresses /\ a \notin P /\ \A b \in Addresses : b < a => b \in P
  BY <1>14, <1>15
<1>17. QED BY <1>16 DEF New, P

-----------------------------------------------------------------------------
(* Elements of one number.                                                 *)

\* Imaginary parts are zero, in what is marked packed too: nobody packs.
Real(x) == x.cipher /\ ~x.e.zero => \A i \in 1..Slots : x.e.data.slots[i][2] = 0

\* An element that is read as the number v.
Reads(x, v) == Sound(x, <<v>>, Top) /\ Real(x)

\* y in the place of x makes no difference to a reader.
Same(x, y) ==
  y = x \/ (y.cipher = x.cipher /\ \E v : Reads(x, v) /\ Reads(y, v))

\* A batch of one.
LEMMA SingleNumbers ==
  ASSUME BatchSize = 1
  PROVE  /\ BatchesFit /\ Places = {1}
         /\ \A v : IsBatch(<<v>>) <=> v \in Int
<1>1. BatchesFit /\ Places = {1}
  BY SizesType DEF BatchesFit, Places
<1>2. ASSUME NEW v PROVE IsBatch(<<v>>) <=> v \in Int
  BY <1>1 DEF IsBatch
<1>3. QED BY <1>1, <1>2

\* What is not marked packed has no imaginary parts.
LEMMA NotPackedReal ==
  ASSUME NEW x, NEW m, NEW n, Sound(x, m, n), x.cipher => ~x.e.packed
  PROVE  Real(x)
BY DEF Real, Sound, CipherSound, Holds

\* No ciphertext has lost more levels than there are.
LEMMA SoundReads ==
  ASSUME NEW x, NEW v, NEW n \in Nat, Sound(x, <<v>>, n), Real(x)
  PROVE  Reads(x, v)
<1>1. Top \in Nat
  BY ScaleType
<1>2. ASSUME x.cipher PROVE CipherSound(x.e, <<v>>, Top)
  <2>1. CipherSound(x.e, <<v>>, n)
    BY <1>2 DEF Sound
  <2>2. ASSUME ~x.e.zero PROVE Paid(x.e.data, Top)
    <3>1. HasData(x.e.data) /\ Paid(x.e.data, n)
      BY <2>1, <2>2 DEF CipherSound, Holds
    <3>2. x.e.data.level \in 0..Top
      BY <3>1 DEF HasData, Levels
    <3>3. QED BY <1>1, <3>1, <3>2 DEF Paid
  <2>3. QED BY <2>1, <2>2 DEF CipherSound
<1>3. QED BY <1>1, <1>2 DEF Sound, Reads

\* What read() gives of it.
LEMMA ReadsValues ==
  ASSUME BatchSize = 1, NEW x, NEW v, Reads(x, v)
  PROVE  ValuesOf(x) = <<v>> /\ v \in Int
BY SingleNumbers, SoundValues DEF Reads, Sound

\* An element stands for one number only.
LEMMA ReadsOne ==
  ASSUME BatchSize = 1, NEW x, NEW v, Reads(x, v), NEW w, Reads(x, w)
  PROVE  v = w
<1>1. <<v>> = <<w>>
  BY ReadsValues
<1>2. QED BY <1>1

\* What the same element in another state gives.
LEMMA SameReads ==
  ASSUME BatchSize = 1, NEW x, NEW y, Same(x, y)
  PROVE  /\ ValuesOf(y) = ValuesOf(x) /\ y.cipher = x.cipher
         /\ \A v : Reads(x, v) => Reads(y, v)
<1>1. CASE y = x
  BY <1>1
<1>2. CASE y.cipher = x.cipher /\ \E v : Reads(x, v) /\ Reads(y, v)
  <2>1. PICK v : Reads(x, v) /\ Reads(y, v)
    BY <1>2
  <2>2. ValuesOf(x) = <<v>> /\ ValuesOf(y) = <<v>>
    BY <2>1, ReadsValues
  <2>3. \A w : Reads(x, w) => w = v
    BY <2>1, ReadsOne
  <2>4. QED BY <1>2, <2>1, <2>2, <2>3
<1>3. QED BY <1>1, <1>2 DEF Same

-----------------------------------------------------------------------------
(* Marks of packing.  They make no difference to a batch of one, which is in  *)
(* the real part of the first slot.                                           *)

Bare(c) == [c EXCEPT !.packed = FALSE]

LEMMA BareCipher ==
  ASSUME NEW c, IsCipher(c)
  PROVE  /\ IsCipher(Bare(c)) /\ Unmarked(Cipher(c)) = Cipher(Bare(c))
         /\ Bare(c).zero = c.zero /\ Bare(c).packed = FALSE /\ Bare(c).data = c.data
         /\ Bare(c) = [zero |-> c.zero, packed |-> FALSE, data |-> c.data]
<1>1. c = [zero |-> c.zero, packed |-> c.packed, data |-> c.data]
  BY DEF IsCipher
<1>2. Bare(c) = [zero |-> c.zero, packed |-> FALSE, data |-> c.data]
  <2>1. \A p : [c EXCEPT !.packed = p] = [zero |-> c.zero, packed |-> p, data |-> c.data]
    BY <1>1
  <2>2. QED BY <2>1, Zenon DEF Bare
<1>3. IsCipher(Bare(c))
  BY PackedCipher DEF Bare
<1>4. Unmarked(Cipher(c)) = Cipher(Bare(c))
  BY DEF Unmarked, Cipher, Bare
<1>5. QED BY <1>2, <1>3, <1>4

LEMMA UnmarkedParts ==
  ASSUME NEW x, IsElement(x)
  PROVE  /\ IsElement(Unmarked(x)) /\ Unmarked(x).cipher = x.cipher
         /\ ~x.cipher => Unmarked(x) = x
         /\ x.cipher => x = Cipher(x.e) /\ Unmarked(x) = Cipher(Bare(x.e)) /\ Unmarked(x).e = Bare(x.e)
<1>1. CASE ~x.cipher
  BY <1>1 DEF Unmarked
<1>2. CASE x.cipher
  <2>1. x = Cipher(x.e) /\ IsCipher(x.e)
    <3>1. x = [cipher |-> x.cipher, e |-> x.e] /\ x.cipher = TRUE /\ IsCipher(x.e)
      BY <1>2 DEF IsElement
    <3>2. x = [cipher |-> TRUE, e |-> x.e]
      BY <3>1
    <3>3. QED BY <3>1, <3>2 DEF Cipher
  <2>2. Unmarked(x) = Cipher(Bare(x.e)) /\ IsCipher(Bare(x.e))
    BY <2>1, BareCipher
  <2>3. QED BY <1>2, <2>1, <2>2, CipherElement
<1>3. QED BY <1>1, <1>2 DEF IsElement

LEMMA FirstNumber ==
  ASSUME BatchSize = 1, NEW slots, NEW packed \in BOOLEAN, NEW k \in Places
  PROVE  Number(slots, packed, k) = slots[1][1]
<1>1. k = 1
  BY SingleNumbers
<1>2. (k + 1) \div 2 = 1 /\ k % 2 = 1
  BY <1>1
<1>3. QED BY <1>1, <1>2 DEF Number

\* What is real stands for the same without its mark, and with it.
LEMMA UnmarkedSound ==
  ASSUME BatchSize = 1, NEW x, NEW v, NEW n, Sound(x, <<v>>, n), Real(x)
  PROVE  Sound(Unmarked(x), <<v>>, n)
<1>1. IsElement(x)
  BY DEF Sound
<1>2. ASSUME x.cipher PROVE CipherSound(Bare(x.e), <<v>>, n)
  <2>1. CipherSound(x.e, <<v>>, n) /\ IsCipher(x.e)
    BY <1>2 DEF Sound, CipherSound
  <2>2. ASSUME ~x.e.zero PROVE Holds(x.e.data, FALSE, <<v>>)
    <3>1. Holds(x.e.data, x.e.packed, <<v>>) /\ x.e.packed \in BOOLEAN
      BY <2>1, <2>2 DEF CipherSound
    <3>2. \A k \in Places : Number(x.e.data.slots, FALSE, k) = Number(x.e.data.slots, x.e.packed, k)
      BY <3>1, FirstNumber
    <3>3. QED BY <1>2, <2>2, <3>1, <3>2 DEF Holds, Real
  <2>3. QED BY <2>1, <2>2, BareCipher DEF CipherSound
<1>3. QED BY <1>1, <1>2, UnmarkedParts DEF Sound

LEMMA MarkedSound ==
  ASSUME BatchSize = 1, NEW x, IsElement(x), x.cipher => x.e.packed \in BOOLEAN,
         NEW v, NEW n, Sound(Unmarked(x), <<v>>, n)
  PROVE  Sound(x, <<v>>, n) /\ Real(x)
<1>1. ASSUME x.cipher PROVE CipherSound(x.e, <<v>>, n) /\ Real(x)
  <2>1. CipherSound(Bare(x.e), <<v>>, n) /\ IsCipher(x.e)
    BY <1>1, UnmarkedParts DEF Sound, IsElement
  <2>2. ASSUME ~x.e.zero
        PROVE  /\ Holds(x.e.data, x.e.packed, <<v>>) /\ Paid(x.e.data, n)
               /\ \A i \in 1..Slots : x.e.data.slots[i][2] = 0
    <3>1. Holds(x.e.data, FALSE, <<v>>) /\ Paid(x.e.data, n)
      BY <2>1, <2>2, BareCipher DEF CipherSound
    <3>2. \A k \in Places : Number(x.e.data.slots, FALSE, k) = Number(x.e.data.slots, x.e.packed, k)
      BY <1>1, FirstNumber
    <3>3. QED BY <3>1, <3>2 DEF Holds
  <2>3. QED BY <1>1, <2>1, <2>2, BareCipher DEF CipherSound, Real
<1>2. CASE ~x.cipher
  BY <1>2, UnmarkedParts DEF Real
<1>3. CASE x.cipher
  BY <1>1, <1>3, UnmarkedParts DEF Sound
<1>4. QED BY <1>2, <1>3 DEF IsElement

\* Two outcomes that differ by the mark: of what makes a ciphertext, of what makes
\* three, and of an operation.
Bares(c, d) ==
  \/ c = Thrown /\ d = Thrown
  \/ c # Thrown /\ d # Thrown /\ d = Bare(c) /\ c.packed \in BOOLEAN /\ IsCipher(c)
BaresThree(r, s) ==
  \/ r = Thrown /\ s = Thrown
  \/ /\ r # Thrown /\ s # Thrown
     /\ \A n \in 1..3 : r[n] # Thrown /\ Bares(r[n], s[n])
Unmarks(x, y) == y = Unmarked(x) /\ (x.cipher => x.e.packed \in BOOLEAN)
UnmarksThree(r, s) ==
  \/ r = Thrown /\ s = Thrown
  \/ r # Thrown /\ s # Thrown /\ Unmarks(r[1], s[1]) /\ Unmarks(r[2], s[2]) /\ Unmarks(r[3], s[3])

LEMMA BaresItself ==
  ASSUME NEW c, IsCipher(c), c.packed \in BOOLEAN
  PROVE  Bares(c, Bare(c)) /\ Bares(Bare(c), Bare(c))
<1>1. c # Thrown /\ Bare(c) # Thrown
  BY CipherIsSome, BareCipher
<1>2. Bare(Bare(c)) = Bare(c)
  BY BareCipher
<1>3. QED BY <1>1, <1>2, BareCipher DEF Bares

\* Two ciphertexts with the same fields, but for the mark.
LEMMA BaresFields ==
  ASSUME NEW c, IsCipher(c), c.packed \in BOOLEAN, NEW d, IsCipher(d), d.packed = FALSE,
         d.zero = c.zero, d.data = c.data
  PROVE  Bares(c, d)
<1>1. d = [zero |-> d.zero, packed |-> d.packed, data |-> d.data]
  BY DEF IsCipher
<1>2. Bare(c) = [zero |-> Bare(c).zero, packed |-> Bare(c).packed, data |-> Bare(c).data]
  BY BareCipher DEF IsCipher
<1>3. Bare(c).zero = d.zero /\ Bare(c).packed = d.packed /\ Bare(c).data = d.data
  BY BareCipher
<1>4. d = Bare(c)
  BY <1>1, <1>2, <1>3
<1>5. QED BY <1>4, BaresItself

LEMMA BaresParts ==
  ASSUME NEW c, NEW d, Bares(c, d), c # Thrown
  PROVE  /\ IsCipher(c) /\ c.packed \in BOOLEAN /\ IsCipher(d) /\ d.packed = FALSE
         /\ d # Thrown /\ d.zero = c.zero /\ d.data = c.data
BY BareCipher DEF Bares

\* What changes other fields of both.
LEMMA BaresChanged ==
  ASSUME NEW c, NEW d, Bares(c, d), c # Thrown
  PROVE  /\ \A e : IsData(e) => Bares([c EXCEPT !.data = e], [d EXCEPT !.data = e])
         /\ \A z : Bares([c EXCEPT !.zero = z], [d EXCEPT !.zero = z])
<1>1. /\ IsCipher(c) /\ c.packed \in BOOLEAN /\ IsCipher(d) /\ d.packed = FALSE
      /\ d.zero = c.zero /\ d.data = c.data
  BY BaresParts
<1>2. ASSUME NEW e, IsData(e) PROVE Bares([c EXCEPT !.data = e], [d EXCEPT !.data = e])
  <2> DEFINE p == [c EXCEPT !.data = e]
             q == [d EXCEPT !.data = e]
  <2>1. IsCipher(p) /\ IsCipher(q)
    BY <1>1, <1>2, DataCipher
  <2>2. p.packed = c.packed /\ q.packed = d.packed /\ p.zero = c.zero /\ q.zero = d.zero /\ p.data = e /\ q.data = e
    BY <1>1 DEF IsCipher
  <2> HIDE DEF p, q
  <2>3. Bares(p, q)
    BY <1>1, <2>1, <2>2, BaresFields
  <2>4. QED BY <2>3 DEF p, q
<1>3. ASSUME NEW z PROVE Bares([c EXCEPT !.zero = z], [d EXCEPT !.zero = z])
  <2> DEFINE p == [c EXCEPT !.zero = z]
             q == [d EXCEPT !.zero = z]
  <2>1. IsCipher(p) /\ IsCipher(q)
    BY <1>1, ZeroCipher
  <2>2. p.packed = c.packed /\ q.packed = d.packed /\ p.zero = z /\ q.zero = z /\ p.data = c.data /\ q.data = d.data
    BY <1>1 DEF IsCipher
  <2> HIDE DEF p, q
  <2>3. Bares(p, q)
    BY <1>1, <2>1, <2>2, BaresFields
  <2>4. QED BY <2>3 DEF p, q
<1>4. QED BY <1>2, <1>3

\* A new ciphertext is not marked.
LEMMA BaresNew ==
  ASSUME NEW c, IsCipher(c), c.packed = FALSE PROVE Bares(c, c)
BY BaresFields

LEMMA TripleBares ==
  ASSUME NEW a, NEW d, Bares(a, d), a # Thrown, NEW b, NEW e, Bares(b, e), b # Thrown,
         NEW c, NEW f, Bares(c, f), c # Thrown
  PROVE  BaresThree(<<a, b, c>>, <<d, e, f>>)
<1>1. <<a, b, c>> # Thrown /\ <<d, e, f>> # Thrown
  BY TripleIsSome
<1>2. QED BY <1>1 DEF BaresThree

\* add: what has different marks is not summed.
LEMMA AddCCBares ==
  ASSUME NEW a, IsCipher(a), a.packed \in BOOLEAN, NEW b, IsCipher(b), b.packed \in BOOLEAN,
         a.zero \/ b.zero \/ a.packed = b.packed
  PROVE  BaresThree(AddCC(a, b, NewCipher), AddCC(Bare(a), Bare(b), NewCipher))
<1> DEFINE m == MatchModulusAndScale(a.data, b.data)
           d == EvalAdd(m[1], m[2])
<1>1. /\ Bare(a).zero = a.zero /\ Bare(a).packed = FALSE /\ Bare(a).data = a.data
      /\ Bare(b).zero = b.zero /\ Bare(b).packed = FALSE /\ Bare(b).data = b.data
  BY BareCipher
<1>2. Bares(a, Bare(a)) /\ Bares(b, Bare(b))
  BY BaresItself
<1>3. CASE a.zero \/ b.zero
  <2>1. Bares(ZeroOut(NewCipher), ZeroOut(NewCipher))
    <3>1. Bares(NewCipher, NewCipher) /\ NewCipher # Thrown
      BY BaresNew, NewIsCipher, CipherIsSome DEF NewCipher
    <3>2. QED BY <3>1, BaresChanged DEF ZeroOut
  <2> DEFINE w == IF a.zero /\ b.zero THEN ZeroOut(NewCipher) ELSE IF a.zero THEN b ELSE a
             z == IF a.zero /\ b.zero THEN ZeroOut(NewCipher) ELSE IF a.zero THEN Bare(b) ELSE Bare(a)
  <2>2. AddCC(a, b, NewCipher) = <<a, b, w>>
    BY <1>3 DEF AddCC
  <2>3. AddCC(Bare(a), Bare(b), NewCipher) = <<Bare(a), Bare(b), z>>
    BY <1>1, <1>3 DEF AddCC
  <2>4. Bares(w, z) /\ w # Thrown /\ a # Thrown /\ b # Thrown
    BY <1>2, <2>1, NewIsCipher, NonZeroCipher, CipherIsSome
  <2> HIDE DEF w, z
  <2>5. QED BY <1>2, <2>2, <2>3, <2>4, TripleBares
<1>4. CASE ~a.zero /\ ~b.zero
  <2>1. /\ AddCC(a, b, NewCipher) = Then(m, LAMBDA k : AddMatched(a, b, k, NewCipher))
        /\ AddCC(Bare(a), Bare(b), NewCipher) = Then(m, LAMBDA k : AddMatched(Bare(a), Bare(b), k, NewCipher))
    BY <1>1, <1>4 DEF AddCC
  <2>2. CASE m = Thrown
    BY <2>1, <2>2 DEF Then, BaresThree
  <2>3. CASE m # Thrown /\ d = Thrown
    BY <2>1, <2>3 DEF Then, AddMatched, BaresThree
  <2>4. CASE m # Thrown /\ d # Thrown
    <3>1. HasData(m[1]) /\ HasData(m[2]) /\ IsData(m[1]) /\ IsData(m[2])
      BY <2>4, MatchKeeps DEF IsCipher, IsData
    <3>2. IsData(d)
      BY <2>4, <3>1, EvalAddHas DEF IsData
    <3> DEFINE r == AddCC(a, b, NewCipher)
               s == AddCC(Bare(a), Bare(b), NewCipher)
               e == [zero |-> FALSE, packed |-> b.packed, data |-> d]
               h == [zero |-> FALSE, packed |-> Bare(b).packed, data |-> d]
    <3>3. /\ r = <<[a EXCEPT !.data = m[1]], [b EXCEPT !.data = m[2]], e>>
          /\ s = <<[Bare(a) EXCEPT !.data = m[1]], [Bare(b) EXCEPT !.data = m[2]], h>>
      BY <1>1, <2>1, <2>4 DEF Then, AddMatched
    <3> HIDE DEF m, d
    <3>4. IsCipher(e) /\ IsCipher(h) /\ Bares(e, h)
      <4>1. IsCipher(e) /\ IsCipher(h)
        BY <3>2 DEF IsCipher
      <4>2. e.packed = b.packed /\ h.packed = Bare(b).packed /\ e.zero = h.zero /\ e.data = h.data
        OBVIOUS
      <4> HIDE DEF e, h
      <4>3. QED BY <1>1, <4>1, <4>2, BaresFields
    <3>5. /\ Bares([a EXCEPT !.data = m[1]], [Bare(a) EXCEPT !.data = m[1]])
          /\ Bares([b EXCEPT !.data = m[2]], [Bare(b) EXCEPT !.data = m[2]])
      BY <1>2, <3>1, BaresChanged, CipherIsSome
    <3>6. /\ [a EXCEPT !.data = m[1]] # Thrown /\ [b EXCEPT !.data = m[2]] # Thrown
          /\ e # Thrown
      BY <3>1, <3>4, DataCipher, CipherIsSome
    <3> HIDE DEF e, h, r, s
    <3>7. BaresThree(r, s)
      BY <3>3, <3>4, <3>5, <3>6, TripleBares
    <3>8. QED BY <3>7 DEF r, s
  <2>5. QED BY <2>2, <2>3, <2>4
<1>5. QED BY <1>3, <1>4

LEMMA NewBares == Bares(NewCipher, NewCipher) /\ NewCipher # Thrown /\ NewCipher.packed = FALSE
BY BaresNew, NewIsCipher, CipherIsSome DEF NewCipher

LEMMA PackedBares ==
  ASSUME NEW c, IsCipher(c), NEW packed \in BOOLEAN
  PROVE  Bares([c EXCEPT !.packed = packed], [c EXCEPT !.packed = FALSE])
<1> DEFINE p == [c EXCEPT !.packed = packed]
           q == [c EXCEPT !.packed = FALSE]
<1>1. IsCipher(p) /\ IsCipher(q)
  BY PackedCipher
<1>2. p.packed = packed /\ q.packed = FALSE /\ q.zero = p.zero /\ q.data = p.data
  BY DEF IsCipher
<1> HIDE DEF p, q
<1>3. Bares(p, q)
  BY <1>1, <1>2, BaresFields
<1>4. QED BY <1>3 DEF p, q

LEMMA AssignedBares ==
  ASSUME NEW d, d # Thrown => IsData(d)
  PROVE  Bares(Assigned(NewCipher, d), Assigned(NewCipher, d))
<1>1. CASE d = Thrown
  BY <1>1 DEF Assigned, Bares
<1>2. CASE d # Thrown
  BY <1>2, NewBares, BaresChanged DEF Assigned
<1>3. QED BY <1>1, <1>2

LEMMA AddCPBares ==
  ASSUME NEW a, IsCipher(a), a.packed \in BOOLEAN, NEW p, p.packed = FALSE
  PROVE  Bares(AddCP(a, p, NewCipher), AddCP(Bare(a), p, NewCipher))
<1>1. Bare(a).zero = a.zero /\ Bare(a).packed = FALSE /\ Bare(a).data = a.data /\ IsData(a.data)
  BY BareCipher DEF IsCipher
<1>2. CASE a.zero
  <2> DEFINE c == Encrypt(NewCipher, p)
  <2>1. /\ AddCP(a, p, NewCipher) = Then(c, NonZeroOut)
        /\ AddCP(Bare(a), p, NewCipher) = Then(c, NonZeroOut)
    BY <1>1, <1>2 DEF AddCP
  <2>2. CASE c = Thrown
    BY <2>1, <2>2 DEF Then, Bares
  <2>3. CASE c # Thrown
    <3>1. IsCipher(c)
      BY <2>3, NewIsCipher, EncryptCipher
    <3>2. c.packed = FALSE
      <4>1. CASE c = [NewCipher EXCEPT !.zero = TRUE, !.packed = p.packed]
        BY <4>1, NewIsCipher DEF IsCipher
      <4>2. CASE c = [Assigned(NewCipher, Encode(p)) EXCEPT !.packed = p.packed] /\ Encode(p) # Thrown
        BY <4>2, NewIsCipher DEF IsCipher, Assigned
      <4>3. QED BY <2>3, <4>1, <4>2 DEF Encrypt
    <3> HIDE DEF c
    <3>3. Bares(NonZeroOut(c), NonZeroOut(c))
      BY <2>3, <3>1, <3>2, BaresNew, BaresChanged DEF NonZeroOut
    <3>4. QED BY <2>1, <2>3, <3>3 DEF Then
  <2>4. QED BY <2>2, <2>3
<1>3. CASE ~a.zero /\ p.values = << 0 >>
  BY <1>1, <1>3, BaresItself DEF AddCP
<1>4. CASE ~a.zero /\ p.values # << 0 >> /\ IsSingle(p)
  <2> DEFINE d == AddPlain(a.data, p.values[1])
  <2>1. /\ AddCP(a, p, NewCipher) = Assigned(NewCipher, d)
        /\ AddCP(Bare(a), p, NewCipher) = Assigned(NewCipher, d)
    BY <1>1, <1>4 DEF AddCP
  <2>2. d # Thrown => IsData(d)
    BY <1>1, AddPlainHas DEF IsData
  <2> HIDE DEF d
  <2>3. QED BY <2>1, <2>2, AssignedBares
<1>5. CASE ~a.zero /\ p.values # << 0 >> /\ ~IsSingle(p) /\ a.data = NoData
  BY <1>1, <1>5 DEF AddCP, Bares
<1>6. CASE ~a.zero /\ p.values # << 0 >> /\ ~IsSingle(p) /\ a.data # NoData
  <2> DEFINE e == EncodeAt(p, a.data.level, a.data.scale)
             c == Assigned(NewCipher, EvalAdd(a.data, e))
  <2>1. /\ AddCP(a, p, NewCipher) = IF e = Thrown THEN Thrown ELSE [c EXCEPT !.packed = a.packed]
        /\ AddCP(Bare(a), p, NewCipher) = IF e = Thrown THEN Thrown ELSE [c EXCEPT !.packed = FALSE]
    BY <1>1, <1>6 DEF AddCP, Then
  <2>2. CASE e = Thrown
    BY <2>1, <2>2 DEF Bares
  <2>3. CASE e # Thrown
    <3>1. HasData(a.data) /\ a.data.level \in Levels
      BY <1>1, <1>6 DEF IsData, HasData
    <3>2. HasData(e) /\ e # NoData /\ e.level = a.data.level /\ e.scale = a.data.scale
      BY <2>3, <3>1, EncodeAtHas, HasDataIsSome
    <3>3. EvalAdd(a.data, e) # Thrown /\ IsData(EvalAdd(a.data, e))
      BY <1>1, <3>1, <3>2, EvalAddSome, EvalAddHas DEF IsData
    <3>4. c # Thrown /\ IsCipher(c)
      BY <3>3, NewIsCipher, AssignedCipher, AssignedSome
    <3> HIDE DEF c, e
    <3>5. Bares([c EXCEPT !.packed = a.packed], [c EXCEPT !.packed = FALSE])
      BY <3>4, PackedBares
    <3>6. QED BY <2>1, <2>3, <3>5
  <2>4. QED BY <2>2, <2>3
<1>7. QED BY <1>2, <1>3, <1>4, <1>5, <1>6

LEMMA MultiplyCCBares ==
  ASSUME NEW a, IsCipher(a), a.packed \in BOOLEAN, NEW b, IsCipher(b), b.packed \in BOOLEAN
  PROVE  BaresThree(MultiplyCC(a, b, NewCipher), MultiplyCC(Bare(a), Bare(b), NewCipher))
<1> DEFINE m == MatchModulusAndScale(a.data, b.data)
           d == EvalMultiply(m[1], m[2])
           r == MultiplyCC(a, b, NewCipher)
           s == MultiplyCC(Bare(a), Bare(b), NewCipher)
<1>1. /\ Bare(a).zero = a.zero /\ Bare(a).data = a.data
      /\ Bare(b).zero = b.zero /\ Bare(b).data = b.data
  BY BareCipher
<1>2. Bares(a, Bare(a)) /\ Bares(b, Bare(b)) /\ a # Thrown /\ b # Thrown
  BY BaresItself, CipherIsSome
<1>3. CASE a.zero \/ b.zero
  <2> DEFINE z == ZeroOut(NewCipher)
  <2>1. Bares(z, z)
    BY NewBares, BaresChanged DEF ZeroOut
  <2>2. r = <<a, b, z>> /\ s = <<Bare(a), Bare(b), z>>
    BY <1>1, <1>3 DEF MultiplyCC
  <2>3. z # Thrown
    BY NewIsCipher, NonZeroCipher, CipherIsSome
  <2> HIDE DEF z
  <2>4. QED BY <1>2, <2>1, <2>2, <2>3, TripleBares
<1>4. CASE ~a.zero /\ ~b.zero
  <2>1. /\ r = Then(m, LAMBDA k : MultiplyMatched(a, b, k, NewCipher))
        /\ s = Then(m, LAMBDA k : MultiplyMatched(Bare(a), Bare(b), k, NewCipher))
    BY <1>1, <1>4 DEF MultiplyCC
  <2>2. CASE m = Thrown \/ m[1].level = 0 \/ m[2].level = 0 \/ d = Thrown
    <3>1. r = Thrown /\ s = Thrown
      BY <2>1, <2>2 DEF Then, MultiplyMatched
    <3>2. QED BY <3>1 DEF BaresThree
  <2>3. CASE ~(m = Thrown \/ m[1].level = 0 \/ m[2].level = 0 \/ d = Thrown)
    <3>1. HasData(m[1]) /\ HasData(m[2]) /\ IsData(m[1]) /\ IsData(m[2])
      BY <2>3, MatchKeeps DEF IsCipher, IsData
    <3>2. HasData(d) /\ d.level = m[1].level
      BY <2>3, <3>1, EvalMultiplyHas
    <3>3. IsData(RescaleToNext(d))
      BY <2>3, <3>2, RescaleToNextHas DEF IsData
    <3> DEFINE e == [NonZeroOut(NewCipher) EXCEPT !.data = RescaleToNext(d)]
    <3>4. /\ r = <<[a EXCEPT !.data = m[1]], [b EXCEPT !.data = m[2]], e>>
          /\ s = <<[Bare(a) EXCEPT !.data = m[1]], [Bare(b) EXCEPT !.data = m[2]], e>>
      BY <2>1, <2>3 DEF Then, MultiplyMatched
    <3>5. Bares(e, e)
      <4>1. Bares(NonZeroOut(NewCipher), NonZeroOut(NewCipher)) /\ NonZeroOut(NewCipher) # Thrown
        BY NewBares, BaresChanged, NonZeroSome, NewIsCipher DEF NonZeroOut
      <4> HIDE DEF m, d
      <4>2. QED BY <3>3, <4>1, BaresChanged
    <3> HIDE DEF m, d, e
    <3>6. /\ Bares([a EXCEPT !.data = m[1]], [Bare(a) EXCEPT !.data = m[1]])
          /\ Bares([b EXCEPT !.data = m[2]], [Bare(b) EXCEPT !.data = m[2]])
      BY <1>2, <3>1, BaresChanged
    <3>7. /\ [a EXCEPT !.data = m[1]] # Thrown /\ [b EXCEPT !.data = m[2]] # Thrown
          /\ e # Thrown
      <4>1. IsCipher(e)
        BY <3>3, NewIsCipher, NonZeroCipher, DataCipher DEF e
      <4>2. QED BY <3>1, <4>1, DataCipher, CipherIsSome
    <3> HIDE DEF r, s
    <3>8. BaresThree(r, s)
      BY <3>4, <3>5, <3>6, <3>7, TripleBares
    <3>9. QED BY <3>8 DEF r, s
  <2>4. QED BY <2>2, <2>3
<1>5. QED BY <1>3, <1>4

LEMMA MultiplyCPBares ==
  ASSUME NEW a, IsCipher(a), a.packed \in BOOLEAN, NEW p
  PROVE  Bares(MultiplyCP(a, p, NewCipher), MultiplyCP(Bare(a), p, NewCipher))
<1> DEFINE zeros == \A i \in DOMAIN p.values : p.values[i] = 0
           one == Assigned(NewCipher, MultiplyPlain(a.data, p.values[1]))
           many == MultiplyMany(a, p, NewCipher)
           c == IF IsSingle(p) THEN one ELSE many
           r == MultiplyCP(a, p, NewCipher)
           s == MultiplyCP(Bare(a), p, NewCipher)
<1>1. Bare(a).zero = a.zero /\ Bare(a).packed = FALSE /\ Bare(a).data = a.data /\ IsData(a.data)
  BY BareCipher DEF IsCipher
<1>2. CASE a.zero \/ zeros
  <2>1. r = ZeroOut(NewCipher) /\ s = ZeroOut(NewCipher)
    BY <1>1, <1>2 DEF MultiplyCP
  <2>2. Bares(ZeroOut(NewCipher), ZeroOut(NewCipher))
    BY NewBares, BaresChanged DEF ZeroOut
  <2>3. QED BY <2>1, <2>2
<1>3. CASE ~(a.zero \/ zeros)
  <2>1. MultiplyMany(Bare(a), p, NewCipher) = many
    BY <1>1 DEF MultiplyMany
  <2>2. /\ r = IF c = Thrown THEN Thrown ELSE NonZeroOut([c EXCEPT !.packed = a.packed])
        /\ s = IF c = Thrown THEN Thrown ELSE NonZeroOut([c EXCEPT !.packed = FALSE])
    BY <1>1, <1>3, <2>1 DEF MultiplyCP, Then
  <2> HIDE DEF r, s
  <2>3. CASE c = Thrown
    <3>1. r = Thrown /\ s = Thrown
      BY <2>2, <2>3
    <3>2. QED BY <3>1 DEF Bares, r, s
  <2>4. CASE c # Thrown
    <3>1. IsCipher(c)
      <4>1. CASE IsSingle(p)
        <5>1. MultiplyPlain(a.data, p.values[1]) # Thrown => IsData(MultiplyPlain(a.data, p.values[1]))
          BY <1>1, MultiplyPlainHas DEF IsData
        <5>2. QED BY <2>4, <4>1, <5>1, NewIsCipher, AssignedCipher
      <4>2. CASE ~IsSingle(p)
        BY <2>4, <4>2, NewIsCipher, MultiplyManyCipher
      <4>3. QED BY <4>1, <4>2
    <3> HIDE DEF c
    <3>2. Bares([c EXCEPT !.packed = a.packed], [c EXCEPT !.packed = FALSE])
      BY <3>1, PackedBares
    <3>3. [c EXCEPT !.packed = a.packed] # Thrown
      BY <3>1, PackedCipher, CipherIsSome
    <3>4. Bares(NonZeroOut([c EXCEPT !.packed = a.packed]), NonZeroOut([c EXCEPT !.packed = FALSE]))
      BY <3>2, <3>3, BaresChanged DEF NonZeroOut
    <3>5. Bares(r, s)
      BY <2>2, <2>4, <3>4
    <3>6. QED BY <3>5 DEF r, s
  <2>5. QED BY <2>3, <2>4
<1>4. QED BY <1>2, <1>3

LEMMA LazyRescalingBares ==
  ASSUME NEW c, NEW d, Bares(c, d), c # Thrown
  PROVE  Bares(LazyRescaling(c), LazyRescaling(d))
<1>1. IsCipher(c) /\ d.zero = c.zero /\ d.data = c.data
  BY BaresParts
<1>2. CASE c.zero
  BY <1>1, <1>2 DEF LazyRescaling
<1>3. CASE ~c.zero
  <2> DEFINE e == RescaleToNext(c.data)
  <2>1. LazyRescaling(c) = Assigned(c, e) /\ LazyRescaling(d) = Assigned(d, e)
    BY <1>1, <1>3 DEF LazyRescaling
  <2>2. CASE e = Thrown
    BY <2>1, <2>2 DEF Assigned, Bares
  <2>3. CASE e # Thrown
    <3>1. IsData(e)
      BY <1>1, <2>3, RescaleToNextHas DEF IsCipher, IsData, RescaleToNext
    <3> HIDE DEF e
    <3>2. QED BY <2>1, <2>3, <3>1, BaresChanged DEF Assigned
  <2>4. QED BY <2>2, <2>3
<1>4. QED BY <1>2, <1>3

\* An element that can be marked, or is plain.
Markable(x) ==
  /\ IsElement(x) /\ x.e.packed \in BOOLEAN
  /\ ~x.cipher => x.e.packed = FALSE

LEMMA MarkableUnmarks == ASSUME NEW x, Markable(x) PROVE Unmarks(x, Unmarked(x))
BY DEF Markable, Unmarks

LEMMA CipherUnmarks ==
  ASSUME NEW c, NEW d, Bares(c, d), c # Thrown PROVE Unmarks(Cipher(c), Cipher(d))
<1>1. IsCipher(c) /\ c.packed \in BOOLEAN /\ d = Bare(c)
  BY DEF Bares
<1>2. QED BY <1>1, BareCipher, CipherElement DEF Unmarks

LEMMA ResultUnmarks ==
  ASSUME NEW x, Markable(x), NEW y, Markable(y), NEW c, NEW d, Bares(c, d)
  PROVE  UnmarksThree(Result(x, y, c), Result(Unmarked(x), Unmarked(y), d))
<1>1. CASE c = Thrown /\ d = Thrown
  BY <1>1 DEF Result, UnmarksThree
<1>2. CASE c # Thrown /\ d # Thrown
  <2>1. /\ Result(x, y, c) = <<x, y, Cipher(c)>>
        /\ Result(Unmarked(x), Unmarked(y), d) = <<Unmarked(x), Unmarked(y), Cipher(d)>>
    BY <1>2 DEF Result
  <2>2. Unmarks(x, Unmarked(x)) /\ Unmarks(y, Unmarked(y)) /\ Unmarks(Cipher(c), Cipher(d))
    BY <1>2, MarkableUnmarks, CipherUnmarks
  <2>3. QED BY <2>1, <2>2, TripleIsSome DEF UnmarksThree
<1>3. QED BY <1>1, <1>2 DEF Bares

LEMMA PlainResultUnmarks ==
  ASSUME NEW x, Markable(x), NEW y, Markable(y), NEW p
  PROVE  UnmarksThree(PlainResult(x, y, p), PlainResult(Unmarked(x), Unmarked(y), p))
<1>1. CASE p = Thrown
  BY <1>1 DEF PlainResult, UnmarksThree
<1>2. CASE p # Thrown
  <2>1. /\ PlainResult(x, y, p) = <<x, y, PlainOf(p)>>
        /\ PlainResult(Unmarked(x), Unmarked(y), p) = <<Unmarked(x), Unmarked(y), PlainOf(p)>>
    BY <1>2 DEF PlainResult
  <2>2. Unmarks(PlainOf(p), PlainOf(p))
    BY PlainElement, UnmarkedParts DEF Unmarks
  <2>3. Unmarks(x, Unmarked(x)) /\ Unmarks(y, Unmarked(y))
    BY MarkableUnmarks
  <2>4. QED BY <2>1, <2>2, <2>3, TripleIsSome DEF UnmarksThree
<1>3. QED BY <1>1, <1>2

LEMMA CipherResultsUnmark ==
  ASSUME NEW r, NEW s, BaresThree(r, s) PROVE UnmarksThree(CipherResults(r), CipherResults(s))
<1>1. CASE r = Thrown /\ s = Thrown
  BY <1>1 DEF CipherResults, UnmarksThree
<1>2. CASE /\ r # Thrown /\ s # Thrown
           /\ Unmarks(Cipher(r[1]), Cipher(s[1])) /\ Unmarks(Cipher(r[2]), Cipher(s[2]))
           /\ Unmarks(Cipher(r[3]), Cipher(s[3]))
  <2>1. /\ CipherResults(r) = <<Cipher(r[1]), Cipher(r[2]), Cipher(r[3])>>
        /\ CipherResults(s) = <<Cipher(s[1]), Cipher(s[2]), Cipher(s[3])>>
    BY <1>2 DEF CipherResults
  <2>2. QED BY <1>2, <2>1, TripleIsSome DEF UnmarksThree
<1>3. ASSUME NEW c, NEW d, Bares(c, d), c # Thrown PROVE Unmarks(Cipher(c), Cipher(d))
  BY <1>3, CipherUnmarks
<1>4. QED BY <1>1, <1>2, <1>3 DEF BaresThree

\* Sums of what is not marked differently, and products.
LEMMA AddUnmarks ==
  ASSUME NEW x, Markable(x), NEW y, Markable(y), ~MarkedDifferently(x, y)
  PROVE  UnmarksThree(AddOf(x, y), AddOf(Unmarked(x), Unmarked(y)))
<1> DEFINE u == Unmarked(x)
           w == Unmarked(y)
<1>1. /\ u.cipher = x.cipher /\ (~x.cipher => u = x /\ x.e.packed = FALSE)
      /\ (x.cipher => u.e = Bare(x.e) /\ IsCipher(x.e))
      /\ w.cipher = y.cipher /\ (~y.cipher => w = y /\ y.e.packed = FALSE)
      /\ (y.cipher => w.e = Bare(y.e) /\ IsCipher(y.e))
      /\ x.cipher \in BOOLEAN /\ y.cipher \in BOOLEAN
      /\ x.e.packed \in BOOLEAN /\ y.e.packed \in BOOLEAN
  BY UnmarkedParts DEF Markable, IsElement
<1>2. (x.cipher \/ y.cipher) => Out(x, y).e = NewCipher /\ Out(u, w).e = NewCipher
  BY <1>1, OutIsNew
<1> HIDE DEF u, w
<1>3. CASE x.cipher /\ y.cipher
  <2>1. /\ AddOf(x, y) = CipherResults(AddCC(x.e, y.e, NewCipher))
        /\ AddOf(u, w) = CipherResults(AddCC(Bare(x.e), Bare(y.e), NewCipher))
    BY <1>1, <1>2, <1>3 DEF AddOf, ScalarAdd
  <2>2. BaresThree(AddCC(x.e, y.e, NewCipher), AddCC(Bare(x.e), Bare(y.e), NewCipher))
    BY <1>1, <1>3, AddCCBares DEF MarkedDifferently
  <2>3. QED BY <2>1, <2>2, CipherResultsUnmark DEF u, w
<1>4. CASE x.cipher /\ ~y.cipher
  <2>1. /\ AddOf(x, y) = Result(x, y, AddCP(x.e, y.e, NewCipher))
        /\ AddOf(u, w) = Result(u, w, AddCP(Bare(x.e), y.e, NewCipher))
    BY <1>1, <1>2, <1>4 DEF AddOf, ScalarAdd
  <2>2. Bares(AddCP(x.e, y.e, NewCipher), AddCP(Bare(x.e), y.e, NewCipher))
    BY <1>1, <1>4, AddCPBares
  <2>3. QED BY <2>1, <2>2, ResultUnmarks DEF u, w
<1>5. CASE ~x.cipher /\ y.cipher
  <2>1. /\ AddOf(x, y) = Result(x, y, AddCP(y.e, x.e, NewCipher))
        /\ AddOf(u, w) = Result(u, w, AddCP(Bare(y.e), x.e, NewCipher))
    BY <1>1, <1>2, <1>5 DEF AddOf, ScalarAdd, AddPC
  <2>2. Bares(AddCP(y.e, x.e, NewCipher), AddCP(Bare(y.e), x.e, NewCipher))
    BY <1>1, <1>5, AddCPBares
  <2>3. QED BY <2>1, <2>2, ResultUnmarks DEF u, w
<1>6. CASE ~x.cipher /\ ~y.cipher
  <2>1. /\ AddOf(x, y) = PlainResult(x, y, AddPP(x.e, y.e))
        /\ AddOf(u, w) = PlainResult(u, w, AddPP(x.e, y.e))
    BY <1>1, <1>6 DEF AddOf, ScalarAdd
  <2>2. QED BY <2>1, PlainResultUnmarks DEF u, w
<1>7. QED BY <1>1, <1>3, <1>4, <1>5, <1>6

LEMMA RescaledUnmarks ==
  ASSUME NEW x, Markable(x), NEW y, Markable(y), x.cipher # y.cipher, NEW c, NEW d, Bares(c, d),
         ScalarMultiply(x, y, Out(x, y)) = Result(x, y, c),
         LET u == Unmarked(x)
             w == Unmarked(y)
         IN  ScalarMultiply(u, w, Out(u, w)) = Result(u, w, d)
  PROVE  UnmarksThree(MultiplyOf(x, y), MultiplyOf(Unmarked(x), Unmarked(y)))
<1> DEFINE u == Unmarked(x)
           w == Unmarked(y)
<1>1. u.cipher = x.cipher /\ w.cipher = y.cipher
  BY UnmarkedParts DEF Markable
<1> HIDE DEF u, w
<1>2. ScalarMultiply(u, w, Out(u, w)) = Result(u, w, d)
  BY DEF u, w
<1>3. CASE c = Thrown /\ d = Thrown
  BY <1>2, <1>3 DEF MultiplyOf, Result, UnmarksThree, u, w
<1>4. CASE c # Thrown /\ d # Thrown
  <2>1. /\ Result(x, y, c) = <<x, y, Cipher(c)>> /\ Result(x, y, c) # Thrown
        /\ Result(u, w, d) = <<u, w, Cipher(d)>> /\ Result(u, w, d) # Thrown
    BY <1>4, TripleIsSome DEF Result
  <2>2. Result(x, y, c)[3].e = c /\ Result(u, w, d)[3].e = d
    BY <2>1 DEF Cipher
  <2>3. /\ MultiplyOf(x, y) = Result(x, y, LazyRescaling(c))
        /\ MultiplyOf(u, w) = Result(u, w, LazyRescaling(d))
    BY <1>1, <1>2, <2>1, <2>2 DEF MultiplyOf
  <2>4. Bares(LazyRescaling(c), LazyRescaling(d))
    BY <1>4, LazyRescalingBares
  <2>5. QED BY <2>3, <2>4, ResultUnmarks DEF u, w
<1>5. QED BY <1>3, <1>4 DEF Bares

LEMMA MultiplyUnmarks ==
  ASSUME NEW x, Markable(x), NEW y, Markable(y)
  PROVE  UnmarksThree(MultiplyOf(x, y), MultiplyOf(Unmarked(x), Unmarked(y)))
<1> DEFINE u == Unmarked(x)
           w == Unmarked(y)
<1>1. /\ u.cipher = x.cipher /\ (~x.cipher => u = x)
      /\ (x.cipher => u.e = Bare(x.e) /\ IsCipher(x.e))
      /\ w.cipher = y.cipher /\ (~y.cipher => w = y)
      /\ (y.cipher => w.e = Bare(y.e) /\ IsCipher(y.e))
      /\ x.cipher \in BOOLEAN /\ y.cipher \in BOOLEAN
      /\ x.e.packed \in BOOLEAN /\ y.e.packed \in BOOLEAN
  BY UnmarkedParts DEF Markable, IsElement
<1>2. (x.cipher \/ y.cipher) => Out(x, y).e = NewCipher /\ Out(u, w).e = NewCipher
  BY <1>1, OutIsNew
<1> HIDE DEF u, w
<1>3. CASE x.cipher /\ y.cipher
  <2>1. /\ MultiplyOf(x, y) = CipherResults(MultiplyCC(x.e, y.e, NewCipher))
        /\ MultiplyOf(u, w) = CipherResults(MultiplyCC(Bare(x.e), Bare(y.e), NewCipher))
    BY <1>1, <1>2, <1>3 DEF MultiplyOf, ScalarMultiply
  <2>2. BaresThree(MultiplyCC(x.e, y.e, NewCipher), MultiplyCC(Bare(x.e), Bare(y.e), NewCipher))
    BY <1>1, <1>3, MultiplyCCBares
  <2>3. QED BY <2>1, <2>2, CipherResultsUnmark DEF u, w
<1>4. CASE x.cipher /\ ~y.cipher
  <2>1. /\ ScalarMultiply(x, y, Out(x, y)) = Result(x, y, MultiplyCP(x.e, y.e, NewCipher))
        /\ ScalarMultiply(u, w, Out(u, w)) = Result(u, w, MultiplyCP(Bare(x.e), y.e, NewCipher))
    BY <1>1, <1>2, <1>4 DEF ScalarMultiply
  <2>2. Bares(MultiplyCP(x.e, y.e, NewCipher), MultiplyCP(Bare(x.e), y.e, NewCipher))
    BY <1>1, <1>4, MultiplyCPBares
  <2>3. QED BY <1>4, <2>1, <2>2, RescaledUnmarks DEF u, w
<1>5. CASE ~x.cipher /\ y.cipher
  <2>1. /\ ScalarMultiply(x, y, Out(x, y)) = Result(x, y, MultiplyCP(y.e, x.e, NewCipher))
        /\ ScalarMultiply(u, w, Out(u, w)) = Result(u, w, MultiplyCP(Bare(y.e), x.e, NewCipher))
    BY <1>1, <1>2, <1>5 DEF ScalarMultiply, MultiplyPC
  <2>2. Bares(MultiplyCP(y.e, x.e, NewCipher), MultiplyCP(Bare(y.e), x.e, NewCipher))
    BY <1>1, <1>5, MultiplyCPBares
  <2>3. QED BY <1>5, <2>1, <2>2, RescaledUnmarks DEF u, w
<1>6. CASE ~x.cipher /\ ~y.cipher
  <2>1. /\ MultiplyOf(x, y) = PlainResult(x, y, MultiplyPP(x.e, y.e))
        /\ MultiplyOf(u, w) = PlainResult(u, w, MultiplyPP(x.e, y.e))
    BY <1>1, <1>6 DEF MultiplyOf, ScalarMultiply
  <2>2. QED BY <2>1, PlainResultUnmarks DEF u, w
<1>7. QED BY <1>1, <1>3, <1>4, <1>5, <1>6

-----------------------------------------------------------------------------
(* The kernels on elements of one number.                                  *)

\* r leaves x and y the numbers a and b that they are, and makes v of them.
Computes(r, x, y, a, b, v) ==
  /\ Reads(r[1], a) /\ r[1].cipher = x.cipher
  /\ Reads(r[2], b) /\ r[2].cipher = y.cipher
  /\ Reads(r[3], v) /\ r[3].cipher = (x.cipher \/ y.cipher)

LEMMA ReadsMarkable ==
  ASSUME NEW x, NEW v, Reads(x, v)
  PROVE  Markable(x) /\ IsElement(x) /\ x.cipher \in BOOLEAN
<1>1. IsElement(x) /\ x.cipher \in BOOLEAN
  BY DEF Reads, Sound, IsElement
<1>2. CASE x.cipher
  BY <1>1, <1>2 DEF Reads, Sound, CipherSound, Markable
<1>3. CASE ~x.cipher
  BY <1>1, <1>3, PlainParts DEF Reads, Sound, Markable
<1>4. QED BY <1>1, <1>2, <1>3

\* The operands and the result of an operation that is sound without marks.
LEMMA OpReads ==
  ASSUME BatchSize = 1, NEW x, NEW y, NEW r, Keeps(x, y, r), NEW s, UnmarksThree(r, s), r # Thrown,
         NEW a, NEW b, NEW v, NEW l \in Nat, NEW k \in Nat, OpSound(s, <<a>>, <<b>>, <<v>>, l, k)
  PROVE  Reads(r[1], a) /\ Reads(r[2], b) /\ Reads(r[3], v)
<1>1. IsElement(r[1]) /\ IsElement(r[2]) /\ IsElement(r[3])
  BY DEF Keeps
<1>2. Unmarks(r[1], s[1]) /\ Unmarks(r[2], s[2]) /\ Unmarks(r[3], s[3])
  BY DEF UnmarksThree
<1>3. ASSUME NEW x1, IsElement(x1), NEW y1, Unmarks(x1, y1), NEW w, NEW n \in Nat, Sound(y1, <<w>>, n)
      PROVE  Reads(x1, w)
  BY <1>3, MarkedSound, SoundReads DEF Unmarks
<1>4. QED BY <1>1, <1>2, <1>3 DEF OpSound

\* Those of an operation on one element that is real.
LEMMA RealReads ==
  ASSUME NEW r, NEW a, NEW b, NEW v, NEW l \in Nat, NEW k \in Nat,
         OpSound(r, <<a>>, <<b>>, <<v>>, l, k), Real(r[1]), Real(r[2]), Real(r[3])
  PROVE  Reads(r[1], a) /\ Reads(r[2], b) /\ Reads(r[3], v)
BY SoundReads DEF OpSound

\* The overload of a kernel makes a cipher of ciphers.
LEMMA OverloadsCiphers ==
  ASSUME NEW x, NEW y, x.cipher \in BOOLEAN, y.cipher \in BOOLEAN
  PROVE  /\ AddOf(x, y) # Thrown => AddOf(x, y)[3].cipher = (x.cipher \/ y.cipher)
         /\ MultiplyOf(x, y) # Thrown => MultiplyOf(x, y)[3].cipher = (x.cipher \/ y.cipher)
         /\ ReluOf(x) # Thrown => ReluOf(x)[3].cipher = x.cipher
         /\ \A alpha : BoundedReluOf(x, alpha) # Thrown => BoundedReluOf(x, alpha)[3].cipher = x.cipher
         /\ ~x.cipher /\ ~y.cipher /\ MinimumOf(x, y) # Thrown => ~MinimumOf(x, y)[3].cipher
<1>1. ASSUME NEW u, NEW w, NEW c
      PROVE  /\ Result(u, w, c) # Thrown => Result(u, w, c)[3].cipher = TRUE
             /\ PlainResult(u, w, c) # Thrown => PlainResult(u, w, c)[3].cipher = FALSE
             /\ CipherResults(c) # Thrown => CipherResults(c)[3].cipher = TRUE
  BY DEF Result, PlainResult, CipherResults, Cipher, PlainOf
<1>2. ASSUME NEW out, ScalarAdd(x, y, out) # Thrown PROVE ScalarAdd(x, y, out)[3].cipher = (x.cipher \/ y.cipher)
  BY <1>1, <1>2 DEF ScalarAdd
<1>3. ASSUME NEW out, ScalarMultiply(x, y, out) # Thrown
      PROVE  ScalarMultiply(x, y, out)[3].cipher = (x.cipher \/ y.cipher)
  BY <1>1, <1>3 DEF ScalarMultiply
<1>4. AddOf(x, y) # Thrown => AddOf(x, y)[3].cipher = (x.cipher \/ y.cipher)
  BY <1>2 DEF AddOf
<1>5. MultiplyOf(x, y) # Thrown => MultiplyOf(x, y)[3].cipher = (x.cipher \/ y.cipher)
  <2> DEFINE r == ScalarMultiply(x, y, Out(x, y))
  <2>1. MultiplyOf(x, y) = IF r = Thrown \/ x.cipher = y.cipher THEN r ELSE Result(x, y, LazyRescaling(r[3].e))
    BY DEF MultiplyOf
  <2>2. r # Thrown => r[3].cipher = (x.cipher \/ y.cipher)
    BY <1>3
  <2> HIDE DEF r
  <2>3. CASE r = Thrown \/ x.cipher = y.cipher
    BY <2>1, <2>2, <2>3
  <2>4. CASE ~(r = Thrown \/ x.cipher = y.cipher)
    <3>1. MultiplyOf(x, y) = Result(x, y, LazyRescaling(r[3].e))
      BY <2>1, <2>4
    <3>2. (x.cipher \/ y.cipher) = TRUE
      BY <2>4
    <3>3. QED BY <1>1, <3>1, <3>2
  <2>5. QED BY <2>3, <2>4
<1>6. ReluOf(x) # Thrown => ReluOf(x)[3].cipher = x.cipher
  BY <1>1 DEF ReluOf
<1>7. ASSUME NEW alpha, BoundedReluOf(x, alpha) # Thrown PROVE BoundedReluOf(x, alpha)[3].cipher = x.cipher
  BY <1>1, <1>7 DEF BoundedReluOf
<1>8. ~x.cipher /\ ~y.cipher /\ MinimumOf(x, y) # Thrown => ~MinimumOf(x, y)[3].cipher
  BY <1>1 DEF MinimumOf
<1>9. QED BY <1>4, <1>5, <1>6, <1>7, <1>8

\* case OP_TYPEID::Add
LEMMA AddComputes ==
  ASSUME BatchSize = 1, NEW x, NEW a, Reads(x, a), NEW y, NEW b, Reads(y, b),
         ~MarkedDifferently(x, y), ~Defective("add", Unmarked(x), Unmarked(y)),
         AddOf(x, y) # Thrown
  PROVE  Computes(AddOf(x, y), x, y, a, b, a + b)
<1> DEFINE r == AddOf(x, y)
           u == Unmarked(x)
           w == Unmarked(y)
           s == AddOf(u, w)
<1>1. a \in Int /\ b \in Int /\ a + b \in Int /\ BatchesFit /\ Places = {1} /\ Top \in Nat
  BY ReadsValues, SingleNumbers, ScaleType
<1>2. IsBatch(<<a + b>>)
  BY <1>1, SingleNumbers
<1>3. IsElement(x) /\ IsElement(y) /\ x.cipher \in BOOLEAN /\ y.cipher \in BOOLEAN
  BY ReadsMarkable
<1>4. UnmarksThree(r, s) /\ s # Thrown
  BY ReadsMarkable, AddUnmarks DEF UnmarksThree
<1>5. Larger(Top, Top) = Top /\ Top + 1 \in Nat
  BY <1>1 DEF Larger
<1>6. Reads(r[1], a) /\ Reads(r[2], b) /\ Reads(r[3], a + b)
  <2>1. Sound(u, <<a>>, Top) /\ Sound(w, <<b>>, Top)
    BY UnmarkedSound DEF Reads
  <2>2. \A k \in Places : <<a + b>>[k] = <<a>>[k] + <<b>>[k]
    BY <1>1
  <2> HIDE DEF u, w
  <2>3. OpSound(s, <<a>>, <<b>>, <<a + b>>, Larger(Top, Top), Larger(Top, Top))
    BY <1>1, <1>2, <1>4, <2>1, <2>2, AddOfSound DEF u, w
  <2>4. Keeps(x, y, r)
    BY <1>3, AddKeeps
  <2> HIDE DEF r, s
  <2>5. QED BY <1>1, <1>4, <1>5, <2>3, <2>4, OpReads DEF r
<1>7. r[1].cipher = x.cipher /\ r[2].cipher = y.cipher
  BY <1>3, AddKeeps DEF Keeps, Kept
<1>8. r[3].cipher = (x.cipher \/ y.cipher)
  BY <1>3, OverloadsCiphers
<1> HIDE DEF r
<1>9. QED BY <1>6, <1>7, <1>8 DEF Computes, r

\* case OP_TYPEID::Multiply
LEMMA MultiplyComputes ==
  ASSUME BatchSize = 1, EqualPrimes, NEW x, NEW a, Reads(x, a), NEW y, NEW b, Reads(y, b),
         ~Defective("multiply", Unmarked(x), Unmarked(y)),
         MultiplyOf(x, y) # Thrown
  PROVE  Computes(MultiplyOf(x, y), x, y, a, b, a * b)
<1> DEFINE r == MultiplyOf(x, y)
           u == Unmarked(x)
           w == Unmarked(y)
           s == MultiplyOf(u, w)
<1>1. a \in Int /\ b \in Int /\ a * b \in Int /\ BatchesFit /\ Places = {1} /\ Top \in Nat
  BY ReadsValues, SingleNumbers, ScaleType
<1>2. IsBatch(<<a * b>>)
  BY <1>1, SingleNumbers
<1>3. IsElement(x) /\ IsElement(y) /\ x.cipher \in BOOLEAN /\ y.cipher \in BOOLEAN
  BY ReadsMarkable
<1>4. UnmarksThree(r, s) /\ s # Thrown
  BY ReadsMarkable, MultiplyUnmarks DEF UnmarksThree
<1>5. Larger(Top, Top) = Top /\ Top + 1 \in Nat
  BY <1>1 DEF Larger
<1>6. Reads(r[1], a) /\ Reads(r[2], b) /\ Reads(r[3], a * b)
  <2>1. Sound(u, <<a>>, Top) /\ Sound(w, <<b>>, Top)
    BY UnmarkedSound DEF Reads
  <2>2. \A k \in Places : <<a * b>>[k] = <<a>>[k] * <<b>>[k]
    BY <1>1
  <2> HIDE DEF u, w
  <2>3. OpSound(s, <<a>>, <<b>>, <<a * b>>, Larger(Top, Top), Larger(Top, Top) + 1)
    BY <1>1, <1>2, <1>4, <2>1, <2>2, MultiplyOfSound DEF u, w
  <2>4. Keeps(x, y, r)
    BY <1>3, MultiplyKeeps
  <2> HIDE DEF r, s
  <2>5. QED BY <1>1, <1>4, <1>5, <2>3, <2>4, OpReads DEF r
<1>7. r[1].cipher = x.cipher /\ r[2].cipher = y.cipher
  BY <1>3, MultiplyKeeps DEF Keeps, Kept
<1>8. r[3].cipher = (x.cipher \/ y.cipher)
  BY <1>3, OverloadsCiphers
<1> HIDE DEF r
<1>9. QED BY <1>6, <1>7, <1>8 DEF Computes, r

\* case OP_TYPEID::Minimum, of plain numbers
LEMMA MinimumComputes ==
  ASSUME BatchSize = 1, NEW x, NEW a, Reads(x, a), NEW y, NEW b, Reads(y, b),
         ~Defective("minimum", Unmarked(x), Unmarked(y)), MinimumOf(x, y) # Thrown
  PROVE  Computes(MinimumOf(x, y), x, y, a, b, IF a < b THEN a ELSE b)
<1> DEFINE r == MinimumOf(x, y)
           v == IF a < b THEN a ELSE b
<1>1. a \in Int /\ b \in Int /\ v \in Int /\ BatchesFit /\ Places = {1} /\ Top \in Nat
  BY ReadsValues, SingleNumbers, ScaleType
<1>2. IsBatch(<<v>>)
  BY <1>1, SingleNumbers
<1>3. IsElement(x) /\ IsElement(y) /\ x.cipher \in BOOLEAN /\ y.cipher \in BOOLEAN
  BY ReadsMarkable
<1>4. ~x.cipher /\ ~y.cipher /\ Unmarked(x) = x /\ Unmarked(y) = y
  BY <1>3, UnmarkedParts DEF Defective
<1>5. OpSound(r, <<a>>, <<b>>, <<v>>, Larger(Top, Top), Larger(Top, Top))
  <2>1. \A k \in Places : <<v>>[k] = IF <<a>>[k] < <<b>>[k] THEN <<a>>[k] ELSE <<b>>[k]
    BY <1>1
  <2> HIDE DEF v
  <2>2. QED BY <1>1, <1>2, <1>4, <2>1, MinimumOfSound DEF Reads
<1>6. Larger(Top, Top) = Top
  BY DEF Larger
<1> HIDE DEF v
<1>7. Reads(r[1], a) /\ Reads(r[2], b) /\ Reads(r[3], v)
  <2>1. Keeps(x, y, r) /\ r # Thrown
    BY <1>3, MinimumKeeps
  <2>2. r[1].cipher = x.cipher /\ r[2].cipher = y.cipher /\ r[3].cipher \in BOOLEAN
    BY <2>1 DEF Keeps, Kept, IsElement
  <2>3. ~r[3].cipher
    BY <1>3, <1>4, <2>1, <2>2, OverloadsCiphers
  <2> HIDE DEF r
  <2>4. Real(r[1]) /\ Real(r[2]) /\ Real(r[3])
    BY <1>4, <2>2, <2>3 DEF Real
  <2>5. QED BY <1>1, <1>5, <1>6, <2>4, RealReads
<1>8. r[1].cipher = x.cipher /\ r[2].cipher = y.cipher
  BY <1>3, MinimumKeeps DEF Keeps, Kept
<1>9. r[3].cipher \in BOOLEAN /\ ~r[3].cipher
  BY <1>3, <1>4, <1>7, OverloadsCiphers DEF Reads, Sound, IsElement
<1> HIDE DEF r
<1>10. QED BY <1>3, <1>4, <1>7, <1>8, <1>9 DEF Computes, r, v

\* What a packed ciphertext that is real decrypts to has zeros at even places, and
\* what has is real when it is encrypted.
EvenZeros(p) ==
  p.packed => /\ IsSingle(p) => p.values[1] = 0
              /\ \A i \in DOMAIN p.values : i % 2 = 0 => p.values[i] = 0

LEMMA RealDecrypted ==
  ASSUME BatchSize = 1, NEW x, NEW a, Reads(x, a), x.cipher
  PROVE  EvenZeros(Decrypt(x.e))
<1> DEFINE c == x.e
           slots == c.data.slots
           p == Decrypt(c)
<1>1. CipherSound(c, <<a>>, Top) /\ Slots \in Nat \ {0} /\ c.zero \in BOOLEAN
  BY SizesType DEF Reads, Sound, CipherSound
<1>2. CASE c.zero
  <2>1. p.values = [i \in 1..Slots |-> 0]
    BY <1>2 DEF Decrypt, Plain
  <2> HIDE DEF p
  <2>2. EvenZeros(p)
    BY <1>1, <2>1 DEF EvenZeros
  <2>3. QED BY <2>2 DEF p
<1>3. CASE ~c.zero
  <2>1. /\ Holds(c.data, c.packed, <<a>>) /\ c.data # NoData
        /\ \A i \in 1..Slots : slots[i][2] = 0
    BY <1>1, <1>3, HasDataIsSome DEF CipherSound, Holds, Reads, Real
  <2>2. Len(slots) = Slots
    BY <2>1, PairParts DEF Holds
  <2>3. p = Plain(IF c.packed THEN RealsOf(slots) ELSE [i \in 1..Slots |-> slots[i][1]], c.packed)
    BY <1>3, <2>1 DEF Decrypt, Decode
  <2>4. p.packed = c.packed
    BY <2>3 DEF Plain
  <2> SUFFICES ASSUME c.packed PROVE EvenZeros(p)
    BY <2>4 DEF EvenZeros
  <2> HIDE DEF slots
  <2>5. p.values = [i \in 1..(2 * Slots) |-> slots[(i+1) \div 2][IF i % 2 = 1 THEN 1 ELSE 2]]
    BY <2>2, <2>3 DEF Plain, RealsOf
  <2>6. ASSUME NEW i \in 1..(2 * Slots), i % 2 = 0 PROVE p.values[i] = 0
    <3>1. (i + 1) \div 2 \in 1..Slots
      BY <1>1
    <3>2. QED BY <2>1, <2>5, <2>6, <3>1
  <2> HIDE DEF p
  <2>7. Len(p.values) = 2 * Slots /\ DOMAIN p.values = 1..(2 * Slots)
    BY <1>1, <2>5
  <2>8. ~IsSingle(p)
    BY <1>1, <2>7 DEF IsSingle
  <2>9. QED BY <2>6, <2>7, <2>8 DEF EvenZeros, p
<1>4. QED BY <1>1, <1>2, <1>3

LEMMA HalfUp == \A n \in Nat : (n + 1) \div 2 \in Nat
OBVIOUS

LEMMA RealEncrypted ==
  ASSUME NEW p, p.packed \in BOOLEAN, p.values \in Seq(Int), EvenZeros(p), Encrypt(NewCipher, p) # Thrown
  PROVE  Real(Cipher(Encrypt(NewCipher, p)))
<1> DEFINE c == Encrypt(NewCipher, p)
           slots == SlotsOf(p)
<1>1. Encode(p) # Thrown /\ Slots \in Nat /\ p.values \in [1..Len(p.values) -> Int] /\ Len(p.values) \in Nat
  BY SizesType, LenProperties DEF Encrypt
<1>2. CASE IsSingle(p) /\ p.values[1] = 0
  <2>1. c = [NewCipher EXCEPT !.zero = TRUE, !.packed = p.packed]
    BY <1>1, <1>2 DEF Encrypt
  <2>2. c.zero = TRUE
    BY <2>1, NewIsCipher DEF IsCipher
  <2>3. QED BY <2>2, CipherElement DEF Real, Cipher
<1>3. CASE ~(IsSingle(p) /\ p.values[1] = 0)
  <2>1. c = [Assigned(NewCipher, Encode(p)) EXCEPT !.packed = p.packed]
    BY <1>1, <1>3 DEF Encrypt
  <2>2. c.data = Encode(p)
    BY <1>1, <2>1, NewIsCipher DEF Assigned, IsCipher
  <2>3. Encode(p) = Data(Top, Scale, Padded(slots))
    BY <1>1 DEF Encode, EncodeAt
  <2>4. c.data.slots = Padded(slots)
    BY <2>2, <2>3 DEF Data
  <2>5. ASSUME NEW i \in 1..Len(slots), i \in 1..Slots PROVE slots[i][2] = 0
    <3>1. CASE IsSingle(p)
      <4>1. ~p.packed
        BY <1>3, <3>1 DEF EvenZeros
      <4>2. slots = [k \in 1..Slots |-> <<p.values[1], 0>>]
        BY <3>1, <4>1 DEF SlotsOf
      <4> HIDE DEF slots
      <4>3. QED BY <2>5, <4>2
    <3>2. CASE ~IsSingle(p) /\ p.packed
      <4> DEFINE n == (Len(p.values) + 1) \div 2
      <4>1. slots = [k \in 1..n |-> <<p.values[2*k - 1], IF 2*k <= Len(p.values) THEN p.values[2*k] ELSE 0>>]
        BY <3>2 DEF SlotsOf, PairsOf
      <4>2. n \in Nat
        BY <1>1, HalfUp
      <4> HIDE DEF slots
      <4>3. i \in 1..n
        <5> HIDE DEF n
        <5>1. QED BY <2>5, <4>1, <4>2
      <4>4. slots[i][2] = IF 2*i <= Len(p.values) THEN p.values[2*i] ELSE 0
        BY <4>1, <4>3
      <4>5. (2*i) % 2 = 0 /\ (2*i <= Len(p.values) => 2*i \in DOMAIN p.values)
        BY <1>1, <2>5
      <4>6. QED BY <3>2, <4>4, <4>5 DEF EvenZeros
    <3>3. CASE ~IsSingle(p) /\ ~p.packed
      <4>1. slots = [k \in 1..Len(p.values) |-> <<p.values[k], 0>>]
        BY <3>3 DEF SlotsOf
      <4> HIDE DEF slots
      <4>2. Len(slots) = Len(p.values)
        BY <1>1, <4>1
      <4>3. QED BY <2>5, <4>1, <4>2
    <3>4. QED BY <3>1, <3>2, <3>3
  <2>6. Len(slots) \in Nat
    <3>1. CASE IsSingle(p)
      BY <1>1, <3>1 DEF SlotsOf
    <3>2. CASE ~IsSingle(p) /\ p.packed
      <4> DEFINE n == (Len(p.values) + 1) \div 2
      <4>1. slots = [k \in 1..n |-> <<p.values[2*k - 1], IF 2*k <= Len(p.values) THEN p.values[2*k] ELSE 0>>]
        BY <3>2 DEF SlotsOf, PairsOf
      <4>2. n \in Nat
        BY <1>1, HalfUp
      <4> HIDE DEF slots, n
      <4>3. QED BY <4>1, <4>2
    <3>3. CASE ~IsSingle(p) /\ ~p.packed
      BY <1>1, <3>3 DEF SlotsOf
    <3>4. QED BY <3>1, <3>2, <3>3
  <2> HIDE DEF slots
  <2>7. ASSUME NEW i \in 1..Slots PROVE Padded(slots)[i][2] = 0
    BY <1>1, <2>5, <2>6 DEF Padded
  <2> HIDE DEF c
  <2>8. \A i \in 1..Slots : c.data.slots[i][2] = 0
    BY <2>4, <2>7
  <2>9. QED BY <2>8 DEF Real, Cipher, c
<1>4. QED BY <1>2, <1>3

\* So is what a function of it that leaves zero alone gives.
LEMMA RealActivated ==
  ASSUME BatchSize = 1, NEW x, NEW a, Reads(x, a), x.cipher,
         NEW h \in [Int -> Int], h[0] = 0,
         NEW q, q = Plain(EachValue(h, Decrypt(x.e)), Decrypt(x.e).packed), Encrypt(NewCipher, q) # Thrown
  PROVE  Real(Cipher(Encrypt(NewCipher, q)))
<1> DEFINE p == Decrypt(x.e)
<1>1. /\ p = Plain(p.values, x.e.packed) /\ p.values \in Seq(Int) /\ x.e.packed \in BOOLEAN
      /\ Means(p, <<a>>)
  <2>1. CipherSound(x.e, <<a>>, Top) /\ IsBatch(<<a>>)
    BY DEF Reads, Sound
  <2> HIDE DEF p
  <2>2. p = Plain(p.values, x.e.packed) /\ Means(p, <<a>>)
    BY <2>1, SingleNumbers, DecryptMeans DEF p
  <2>3. QED BY <2>1, <2>2 DEF CipherSound, Means
<1>2. EvenZeros(p)
  BY RealDecrypted
<1> HIDE DEF p
<1>3. p.packed = x.e.packed
  BY <1>1 DEF Plain
<1>4. q.values = EachValue(h, p) /\ q.packed = p.packed
  BY DEF Plain, p
<1>5. /\ q.values = [i \in 1..Len(p.values) |-> h[p.values[i]]]
      /\ Len(p.values) \in Nat /\ DOMAIN p.values = 1..Len(p.values)
      /\ \A i \in 1..Len(p.values) : p.values[i] \in Int
  BY <1>1, <1>4, LenProperties, ElementOfSeq DEF EachValue
<1>6. q.values \in Seq(Int) /\ Len(q.values) = Len(p.values) /\ DOMAIN q.values = 1..Len(p.values)
  <2>1. \A i \in 1..Len(p.values) : h[p.values[i]] \in Int
    BY <1>5
  <2>2. q.values \in [1..Len(p.values) -> Int]
    BY <1>5, <2>1
  <2>3. QED BY <1>5, <2>2
<1>7. EvenZeros(q)
  <2> SUFFICES ASSUME q.packed PROVE EvenZeros(q)
    BY DEF EvenZeros
  <2>1. \A i \in DOMAIN q.values : q.values[i] = h[p.values[i]]
    BY <1>5, <1>6
  <2>2. IsSingle(q) => p.values[1] = 0 /\ 1 \in DOMAIN q.values
    BY <1>2, <1>4, <1>5, <1>6 DEF EvenZeros, IsSingle
  <2>3. \A i \in DOMAIN q.values : i % 2 = 0 => p.values[i] = 0
    BY <1>2, <1>4, <1>5, <1>6 DEF EvenZeros
  <2>4. QED BY <2>1, <2>2, <2>3 DEF EvenZeros
<1>8. QED BY <1>1, <1>3, <1>4, <1>6, <1>7, RealEncrypted

LEMMA DecryptedParts ==
  ASSUME BatchSize = 1, NEW x, NEW a, Reads(x, a), x.cipher
  PROVE  /\ Decrypt(x.e) # Thrown /\ Decrypt(x.e).values \in Seq(Int)
         /\ Decrypt(x.e) = Plain(Decrypt(x.e).values, Decrypt(x.e).packed)
<1> DEFINE p == Decrypt(x.e)
<1>1. CipherSound(x.e, <<a>>, Top) /\ IsBatch(<<a>>)
  BY DEF Reads, Sound
<1>2. p # Thrown /\ p = Plain(p.values, x.e.packed) /\ Means(p, <<a>>)
  BY <1>1, SingleNumbers, DecryptMeans
<1>3. p.packed = x.e.packed /\ p.values \in Seq(Int)
  BY <1>2 DEF Plain, Means
<1>4. QED BY <1>2, <1>3

\* case OP_TYPEID::Relu, without a client
LEMMA ReluComputes ==
  ASSUME BatchSize = 1, NEW x, NEW a, Reads(x, a), ReluOf(x) # Thrown
  PROVE  Computes(ReluOf(x), x, x, a, a, Relu(a))
<1> DEFINE r == ReluOf(x)
<1>1. a \in Int /\ Relu(a) \in Int /\ BatchesFit /\ Places = {1} /\ Top \in Nat
  BY ReadsValues, SingleNumbers, ScaleType DEF Relu
<1>2. IsBatch(<<Relu(a)>>)
  BY <1>1, SingleNumbers
<1>3. IsElement(x) /\ x.cipher \in BOOLEAN
  BY DEF Reads, Sound, IsElement
<1>4. OpSound(r, <<a>>, <<a>>, <<Relu(a)>>, Top, 0)
  <2>1. \A k \in Places : <<Relu(a)>>[k] = Relu(<<a>>[k])
    BY <1>1
  <2>2. QED BY <1>1, <1>2, <2>1, ReluOfSound DEF Reads
<1>5. r[1].cipher = x.cipher /\ r[2].cipher = x.cipher
  BY <1>3, UnaryKeeps DEF Keeps, Kept
<1>6. r[3].cipher = x.cipher
  BY <1>3, OverloadsCiphers
<1>7. Real(r[1]) /\ Real(r[2]) /\ Real(r[3])
  <2>1. CASE ~x.cipher
    <3> HIDE DEF r
    <3>1. QED BY <1>5, <1>6, <2>1 DEF Real
  <2>2. CASE x.cipher
    <3> DEFINE p == Decrypt(x.e)
               q == Plain(EachValue(ReluFunction, p), p.packed)
    <3>1. p # Thrown /\ p = Plain(p.values, p.packed) /\ p.values \in Seq(Int)
      BY <2>2, DecryptedParts
    <3> HIDE DEF p
    <3>2. MapPlain(Relu, p) = q
      BY <3>1, MapRelu
    <3>3. ReluC(x.e, NewCipher) = Encrypt(NewCipher, q)
      BY <3>1, <3>2 DEF ReluC, Then, p
    <3>4. r = Result(x, x, Encrypt(NewCipher, q))
      BY <2>2, <3>3 DEF ReluOf
    <3>5. Encrypt(NewCipher, q) # Thrown
      BY <3>4 DEF Result
    <3>6. ReluFunction \in [Int -> Int] /\ ReluFunction[0] = 0
      BY FunctionTypes DEF ReluFunction, Relu
    <3> HIDE DEF q
    <3>7. Real(Cipher(Encrypt(NewCipher, q)))
      BY <2>2, <3>5, <3>6, RealActivated DEF p, q
    <3> HIDE DEF r
    <3>8. r[1] = x /\ r[2] = x /\ r[3] = Cipher(Encrypt(NewCipher, q))
      BY <3>4, <3>5 DEF Result
    <3>9. QED BY <3>7, <3>8 DEF Reads
  <2>3. QED BY <2>1, <2>2
<1>8. Reads(r[1], a) /\ Reads(r[2], a) /\ Reads(r[3], Relu(a))
  <2> HIDE DEF r
  <2>1. QED BY <1>1, <1>4, <1>7, RealReads
<1> HIDE DEF r
<1>9. QED BY <1>3, <1>5, <1>6, <1>8 DEF Computes, r

\* case OP_TYPEID::BoundedRelu, without a client
LEMMA BoundedReluComputes ==
  ASSUME BatchSize = 1, NEW alpha \in Nat, NEW x, NEW a, Reads(x, a), BoundedReluOf(x, alpha) # Thrown
  PROVE  Computes(BoundedReluOf(x, alpha), x, x, a, a, IF Relu(a) < alpha THEN Relu(a) ELSE alpha)
<1> DEFINE r == BoundedReluOf(x, alpha)
           v == IF Relu(a) < alpha THEN Relu(a) ELSE alpha
<1>1. a \in Int /\ v \in Int /\ BatchesFit /\ Places = {1} /\ Top \in Nat
  BY ReadsValues, SingleNumbers, ScaleType DEF Relu
<1>2. IsBatch(<<v>>)
  BY <1>1, SingleNumbers
<1>3. IsElement(x) /\ x.cipher \in BOOLEAN
  BY DEF Reads, Sound, IsElement
<1>4. \A k \in Places : <<v>>[k] = IF Relu(<<a>>[k]) < alpha THEN Relu(<<a>>[k]) ELSE alpha
  BY <1>1
<1> HIDE DEF v
<1>5. OpSound(r, <<a>>, <<a>>, <<v>>, Top, 0)
  BY <1>1, <1>2, <1>4, BoundedReluOfSound DEF Reads
<1>6. r[1].cipher = x.cipher /\ r[2].cipher = x.cipher
  BY <1>3, UnaryKeeps DEF Keeps, Kept
<1>7. r[3].cipher = x.cipher
  BY <1>3, OverloadsCiphers
<1>8. Real(r[1]) /\ Real(r[2]) /\ Real(r[3])
  <2>1. CASE ~x.cipher
    <3> HIDE DEF r
    <3>1. QED BY <1>6, <1>7, <2>1 DEF Real
  <2>2. CASE x.cipher
    <3> DEFINE p == Decrypt(x.e)
               q == Plain(EachValue(BoundedFunction(alpha), p), p.packed)
    <3>1. p # Thrown /\ p = Plain(p.values, p.packed) /\ p.values \in Seq(Int)
      BY <2>2, DecryptedParts
    <3> HIDE DEF p
    <3>2. MapPlain(LAMBDA z : BoundedRelu(z, alpha), p) = q
      BY <3>1, MapBoundedRelu
    <3>3. BoundedReluC(x.e, NewCipher, alpha) = Encrypt(NewCipher, q)
      BY <3>1, <3>2 DEF BoundedReluC, Then, p
    <3>4. r = Result(x, x, Encrypt(NewCipher, q))
      BY <2>2, <3>3 DEF BoundedReluOf
    <3>5. Encrypt(NewCipher, q) # Thrown
      BY <3>4 DEF Result
    <3>6. BoundedFunction(alpha) \in [Int -> Int] /\ BoundedFunction(alpha)[0] = 0
      BY FunctionTypes DEF BoundedFunction, BoundedRelu
    <3> HIDE DEF q
    <3>7. Real(Cipher(Encrypt(NewCipher, q)))
      <4> DEFINE f == BoundedFunction(alpha)
      <4> HIDE DEF f
      <4>1. f \in [Int -> Int] /\ f[0] = 0 /\ q = Plain(EachValue(f, Decrypt(x.e)), Decrypt(x.e).packed)
        BY <3>6 DEF f, q, p
      <4>2. QED BY <2>2, <3>5, <4>1, RealActivated
    <3> HIDE DEF r
    <3>8. r[1] = x /\ r[2] = x /\ r[3] = Cipher(Encrypt(NewCipher, q))
      BY <3>4, <3>5 DEF Result
    <3>9. QED BY <3>7, <3>8 DEF Reads
  <2>3. QED BY <2>1, <2>2
<1>9. Reads(r[1], a) /\ Reads(r[2], a) /\ Reads(r[3], v)
  <2> HIDE DEF r
  <2>1. QED BY <1>1, <1>5, <1>8, RealReads
<1> HIDE DEF r
<1>10. QED BY <1>3, <1>6, <1>7, <1>9 DEF Computes, r, v

-----------------------------------------------------------------------------
(* Encryption, by the executable and by the client.                        *)

\* A ciphertext that a number can be encrypted into, which keeps its zero flag.
IsTarget(out) == IsCipher(out) /\ out.zero \in BOOLEAN

\* A new ciphertext is one.
LEMMA NewIsTarget == IsTarget(NewCipher)
BY NewIsCipher DEF IsTarget, NewCipher

\* A number that is encrypted, where no zero flag stays set for another.
LEMMA EncryptReads ==
  ASSUME BatchSize = 1, NEW out, IsTarget(out), NEW p, NEW v, v \in Int, PlainSound(p, <<v>>),
         ~(out.zero /\ p.values[1] # 0), Encrypt(out, p) # Thrown
  PROVE  Reads(Cipher(Encrypt(out, p)), v) /\ IsTarget(Encrypt(out, p)) /\ ~Encrypt(out, p).packed
<1> DEFINE c == Encrypt(out, p)
           m == <<v>>
<1>1. /\ BatchesFit /\ Places = {1} /\ IsBatch(m) /\ Means(p, m) /\ p.packed = FALSE
      /\ IsCipher(out) /\ out.zero \in BOOLEAN
  BY SingleNumbers, PlainParts DEF IsTarget
<1>2. Encode(p) # Thrown /\ IsCipher(c)
  BY <1>1, EncryptCipher DEF Encrypt
<1>3. v = p.values[1]
  <2>1. m[1] = v /\ m[1] = p.values[1]
    BY <1>1 DEF Means, ValueAt
  <2>2. QED BY <2>1
<1>4. CipherSound(c, m, 0) /\ c.zero \in BOOLEAN /\ c.packed = FALSE
  <2>1. CASE IsSingle(p) /\ p.values[1] = 0
    <3>1. c = [out EXCEPT !.zero = TRUE, !.packed = p.packed]
      BY <1>2, <2>1 DEF Encrypt
    <3>2. c.zero = TRUE /\ c.packed = p.packed
      BY <1>1, <3>1 DEF IsCipher
    <3>3. \A k \in Places : m[k] = 0
      BY <1>1, <1>3, <2>1
    <3> HIDE DEF c, m
    <3>4. QED BY <1>1, <1>2, <3>2, <3>3 DEF CipherSound
  <2>2. CASE ~(IsSingle(p) /\ p.values[1] = 0)
    <3> DEFINE d == Encode(p)
    <3>1. Holds(d, p.packed, m) /\ d.level = Top /\ d.scale = Scale
      <4>1. p.packed \in BOOLEAN /\ EncodeAt(p, Top, Scale) # Thrown /\ Top \in Levels
        BY <1>1, <1>2, LevelsInt DEF Encode
      <4> HIDE DEF m
      <4>2. QED BY <1>1, <4>1, EncodeHolds DEF Encode
    <3>2. d # Thrown
      BY <1>2
    <3> HIDE DEF d
    <3>3. c = [[out EXCEPT !.data = d] EXCEPT !.packed = p.packed]
      BY <1>2, <2>2, <3>2 DEF Encrypt, Assigned, d
    <3>4. c.zero = out.zero /\ c.packed = p.packed /\ c.data = d
      BY <1>1, <3>3 DEF IsCipher
    <3>5. c.zero => \A k \in Places : m[k] = 0
      BY <1>1, <1>3, <3>4
    <3>6. Paid(d, 0)
      BY <3>1, ScaleType DEF Paid
    <3> HIDE DEF c, m
    <3>7. QED BY <1>1, <1>2, <3>1, <3>4, <3>5, <3>6 DEF CipherSound
  <2>3. QED BY <2>1, <2>2
<1> HIDE DEF c
<1>5. Sound(Cipher(c), m, 0)
  BY <1>1, <1>4, CipherGives
<1>6. Real(Cipher(c))
  BY <1>4, <1>5, NotPackedReal DEF Cipher
<1>7. QED BY <1>2, <1>4, <1>5, <1>6, SoundReads DEF IsTarget, c

\* What the client encodes, whatever it is marked as.
LEMMA BatchSound ==
  ASSUME BatchSize = 1, NEW v \in Int, EncodeBatch([k \in 1..BatchSize |-> v]) # Thrown,
         NEW packed \in BOOLEAN, NEW c,
         c = [zero |-> FALSE, packed |-> packed, data |-> EncodeBatch([k \in 1..BatchSize |-> v])]
  PROVE  Sound(Cipher(c), <<v>>, 0) /\ Real(Cipher(c)) /\ Reads(Cipher(c), v)
<1> DEFINE values == [k \in 1..BatchSize |-> v]
           pairs == [k \in DOMAIN values |-> <<values[k], 0>>]
           slots == Padded(pairs)
           d == EncodeBatch(values)
<1>1. Slots \in Nat \ {0} /\ Places = {1} /\ IsBatch(<<v>>) /\ Top \in Levels
  BY SizesType, SingleNumbers, LevelsInt
<1>2. DOMAIN pairs = 1..1 /\ pairs[1] = <<v, 0>> /\ Len(pairs) = 1
  OBVIOUS
<1>3. d = Data(Top, Scale, slots)
  BY DEF EncodeBatch
<1> HIDE DEF pairs, values
<1>4. slots \in [1..Slots -> Int \X Int] /\ slots[1][1] = v /\ \A i \in 1..Slots : slots[i][2] = 0
  <2>1. slots = [i \in 1..Slots |-> IF i <= 1 THEN pairs[i] ELSE <<0, 0>>]
    BY <1>2 DEF Padded
  <2>2. \A i \in 1..Slots : i <= 1 => i = 1
    BY <1>1
  <2>3. 1 \in 1..Slots /\ 1 <= 1
    BY <1>1
  <2>4. \A i \in 1..Slots : slots[i] = IF i = 1 THEN <<v, 0>> ELSE <<0, 0>>
    BY <1>2, <2>1, <2>2, <2>3
  <2>5. <<v, 0>> \in Int \X Int /\ <<0, 0>> \in Int \X Int
    OBVIOUS
  <2>6. slots \in [1..Slots -> Int \X Int]
    BY <2>1, <2>4, <2>5
  <2> HIDE DEF slots
  <2>7. QED BY <2>3, <2>4, <2>6
<1> HIDE DEF slots
<1>5. HasData(d) /\ d.level = Top /\ d.scale = Scale /\ d.slots = slots
  <2>1. DOMAIN slots = 1..Slots
    BY <1>4
  <2>2. QED BY <1>1, <1>3, <2>1, DataHas
<1> HIDE DEF d
<1>6. \A k \in Places : Number(slots, packed, k) = <<v>>[k]
  BY <1>1, <1>4, FirstNumber
<1>7. Holds(d, packed, <<v>>) /\ Paid(d, 0)
  BY <1>4, <1>5, <1>6, ScaleType DEF Holds, ArePairs, Paid
<1>8. c = [zero |-> FALSE, packed |-> packed, data |-> d]
  BY DEF d, values
<1>9. CipherSound(c, <<v>>, 0)
  BY <1>7, <1>8, NewCipherData
<1>10. Sound(Cipher(c), <<v>>, 0)
  BY <1>1, <1>9, CipherGives
<1>11. Real(Cipher(c))
  <2>1. c.data.slots = slots
    BY <1>5, <1>8
  <2>2. Cipher(c).e = c
    BY DEF Cipher
  <2>3. QED BY <1>4, <2>1, <2>2 DEF Real
<1>12. QED BY <1>10, <1>11, SoundReads

\* What it encodes, if it fits.
LEMMA BatchEncoded ==
  ASSUME BatchSize = 1, NEW v \in Int, Fits(v, Scale, Top)
  PROVE  EncodeBatch([k \in 1..BatchSize |-> v]) # Thrown
<1> DEFINE values == [k \in 1..BatchSize |-> v]
<1>1. Len(values) = 1 /\ \A k \in DOMAIN values : values[k] = v
  OBVIOUS
<1> HIDE DEF values
<1>2. 1 <= Slots
  BY SizesType
<1>3. EncodeBatch(values) # Thrown
  BY <1>1, <1>2, DataIsSome DEF EncodeBatch
<1>4. QED BY <1>3 DEF values

\* An input of the client.
LEMMA ClientInputReads ==
  ASSUME BatchSize = 1, NEW v \in Int, Encode(Plain(<<v>>, FALSE)) # Thrown
  PROVE  /\ Reads(ClientInput(v), v) /\ ClientInput(v).cipher = TRUE
         /\ Sound(ClientInput(v), <<v>>, 0)
<1> DEFINE values == [k \in 1..BatchSize |-> v]
           p == Plain(<<v>>, FALSE)
<1>1. Fits(v, Scale, Top)
  <2>1. \A i \in DOMAIN p.values : Fits(p.values[i], Scale, Top)
    BY DEF Encode, EncodeAt
  <2>2. p.values = <<v>> /\ 1 \in DOMAIN <<v>> /\ <<v>>[1] = v
    BY DEF Plain
  <2>3. QED BY <2>1, <2>2
<1>4. EncodeBatch(values) # Thrown
  BY <1>1, BatchEncoded
<1> HIDE DEF values
<1>5. ClientInput(v) = Cipher([zero |-> FALSE, packed |-> TRUE, data |-> EncodeBatch(values)])
  BY DEF ClientInput, values
<1>6. Cipher([zero |-> FALSE, packed |-> TRUE, data |-> EncodeBatch(values)]).cipher = TRUE
  BY DEF Cipher
<1>7. QED BY <1>4, <1>5, <1>6, BatchSound DEF values

\* What the client decodes is what it holds.
LEMMA Decoded ==
  ASSUME BatchSize = 1, NEW x, NEW a, Reads(x, a), x.cipher, ~x.e.zero
  PROVE  x.e.data # NoData /\ \A k \in 1..BatchSize : ClientDecodes(x.e.data)[k] = a
<1>1. Holds(x.e.data, x.e.packed, <<a>>) /\ x.e.packed \in BOOLEAN
  BY DEF Reads, Sound, CipherSound
<1>2. 1 \in Places /\ Places = 1..BatchSize /\ \A k \in 1..BatchSize : k = 1
  BY SingleNumbers DEF Places
<1>3. x.e.data.slots[1][1] = a
  BY <1>1, <1>2, FirstNumber DEF Holds
<1>4. QED BY <1>1, <1>2, <1>3, HasDataIsSome DEF ClientDecodes, Holds

\* What the executable makes of the answer for what a ciphertext holds.
LEMMA AskedComputes ==
  ASSUME BatchSize = 1, NEW x, NEW a, Reads(x, a), x.cipher, NEW v \in Int, NEW r, r # Thrown,
         r = Result(x, x, Answer([k \in 1..BatchSize |-> v]))
  PROVE  Computes(r, x, x, a, a, v)
<1> DEFINE values == [k \in 1..BatchSize |-> v]
           c == Answer(values)
<1>1. c # Thrown /\ r = <<x, x, Cipher(c)>>
  BY DEF Result
<1>2. EncodeBatch(values) # Thrown
  BY <1>1 DEF Answer, Assigned
<1>3. c = [zero |-> FALSE, packed |-> FALSE, data |-> EncodeBatch(values)]
  BY <1>2, AssignedSome DEF Answer
<1>4. Reads(Cipher(c), v)
  <2> HIDE DEF c
  <2>1. QED BY <1>2, <1>3, BatchSound
<1> HIDE DEF c
<1>5. r[1] = x /\ r[2] = x /\ r[3] = Cipher(c)
  BY <1>1
<1>6. Cipher(c).cipher = TRUE /\ x.cipher = TRUE
  BY DEF Cipher, Reads, Sound, IsElement
<1>7. QED BY <1>4, <1>5, <1>6 DEF Computes

\* Activations of a number.
LEMMA ActivationTypes ==
  ASSUME NEW a \in Int, NEW alpha \in Nat
  PROVE  /\ Relu(a) \in Int /\ Relu(a) \in {0, a}
         /\ BoundedRelu(a, alpha) \in Int /\ BoundedRelu(a, alpha) \in {0, a, alpha}
         /\ BoundedRelu(a, alpha) = IF Relu(a) < alpha THEN Relu(a) ELSE alpha
BY DEF Relu, BoundedRelu

\* A relu that the client does.
LEMMA AskReluComputes ==
  ASSUME BatchSize = 1, NEW x, NEW a, Reads(x, a), x.cipher, ~x.e.zero, AskClient(x, Relu) # Thrown
  PROVE  Computes(AskClient(x, Relu), x, x, a, a, Relu(a))
<1> DEFINE r == AskClient(x, Relu)
           values == [k \in 1..BatchSize |-> Relu(ClientDecodes(x.e.data)[k])]
<1>1. a \in Int /\ Relu(a) \in Int
  BY ReadsValues, ActivationTypes, 0 \in Nat
<1>2. x.e.data # NoData /\ values = [k \in 1..BatchSize |-> Relu(a)]
  BY Decoded
<1>3. r = Result(x, x, Answer(values))
  BY <1>2 DEF AskClient
<1> HIDE DEF values
<1>4. r = Result(x, x, Answer([k \in 1..BatchSize |-> Relu(a)]))
  BY <1>2, <1>3
<1> HIDE DEF r
<1>5. Computes(r, x, x, a, a, Relu(a))
  BY <1>1, <1>4, AskedComputes DEF r
<1>6. QED BY <1>5 DEF r

\* A bounded relu that the client does.
LEMMA AskBoundedReluComputes ==
  ASSUME BatchSize = 1, NEW alpha \in Nat, NEW x, NEW a, Reads(x, a), x.cipher, ~x.e.zero,
         AskClient(x, LAMBDA z : BoundedRelu(z, alpha)) # Thrown
  PROVE  Computes(AskClient(x, LAMBDA z : BoundedRelu(z, alpha)), x, x, a, a,
                  IF Relu(a) < alpha THEN Relu(a) ELSE alpha)
<1> DEFINE r == AskClient(x, LAMBDA z : BoundedRelu(z, alpha))
           values == [k \in 1..BatchSize |-> BoundedRelu(ClientDecodes(x.e.data)[k], alpha)]
           v == IF Relu(a) < alpha THEN Relu(a) ELSE alpha
<1>1. a \in Int /\ v \in Int /\ BoundedRelu(a, alpha) = v
  BY ReadsValues, ActivationTypes
<1>2. x.e.data # NoData /\ values = [k \in 1..BatchSize |-> BoundedRelu(a, alpha)]
  BY Decoded
<1>3. r = Result(x, x, Answer(values))
  BY <1>2 DEF AskClient
<1> HIDE DEF values, v
<1>4. r = Result(x, x, Answer([k \in 1..BatchSize |-> v]))
  BY <1>1, <1>2, <1>3
<1> HIDE DEF r
<1>5. Computes(r, x, x, a, a, v)
  BY <1>1, <1>4, AskedComputes DEF r
<1>6. QED BY <1>5 DEF r, v

\* A plain number, and an encrypted one.
LEMMA PlainReads ==
  ASSUME BatchSize = 1, NEW v \in Int
  PROVE  /\ PlainSound(Plain(<<v>>, FALSE), <<v>>) /\ Plain(<<v>>, FALSE).values[1] = v
         /\ Reads(PlainOf(Plain(<<v>>, FALSE)), v) /\ Plain(<<v>>, FALSE) # Thrown
<1> DEFINE p == Plain(<<v>>, FALSE)
<1>1. Places = {1} /\ IsBatch(<<v>>) /\ Top \in Nat
  BY SingleNumbers, ScaleType
<1>2. p.values = <<v>> /\ p = Plain(p.values, FALSE)
  BY DEF Plain
<1>3. <<v>> \in Seq(Int) /\ Len(<<v>>) = 1 /\ <<v>>[1] = v
  OBVIOUS
<1>4. Means(p, <<v>>)
  BY <1>1, <1>2, <1>3 DEF Means, ValueAt, IsSingle
<1>5. PlainSound(p, <<v>>)
  BY <1>2, <1>4 DEF PlainSound
<1>6. Sound(PlainOf(p), <<v>>, Top) /\ p # Thrown
  BY <1>1, <1>5, PlainGives
<1>7. p.values[1] = v
  BY <1>2, <1>3
<1>8. Real(PlainOf(p))
  BY DEF Real, PlainOf
<1>9. QED BY <1>5, <1>6, <1>7, <1>8 DEF Reads

\* A constant, encrypted or not.
LEMMA ConstantReads ==
  ASSUME BatchSize = 1, config.encryptModel \in BOOLEAN, NEW v \in Int, ConstantOf(v) # Thrown
  PROVE  Reads(ConstantOf(v)[3], v) /\ ConstantOf(v)[3].cipher = config.encryptModel
<1> DEFINE p == Plain(<<v>>, FALSE)
           c == Encrypt(NewCipher, p)
<1>1. PlainSound(p, <<v>>) /\ Reads(PlainOf(p), v)
  BY PlainReads
<1>2. CASE config.encryptModel
  <2>1. ConstantOf(v) = Result(EmptyPlain, EmptyPlain, c) /\ c # Thrown
    BY <1>2 DEF ConstantOf, Result
  <2>2. ConstantOf(v)[3] = Cipher(c)
    BY <2>1 DEF Result
  <2>3. NewCipher.zero = FALSE
    BY DEF NewCipher
  <2> HIDE DEF p
  <2>4. Reads(Cipher(c), v)
    BY <1>1, <2>1, <2>3, NewIsTarget, EncryptReads
  <2>5. QED BY <1>2, <2>2, <2>4 DEF Cipher
<1>3. CASE ~config.encryptModel
  <2>1. p # Thrown
    BY PlainReads
  <2>2. ConstantOf(v)[3] = PlainOf(p)
    BY <1>3, <2>1 DEF ConstantOf, PlainResult
  <2>3. PlainOf(p).cipher = FALSE
    BY DEF PlainOf
  <2> HIDE DEF p
  <2>4. config.encryptModel = FALSE
    BY <1>3
  <2>5. QED BY <1>1, <2>2, <2>3, <2>4
<1>4. QED BY <1>2, <1>3

-----------------------------------------------------------------------------
(* The inductive invariant: what the tensors hold.                         *)

\* Tensor t holds the number v in heap h.
Stands(h, t, v) == t.at \in Addresses /\ h[t.at].cipher = t.cipher /\ Reads(h[t.at], v)

\* What the tensor named k is to hold.
MeaningNow(k) == MeaningOf(function, written, k)

\* The tensors of results that never take over a ciphertext: they keep the address
\* they began with.
Own(j) == Cardinality(Parameters) + j
Fixed(j) == ~outputs[j].cipher \/ NodeOfResult(function, j) \notin Ciphers

StateInv ==
  /\ MapInv /\ BoundsNotNegative(nodes)
  /\ config \in Configs
  /\ DOMAIN inputs = Parameters
  /\ \A i \in Parameters : inputs[i].at = i /\ inputs[i].cipher \in BOOLEAN
  /\ EncryptsInputs => \A i \in Parameters : ~inputs[i].cipher
  /\ config.enableClient => Results = {1}
  /\ written \in [Parameters -> Numbers]
  /\ DOMAIN outputs = Results /\ DOMAIN heap = Addresses
  /\ at \in {"idle", "parameters", "nodes", "end"}
  /\ DOMAIN tensorMap \subseteq TensorIds
  /\ at = "idle" => DOMAIN tensorMap = {}

InputsStand == \A i \in Parameters : Stands(heap, inputs[i], written[i])

MapStands ==
  \A k \in DOMAIN tensorMap :
    Stands(heap, tensorMap[k], MeaningNow(k)) /\ (tensorMap[k].cipher <=> k \in Ciphers)

\* An output is what its tensor says; with a client, a ciphertext.
Holding(h, t) == h[t.at].cipher = t.cipher /\ (t.cipher => IsElement(h[t.at]))
OutputsHeld ==
  \A j \in Results :
    /\ outputs[j].at \in Addresses /\ outputs[j].cipher \in BOOLEAN
    /\ Holding(heap, outputs[j])
    /\ config.enableClient => outputs[j].cipher

\* Nothing else points to what result_seal writes to in place.
FixedAlone ==
  \A j \in Results : Fixed(j) =>
    /\ outputs[j].at = Own(j)
    /\ \A k \in DOMAIN tensorMap : tensorMap[k].at # Own(j)
    /\ \A l \in Results \ {j} : outputs[l].at # Own(j)
    /\ outputs[j].cipher => heap[Own(j)].cipher /\ IsTarget(heap[Own(j)].e)

HeapInv == InputsStand /\ MapStands /\ OutputsHeld /\ FixedAlone

\* The results that the call has given already.
GivenRight ==
  at \in {"nodes", "end"} =>
    \A j \in MappedResults \ Due :
      Read(outputs[j]) = <<Meaning(function, written)[NodeOfResult(function, j)]>>

MessageInv ==
  message # <<>> =>
    /\ config.enableClient
    /\ message = <<Meaning(function, written)[NodeOfResult(function, 1)]>>

RightInv == StateInv /\ HeapInv /\ GivenRight /\ MessageInv

-----------------------------------------------------------------------------
(* The node that a call is at.                                             *)

\* The graph is well formed, and what it was compiled to.
LEMMA GraphNow ==
  ASSUME StateInv
  PROVE  WellFormed(function) /\ nodes = Compiled(function) /\ function \in Graphs
BY GraphsAssumption DEF StateInv, MapInv

\* Its parts, its number and whether its tensor is a cipher.
LEMMA NodeNow ==
  ASSUME StateInv, at = "nodes"
  PROVE  /\ next \in DOMAIN nodes /\ Node = nodes[next]
         /\ Node.op \in Operations \cup {"bounded_relu"}
         /\ Node.number \in Int /\ (Node.op = "bounded_relu" => Node.number \in Nat)
         /\ Node.id \in Nat \ {0}
         /\ DOMAIN Node.args = 1..Arity(Node.op)
         /\ NodeValue(Node, written, MeaningNow(Node.id), MeaningNow(Node.args[1]), MeaningNow(Node.args[2]))
         /\ Node.id \in Ciphers <=> IsCipherNode(next, Ciphers)
<1>1. next \in DOMAIN nodes /\ Node = nodes[next]
  BY DEF StateInv, MapInv, Node
<1>2. /\ Node.op \in Operations \cup {"bounded_relu"} /\ Node.number \in Int
      /\ Node.id \in Nat \ {0} /\ DOMAIN Node.args = 1..Arity(Node.op)
  BY <1>1, GraphNow, CompiledParts
<1>3. NodeValue(Node, written, MeaningNow(Node.id), MeaningNow(Node.args[1]), MeaningNow(Node.args[2]))
  BY <1>1, GraphNow, CompiledMeans DEF MeaningNow
<1>4. Node.id \in Ciphers <=> IsCipherNode(next, Ciphers)
  BY <1>1, GraphNow, CiphersRule
<1>5. Node.op = "bounded_relu" => Node.number \in Nat
  BY <1>1, <1>2 DEF StateInv, BoundsNotNegative
<1>6. QED BY <1>1, <1>2, <1>3, <1>4, <1>5

\* A node other than a result has a tensor of its own name.
LEMMA NodeNamed ==
  ASSUME StateInv, at = "nodes", Node.op # "result"
  PROVE  Node.id \in TensorIds
<1>1. next \in DOMAIN nodes /\ Node = nodes[next]
  BY NodeNow
<1>2. next \notin Of(function, "result")
  BY <1>1, GraphNow, ResultsRemain
<1>3. QED BY <1>1, <1>2 DEF TensorIds

\* So has a parameter.
LEMMA ParametersNamed == ASSUME StateInv PROVE Parameters \subseteq TensorIds
<1> SUFFICES ASSUME NEW i \in Parameters PROVE i \in TensorIds
  OBVIOUS
<1>1. i \in DOMAIN nodes /\ nodes[i].id = i /\ nodes[i].op = "parameter"
  BY GraphNow, ResultsRemain DEF Parameters
<1>2. i \notin Of(function, "result")
  BY DEF Parameters, Of
<1>3. QED BY <1>1, <1>2 DEF TensorIds

\* A parameter means what was written, and is a cipher if its tensor is one.
LEMMA ParameterMeans ==
  ASSUME StateInv, NEW i \in Parameters
  PROVE  MeaningNow(i) = written[i] /\ (i \in Ciphers <=> EncryptsInputs \/ inputs[i].cipher)
<1>1. i \in DOMAIN nodes /\ nodes[i].id = i /\ nodes[i].op = "parameter"
  BY GraphNow, ResultsRemain DEF Parameters
<1>2. MeaningNow(i) = written[i]
  <2>1. NodeValue(nodes[i], written, MeaningNow(nodes[i].id), MeaningNow(nodes[i].args[1]),
                  MeaningNow(nodes[i].args[2]))
    BY <1>1, GraphNow, CompiledMeans DEF MeaningNow
  <2>2. QED BY <1>1, <2>1 DEF NodeValue
<1>3. DOMAIN nodes[i].args = 1..Arity("parameter")
  BY <1>1, GraphNow, CompiledParts
<1>4. Args(nodes[i]) = {}
  BY <1>3 DEF Args, Arity
<1>5. i \in Ciphers <=> IsCipherNode(i, Ciphers)
  BY <1>1, GraphNow, CiphersRule
<1>6. QED BY <1>1, <1>2, <1>4, <1>5 DEF IsCipherNode

\* The arguments of a node hold what they mean.
LEMMA ArgStands ==
  ASSUME StateInv, HeapInv, at = "nodes", HasArgs, Node.op # "parameter", NEW n \in DOMAIN Node.args
  PROVE  /\ Node.args[n] \in DOMAIN tensorMap /\ Arg(n) = tensorMap[Node.args[n]]
         /\ Stands(heap, Arg(n), MeaningNow(Node.args[n])) /\ Element(n) = heap[Arg(n).at]
         /\ Reads(Element(n), MeaningNow(Node.args[n]))
         /\ Element(n).cipher = Arg(n).cipher /\ Element(n).cipher \in BOOLEAN
         /\ Element(n).cipher <=> Node.args[n] \in Ciphers
<1>1. Node.args[n] \in DOMAIN tensorMap
  BY DEF HasArgs, Args
<1>2. /\ Stands(heap, tensorMap[Node.args[n]], MeaningNow(Node.args[n]))
      /\ tensorMap[Node.args[n]].cipher <=> Node.args[n] \in Ciphers
  BY <1>1 DEF HeapInv, MapStands
<1>3. QED BY <1>1, <1>2 DEF Arg, Element, Stands, Reads, Sound, IsElement

\* The tensor of a node that reads others is a cipher if one of them is.
LEMMA CipherOfArgs ==
  ASSUME StateInv, HeapInv, at = "nodes", HasArgs, Node.op \notin {"parameter", "constant"}
  PROVE  Node.id \in Ciphers <=> \E n \in DOMAIN Node.args : Element(n).cipher
<1>1. Node.id \in Ciphers <=> Args(Node) \cap Ciphers # {}
  BY NodeNow DEF IsCipherNode
<1>2. Args(Node) \cap Ciphers # {} <=> \E n \in DOMAIN Node.args : Node.args[n] \in Ciphers
  BY DEF Args
<1>3. QED BY <1>1, <1>2, ArgStands

-----------------------------------------------------------------------------
(* What a kernel does.                                                     *)

\* The result is right, and the arguments hold what they did.
KernelRight(r) ==
  /\ Reads(r[3], MeaningNow(Node.id))
  /\ r[3].cipher <=> Node.id \in Ciphers
  /\ \A n \in DOMAIN Node.args :
       Reads(r[n], MeaningNow(Node.args[n])) /\ r[n].cipher = Element(n).cipher

\* A kernel of two arguments.
LEMMA BinaryRight ==
  ASSUME StateInv, HeapInv, at = "nodes", HasArgs, Node.op \in {"add", "multiply", "minimum"},
         NEW r, Computes(r, Element(1), Element(2), MeaningNow(Node.args[1]),
                         MeaningNow(Node.args[2]), MeaningNow(Node.id))
  PROVE  KernelRight(r)
<1>1. DOMAIN Node.args = {1, 2}
  BY NodeNow DEF Arity
<1>2. Node.id \in Ciphers <=> (Element(1).cipher \/ Element(2).cipher)
  BY <1>1, CipherOfArgs
<1>3. QED BY <1>1, <1>2 DEF Computes, KernelRight

\* A kernel of one argument.
LEMMA UnaryRight ==
  ASSUME StateInv, HeapInv, at = "nodes", HasArgs, Node.op \in {"relu", "bounded_relu"},
         NEW r, Computes(r, Element(1), Element(1), MeaningNow(Node.args[1]),
                         MeaningNow(Node.args[1]), MeaningNow(Node.id))
  PROVE  KernelRight(r)
<1>1. DOMAIN Node.args = {1}
  BY NodeNow DEF Arity
<1>2. Node.id \in Ciphers <=> Element(1).cipher
  BY <1>1, CipherOfArgs
<1>3. QED BY <1>1, <1>2 DEF Computes, KernelRight

\* Every kernel that call() runs is right where no defect is met.
LEMMA KernelsRight ==
  ASSUME BatchSize = 1, EqualPrimes, StateInv, HeapInv, at = "nodes", HasArgs,
         Node.op \in {"constant", "add", "multiply", "minimum", "relu", "bounded_relu"},
         ~TakesOver, ~DefectiveArgs, ~(ByClient /\ NotForClient), Kernel # Thrown
  PROVE  KernelRight(Kernel)
<1> DEFINE v == MeaningNow(Node.id)
           a == MeaningNow(Node.args[1])
           b == MeaningNow(Node.args[2])
<1>1. NodeValue(Node, written, v, a, b) /\ DOMAIN Node.args = 1..Arity(Node.op)
  BY NodeNow
<1>2. CASE Node.op = "constant"
  <2>1. Kernel = ConstantOf(Node.number) /\ Node.number \in Int /\ config.encryptModel \in BOOLEAN
    BY <1>2, NodeNow DEF Kernel, StateInv, Configs
  <2>2. Reads(Kernel[3], Node.number) /\ Kernel[3].cipher = config.encryptModel
    BY <2>1, ConstantReads
  <2>3. v = Node.number
    BY <1>1, <1>2 DEF NodeValue
  <2>4. DOMAIN Node.args = {} /\ Args(Node) = {}
    BY <1>1, <1>2 DEF Arity, Args
  <2>5. Node.id \in Ciphers <=> config.encryptModel
    BY <1>2, <2>4, NodeNow DEF IsCipherNode
  <2>6. QED BY <2>2, <2>3, <2>4, <2>5 DEF KernelRight
<1>3. CASE Node.op \in {"add", "multiply", "minimum"}
  <2>1. 1 \in DOMAIN Node.args /\ 2 \in DOMAIN Node.args
    BY <1>1, <1>3 DEF Arity
  <2>2. Reads(Element(1), a) /\ Reads(Element(2), b)
    BY <1>3, <2>1, ArgStands
  <2>3. ~Defective(Node.op, Unmarked(Element(1)), Unmarked(Element(2)))
    BY <1>3 DEF DefectiveArgs
  <2>4. CASE Node.op = "add"
    <3>1. Kernel = AddOf(Element(1), Element(2)) /\ v = a + b
      BY <1>1, <2>4 DEF Kernel, NodeValue
    <3>2. Computes(Kernel, Element(1), Element(2), a, b, v)
      <4>1. ~MarkedDifferently(Element(1), Element(2))
        BY <2>4 DEF DefectiveArgs
      <4>2. QED BY <2>2, <2>3, <2>4, <3>1, <4>1, AddComputes
    <3>3. QED BY <1>3, <3>2, BinaryRight
  <2>5. CASE Node.op = "multiply"
    <3>1. Kernel = MultiplyOf(Element(1), Element(2)) /\ v = a * b
      BY <1>1, <2>5 DEF Kernel, NodeValue
    <3>2. Computes(Kernel, Element(1), Element(2), a, b, v)
      BY <2>2, <2>3, <2>5, <3>1, MultiplyComputes
    <3>3. QED BY <1>3, <3>2, BinaryRight
  <2>6. CASE Node.op = "minimum"
    <3>1. Kernel = MinimumOf(Element(1), Element(2)) /\ v = IF a < b THEN a ELSE b
      BY <1>1, <2>6 DEF Kernel, NodeValue
    <3>2. Computes(Kernel, Element(1), Element(2), a, b, v)
      BY <2>2, <2>3, <2>6, <3>1, MinimumComputes
    <3>3. QED BY <1>3, <3>2, BinaryRight
  <2>7. QED BY <1>3, <2>4, <2>5, <2>6
<1>4. CASE Node.op \in {"relu", "bounded_relu"}
  <2>1. 1 \in DOMAIN Node.args
    BY <1>1, <1>4 DEF Arity
  <2>2. Reads(Element(1), a)
    BY <1>4, <2>1, ArgStands
  <2>3. CASE Node.op = "relu"
    <3>1. v = Relu(a)
      BY <1>1, <2>3 DEF NodeValue
    <3>2. CASE ByClient
      <4>1. Kernel = AskClient(Element(1), Relu)
        BY <2>3, <3>2 DEF Kernel
      <4>2. Element(1).cipher /\ ~Element(1).e.zero
        BY <3>2 DEF ByClient, NotForClient
      <4>3. Computes(Kernel, Element(1), Element(1), a, a, v)
        BY <2>2, <3>1, <4>1, <4>2, AskReluComputes
      <4>4. QED BY <1>4, <4>3, UnaryRight
    <3>3. CASE ~ByClient
      <4>1. Kernel = ReluOf(Element(1))
        BY <2>3, <3>3 DEF Kernel
      <4>2. Computes(Kernel, Element(1), Element(1), a, a, v)
        BY <2>2, <3>1, <4>1, ReluComputes
      <4>3. QED BY <1>4, <4>2, UnaryRight
    <3>4. QED BY <3>2, <3>3
  <2>4. CASE Node.op = "bounded_relu"
    <3>1. v = (IF Relu(a) < Node.number THEN Relu(a) ELSE Node.number) /\ Node.number \in Nat
      <4>1. Node.number \in Nat /\ a \in Int
        BY <2>2, <2>4, NodeNow, ReadsValues
      <4>2. QED BY <1>1, <2>4, <4>1 DEF NodeValue
    <3>2. CASE ByClient
      <4>1. Kernel = AskClient(Element(1), LAMBDA z : BoundedRelu(z, Node.number))
        BY <2>4, <3>2 DEF Kernel
      <4>2. Element(1).cipher /\ ~Element(1).e.zero
        BY <3>2 DEF ByClient, NotForClient
      <4>3. Computes(Kernel, Element(1), Element(1), a, a, v)
        BY <2>2, <3>1, <4>1, <4>2, AskBoundedReluComputes
      <4>4. QED BY <1>4, <4>3, UnaryRight
    <3>3. CASE ~ByClient
      <4>1. Kernel = BoundedReluOf(Element(1), Node.number)
        BY <2>4, <3>3 DEF Kernel
      <4>2. Computes(Kernel, Element(1), Element(1), a, a, v)
        BY <2>2, <3>1, <4>1, BoundedReluComputes
      <4>3. QED BY <1>4, <4>2, UnaryRight
    <3>4. QED BY <3>2, <3>3
  <2>5. QED BY <1>4, <2>3, <2>4
<1>5. QED BY <1>2, <1>3, <1>4

\* The heap with the arguments as a kernel leaves them.
LEMMA ArgsAfterSame ==
  ASSUME BatchSize = 1, StateInv, HeapInv, at = "nodes", HasArgs, Node.op # "parameter",
         NEW r, KernelRight(r)
  PROVE  /\ DOMAIN ArgsAfter(r) = Addresses
         /\ \A a \in Addresses : Same(heap[a], ArgsAfter(r)[a])
         /\ \A j \in Results : Fixed(j) => ArgsAfter(r)[outputs[j].at] = heap[outputs[j].at]
<1> DEFINE Args1(a) == {n \in DOMAIN Node.args : Arg(n).at = a}
<1>1. DOMAIN ArgsAfter(r) = Addresses
  BY DEF ArgsAfter
<1>2. ASSUME NEW a \in Addresses, Args1(a) = {} PROVE ArgsAfter(r)[a] = heap[a]
  BY <1>2 DEF ArgsAfter
<1>3. ASSUME NEW a \in Addresses, Args1(a) # {} PROVE Same(heap[a], ArgsAfter(r)[a])
  <2> DEFINE c == CHOOSE n \in DOMAIN Node.args : Arg(n).at = a
  <2>1. c \in DOMAIN Node.args /\ Arg(c).at = a
    BY <1>3
  <2>2. ArgsAfter(r)[a] = r[c]
    BY <1>3 DEF ArgsAfter
  <2> HIDE DEF c
  <2>3. Element(c) = heap[a] /\ Reads(Element(c), MeaningNow(Node.args[c]))
    BY <2>1, ArgStands
  <2>4. Reads(r[c], MeaningNow(Node.args[c])) /\ r[c].cipher = Element(c).cipher
    BY <2>1 DEF KernelRight
  <2>5. QED BY <2>2, <2>3, <2>4 DEF Same
<1>4. ASSUME NEW j \in Results, Fixed(j) PROVE ArgsAfter(r)[outputs[j].at] = heap[outputs[j].at]
  <2>1. /\ outputs[j].at = Own(j) /\ outputs[j].at \in Addresses
        /\ \A k \in DOMAIN tensorMap : tensorMap[k].at # Own(j)
    BY <1>4 DEF HeapInv, FixedAlone, OutputsHeld
  <2>2. Args1(outputs[j].at) = {}
    BY <2>1, ArgStands
  <2>3. QED BY <1>2, <2>1, <2>2
<1>5. QED BY <1>1, <1>2, <1>3, <1>4 DEF Same

-----------------------------------------------------------------------------
(* What a step leaves of the invariant.                                    *)

\* Which tensors are ciphers never changes.
LEMMA CiphersKept ==
  ASSUME UNCHANGED <<nodes, config, inputs>>
  PROVE  Ciphers' = Ciphers
<1>1. \A n \in DOMAIN nodes, S \in SUBSET Nat : IsCipherNode(n, S)' <=> IsCipherNode(n, S)
  BY DEF IsCipherNode, EncryptsInputs
<1>2. \A S \in SUBSET Nat : ClosedUnderCiphers(S)' <=> ClosedUnderCiphers(S)
  BY <1>1 DEF ClosedUnderCiphers
<1>3. QED BY <1>2 DEF Ciphers

\* The tensors of map hold what they are to hold, in heap h.
MapGood(h, map) ==
  /\ DOMAIN map \subseteq TensorIds
  /\ \A k \in DOMAIN map :
       /\ Stands(h, map[k], MeaningNow(k))
       /\ map[k].cipher <=> k \in Ciphers
       /\ \A j \in Results : Fixed(j) => map[k].at # Own(j)

\* A tensor holds its number in a heap that is the same to a reader.
LEMMA StandsSame ==
  ASSUME BatchSize = 1, NEW h, NEW g, NEW t, NEW v, Stands(h, t, v), Same(h[t.at], g[t.at])
  PROVE  Stands(g, t, v)
BY SameReads DEF Stands

\* tensor_map does in such a heap.
LEMMA MapGoodSame ==
  ASSUME BatchSize = 1, StateInv, HeapInv, NEW h,
         \A k \in DOMAIN tensorMap : Same(heap[tensorMap[k].at], h[tensorMap[k].at])
  PROVE  MapGood(h, tensorMap)
<1> SUFFICES ASSUME NEW k \in DOMAIN tensorMap
             PROVE  /\ Stands(h, tensorMap[k], MeaningNow(k))
                    /\ tensorMap[k].cipher <=> k \in Ciphers
                    /\ \A j \in Results : Fixed(j) => tensorMap[k].at # Own(j)
  BY DEF MapGood, StateInv
<1>1. Stands(heap, tensorMap[k], MeaningNow(k)) /\ (tensorMap[k].cipher <=> k \in Ciphers)
  BY DEF HeapInv, MapStands
<1>2. Stands(h, tensorMap[k], MeaningNow(k))
  BY <1>1, StandsSame
<1>3. QED BY <1>1, <1>2 DEF HeapInv, FixedAlone

\* A tensor more.
LEMMA MapGoodInserted ==
  ASSUME NEW h, MapGood(h, tensorMap), NEW id \in TensorIds, NEW t,
         Stands(h, t, MeaningNow(id)), t.cipher <=> id \in Ciphers,
         \A j \in Results : Fixed(j) => t.at # Own(j)
  PROVE  MapGood(h, Inserted(id, t))
BY DEF MapGood, Inserted

\* Some tensors fewer.
LEMMA MapGoodFreed ==
  ASSUME NEW h, NEW map, MapGood(h, map)
  PROVE  MapGood(h, Freed(map))
BY DEF MapGood, Freed

\* Outputs out with heap h: those that are written in place are where they were.
OutputsGood(h, out) ==
  /\ DOMAIN out = Results
  /\ \A j \in Results :
       /\ out[j].at \in Addresses /\ out[j].cipher = outputs[j].cipher
       /\ Holding(h, out[j])
  /\ \A j \in Results : Fixed(j) =>
       /\ out[j] = outputs[j]
       /\ \A l \in Results \ {j} : out[l].at # Own(j)
       /\ outputs[j].cipher => h[Own(j)].cipher /\ IsTarget(h[Own(j)].e)

\* Outputs that stay.
LEMMA OutputsGoodSame ==
  ASSUME StateInv, HeapInv, NEW h,
         \A j \in Results : Same(heap[outputs[j].at], h[outputs[j].at]),
         \A j \in Results : Fixed(j) => h[outputs[j].at] = heap[outputs[j].at]
  PROVE  OutputsGood(h, outputs)
<1>1. ASSUME NEW j \in Results PROVE Holding(h, outputs[j])
  <2>1. Holding(heap, outputs[j]) /\ Same(heap[outputs[j].at], h[outputs[j].at])
    BY DEF HeapInv, OutputsHeld
  <2>2. QED BY <2>1 DEF Holding, Same, Reads, Sound
<1>2. QED BY <1>1 DEF OutputsGood, StateInv, HeapInv, OutputsHeld, FixedAlone

\* The heap's part of the invariant, after a step to a heap h and without what nothing
\* points to in it.
LEMMA HeapStep ==
  ASSUME BatchSize = 1, StateInv, HeapInv, UNCHANGED <<configVars, inputs, written>>, NEW h,
         \A a \in Addresses : a \in Pointers(inputs', outputs', tensorMap') => heap'[a] = h[a],
         \A i \in Parameters : Same(heap[inputs[i].at], h[inputs[i].at]),
         OutputsGood(h, outputs'), MapGood(h, tensorMap')
  PROVE  HeapInv'
<1>1. /\ function' = function /\ nodes' = nodes /\ config' = config /\ inputs' = inputs
      /\ written' = written /\ Parameters' = Parameters /\ Results' = Results
  BY DEF configVars, Parameters, Results
<1>2. Ciphers' = Ciphers
  BY <1>1, CiphersKept
<1>3. \A k : MeaningNow(k)' = MeaningNow(k)
  BY <1>1 DEF MeaningNow
<1>4. \A j : Own(j)' = Own(j)
  BY <1>1 DEF Own
<1>5. \A j \in Results : Fixed(j)' <=> Fixed(j)
  BY <1>1, <1>2 DEF Fixed, OutputsGood
<1>6. ASSUME NEW t, NEW v, Stands(h, t, v), t.at \in Pointers(inputs', outputs', tensorMap')
      PROVE  Stands(heap', t, v)
  BY <1>6 DEF Stands
<1>7. InputsStand'
  <2>1. ASSUME NEW i \in Parameters PROVE Stands(heap', inputs[i], written[i])
    <3>1. Stands(heap, inputs[i], written[i])
      BY DEF HeapInv, InputsStand
    <3>2. Stands(h, inputs[i], written[i])
      BY <3>1, StandsSame
    <3>3. inputs[i].at \in Pointers(inputs', outputs', tensorMap')
      BY <1>1 DEF Pointers, StateInv
    <3>4. QED BY <1>6, <3>2, <3>3
  <2>2. QED BY <1>1, <2>1 DEF InputsStand
<1>8. MapStands'
  <2>1. ASSUME NEW k \in DOMAIN tensorMap'
        PROVE  Stands(heap', tensorMap'[k], MeaningNow(k)) /\ (tensorMap'[k].cipher <=> k \in Ciphers)
    <3>1. Stands(h, tensorMap'[k], MeaningNow(k)) /\ (tensorMap'[k].cipher <=> k \in Ciphers)
      BY DEF MapGood
    <3>2. tensorMap'[k].at \in Pointers(inputs', outputs', tensorMap')
      BY DEF Pointers
    <3>3. QED BY <1>6, <3>1, <3>2
  <2>2. QED BY <1>2, <1>3, <2>1 DEF MapStands
<1>9. OutputsHeld'
  <2>1. ASSUME NEW j \in Results
        PROVE  /\ outputs'[j].at \in Addresses /\ outputs'[j].cipher \in BOOLEAN
               /\ Holding(heap', outputs'[j])
               /\ config.enableClient => outputs'[j].cipher
    <3>1. /\ outputs'[j].at \in Addresses /\ outputs'[j].cipher = outputs[j].cipher
          /\ Holding(h, outputs'[j])
      BY DEF OutputsGood
    <3>2. outputs'[j].at \in Pointers(inputs', outputs', tensorMap')
      BY DEF Pointers, OutputsGood
    <3>3. heap'[outputs'[j].at] = h[outputs'[j].at]
      BY <3>1, <3>2
    <3>4. QED BY <3>1, <3>3 DEF HeapInv, OutputsHeld, Holding
  <2>2. QED BY <1>1, <2>1 DEF OutputsHeld, Holding
<1>10. FixedAlone'
  <2>1. ASSUME NEW j \in Results, Fixed(j)
        PROVE  /\ outputs'[j].at = Own(j)
               /\ \A k \in DOMAIN tensorMap' : tensorMap'[k].at # Own(j)
               /\ \A l \in Results \ {j} : outputs'[l].at # Own(j)
               /\ outputs'[j].cipher => heap'[Own(j)].cipher /\ IsTarget(heap'[Own(j)].e)
    <3>1. outputs[j].at = Own(j) /\ outputs[j].at \in Addresses
      BY <2>1 DEF HeapInv, FixedAlone, OutputsHeld
    <3>2. /\ outputs'[j] = outputs[j]
          /\ \A l \in Results \ {j} : outputs'[l].at # Own(j)
          /\ outputs[j].cipher => h[Own(j)].cipher /\ IsTarget(h[Own(j)].e)
      BY <2>1 DEF OutputsGood
    <3>3. \A k \in DOMAIN tensorMap' : tensorMap'[k].at # Own(j)
      BY <2>1 DEF MapGood
    <3>4. outputs'[j].at \in Pointers(inputs', outputs', tensorMap')
      BY DEF Pointers, OutputsGood
    <3>5. heap'[Own(j)] = h[Own(j)]
      BY <3>1, <3>2, <3>4
    <3>6. QED BY <3>1, <3>2, <3>3, <3>5
  <2>2. QED BY <1>1, <1>4, <1>5, <2>1 DEF FixedAlone
<1>11. QED BY <1>7, <1>8, <1>9, <1>10 DEF HeapInv

\* A step that leaves an output its place, and the heap what it holds there, leaves
\* what is read of it.
LEMMA ReadKept ==
  ASSUME BatchSize = 1, StateInv, HeapInv, NEW h, NEW j \in Results,
         \A a \in Addresses : a \in Pointers(inputs', outputs', tensorMap') => heap'[a] = h[a],
         DOMAIN outputs' = Results, outputs'[j] = outputs[j],
         Same(heap[outputs[j].at], h[outputs[j].at])
  PROVE  Read(outputs[j])' = Read(outputs[j])
<1>1. outputs[j].at \in Addresses
  BY DEF HeapInv, OutputsHeld
<1>2. outputs[j].at \in Pointers(inputs', outputs', tensorMap')
  BY DEF Pointers
<1>3. heap'[outputs[j].at] = h[outputs[j].at]
  BY <1>1, <1>2
<1>4. QED BY <1>3, SameReads DEF Read

\* What an input holds is the number that was written.
LEMMA InputRead ==
  ASSUME BatchSize = 1, StateInv, HeapInv, NEW i \in Parameters
  PROVE  Read(inputs[i]) = <<written[i]>>
<1>1. Stands(heap, inputs[i], written[i])
  BY DEF HeapInv, InputsStand
<1>2. QED BY <1>1, ReadsValues DEF Stands, Read

\* The other part, after a step.
LEMMA StateStep ==
  ASSUME StateInv, MapInv', UNCHANGED <<configVars, inputs>>,
         written' \in [Parameters -> Numbers],
         DOMAIN outputs' = Results, DOMAIN heap' = Addresses,
         at' \in {"idle", "parameters", "nodes", "end"},
         DOMAIN tensorMap' \subseteq TensorIds, at' = "idle" => DOMAIN tensorMap' = {}
  PROVE  StateInv'
<1>1. /\ function' = function /\ nodes' = nodes /\ config' = config /\ inputs' = inputs
      /\ Parameters' = Parameters /\ Results' = Results
  BY DEF configVars, Parameters, Results
<1>2. TensorIds' = TensorIds /\ (EncryptsInputs' <=> EncryptsInputs)
  BY <1>1 DEF TensorIds, EncryptsInputs
<1>3. BoundsNotNegative(nodes)'
  BY <1>1 DEF StateInv, BoundsNotNegative
<1>4. QED BY <1>1, <1>2, <1>3 DEF StateInv

-----------------------------------------------------------------------------
(* Steps, as the caller sees them.                                         *)

OutputsKept(S) == \A j \in S : Read(outputs[j])' = Read(outputs[j])

\* Nothing changes.
Silent ==
  /\ function' = function /\ written' = written /\ Due' = Due
  /\ OutputsKept(MappedResults)

\* Output j gets its number.
Giving(j) ==
  /\ function' = function /\ written' = written /\ Due' = Due \ {j}
  /\ OutputsKept(MappedResults \ {j})
  /\ Read(outputs[j])' = <<Meaning(function, written)[NodeOfResult(function, j)]>>

\* The result that a call is at.
LEMMA ResultNow ==
  ASSUME StateInv, at = "nodes", Node.op = "result"
  PROVE  /\ ResultIndex(Node) \in Results
         /\ NodeOfResult(function, ResultIndex(Node)) = next /\ Node.id = next
<1>1. next \in DOMAIN nodes /\ Node = nodes[next] /\ WellFormed(function) /\ nodes = Compiled(function)
  BY NodeNow, GraphNow
<1>2. /\ next \in Of(function, "result") /\ Node.id = next
      /\ ResultIndex(Node) = Rank(function, next)
  BY <1>1, ResultIndexRank
<1>3. QED BY <1>1, <1>2, RankType, NodeOfRank DEF Results

\* All mapped results are due when the nodes begin.
LEMMA DueBegin ==
  ASSUME StateInv, UNCHANGED <<function, nodes>>, at' = "nodes", GoToFirst(DOMAIN nodes)
  PROVE  Due' = MappedResults
<1>1. WellFormed(function) /\ nodes = Compiled(function)
  BY GraphNow
<1>2. \A n \in DOMAIN nodes : n >= next'
  BY DEF GoToFirst
<1>3. ASSUME NEW j \in Results
      PROVE  \E n \in DOMAIN nodes : n >= next' /\ nodes[n].op = "result" /\ ResultIndex(nodes[n]) = j
  <2> DEFINE n == NodeOfResult(function, j)
  <2>1. n \in Of(function, "result") /\ Rank(function, n) = j
    BY <1>1, RankSurjective DEF Results
  <2> HIDE DEF n
  <2>2. n \in DOMAIN nodes /\ nodes[n].op = "result"
    BY <1>1, <2>1, ResultsRemain
  <2>3. ResultIndex(nodes[n]) = j
    BY <1>1, <2>1, <2>2, ResultIndexRank
  <2>4. QED BY <1>2, <2>2, <2>3
<1>4. MappedResults' = MappedResults
  BY DEF MappedResults, Results
<1>5. \A n \in DOMAIN nodes : ResultIndex(nodes[n])' = ResultIndex(nodes[n])
  BY DEF ResultIndex
<1>6. Due' = {j \in MappedResults :
                \E n \in DOMAIN nodes : n >= next' /\ nodes[n].op = "result" /\ ResultIndex(nodes[n]) = j}
  BY <1>4, <1>5 DEF Due
<1>7. QED BY <1>3, <1>6 DEF MappedResults

\* A node that is done is due no longer.
LEMMA DueAdvance ==
  ASSUME StateInv, at = "nodes", NEW map, Advance(map)
  PROVE  Due' = IF Node.op = "result" THEN Due \ {ResultIndex(Node)} ELSE Due
<1> DEFINE Left(n, j) == nodes[n].op = "result" /\ ResultIndex(nodes[n]) = j
<1>1. next \in DOMAIN nodes /\ Node = nodes[next] /\ WellFormed(function) /\ nodes = Compiled(function)
  BY NodeNow, GraphNow
<1>2. \A n \in DOMAIN nodes : n \in Int
  BY <1>1, CompiledDomain
<1>3. function' = function /\ nodes' = nodes /\ MappedResults' = MappedResults
  BY DEF Advance, configVars, MappedResults, Results
<1>4. \A n \in DOMAIN nodes : ResultIndex(nodes[n])' = ResultIndex(nodes[n])
  BY <1>3 DEF ResultIndex
<1>5. Due = {j \in MappedResults : \E n \in DOMAIN nodes : n >= next /\ Left(n, j)}
  BY DEF Due
<1>6. Due' = {j \in MappedResults : \E n \in DOMAIN nodes : n > next /\ Left(n, j)}
  <2>1. CASE {n \in DOMAIN nodes : n > next} = {}
    <3>1. at' = "end"
      BY <2>1 DEF Advance
    <3>2. Due' = {}
      BY <3>1 DEF Due
    <3>3. QED BY <2>1, <3>2
  <2>2. CASE {n \in DOMAIN nodes : n > next} # {}
    <3>1. at' = "nodes" /\ GoToFirst({n \in DOMAIN nodes : n > next})
      BY <2>2 DEF Advance
    <3>2. \A n \in DOMAIN nodes : n >= next' <=> n > next
      BY <1>1, <1>2, <3>1 DEF GoToFirst
    <3>3. Due' = {j \in MappedResults : \E n \in DOMAIN nodes : n >= next' /\ Left(n, j)}
      BY <1>3, <1>4, <3>1 DEF Due
    <3>4. QED BY <3>2, <3>3
  <2>3. QED BY <2>1, <2>2
<1>7. \A n \in DOMAIN nodes : n >= next <=> n > next \/ n = next
  BY <1>1, <1>2
<1>8. CASE Node.op = "result"
  <2>1. ASSUME NEW n \in DOMAIN nodes, n > next, NEW j, Left(n, j) PROVE j # ResultIndex(Node)
    <3>1. n \in Of(function, "result") /\ j = Rank(function, n)
      BY <1>1, <2>1, ResultIndexRank
    <3>2. next \in Of(function, "result") /\ ResultIndex(Node) = Rank(function, next)
      BY <1>1, <1>8, ResultIndexRank
    <3>3. next < n
      BY <1>1, <1>2, <2>1
    <3>4. QED BY <1>1, <3>1, <3>2, <3>3, RankGrows
  <2>2. \A j : Left(next, j) => j = ResultIndex(Node)
    BY <1>1
  <2> HIDE DEF Left
  <2>3. QED BY <1>5, <1>6, <1>7, <1>8, <2>1, <2>2
<1>9. CASE Node.op # "result"
  <2>1. \A j : ~Left(next, j)
    BY <1>1, <1>9
  <2> HIDE DEF Left
  <2>2. QED BY <1>5, <1>6, <1>7, <1>9, <2>1
<1>10. QED BY <1>8, <1>9

\* The caller sees nothing of a node that is no result.
LEMMA AdvanceSilent ==
  ASSUME StateInv, at = "nodes", NEW map, Advance(map), Node.op # "result", OutputsKept(Results)
  PROVE  Silent
<1>1. Due' = Due
  BY DueAdvance
<1>2. QED BY <1>1 DEF Silent, Advance, configVars, OutputsKept, MappedResults

\* A step that leaves the outputs where they are.
LEMMA CallStep ==
  ASSUME BatchSize = 1, StateInv, HeapInv, UNCHANGED <<configVars, inputs, outputs, written>>, NEW h,
         \A a \in Addresses : a \in Pointers(inputs', outputs', tensorMap') => heap'[a] = h[a],
         \A a \in Addresses : a \in Pointers(inputs, outputs, tensorMap) => Same(heap[a], h[a]),
         \A j \in Results : Fixed(j) => h[outputs[j].at] = heap[outputs[j].at],
         MapGood(h, tensorMap')
  PROVE  HeapInv' /\ OutputsKept(Results)
<1>1. DOMAIN outputs = Results /\ DOMAIN inputs = Parameters
  BY DEF StateInv
<1>2. \A i \in Parameters : inputs[i].at \in Addresses /\ inputs[i].at \in Pointers(inputs, outputs, tensorMap)
  BY <1>1 DEF HeapInv, InputsStand, Stands, Pointers
<1>3. \A j \in Results : outputs[j].at \in Addresses /\ outputs[j].at \in Pointers(inputs, outputs, tensorMap)
  BY <1>1 DEF HeapInv, OutputsHeld, Pointers
<1>4. OutputsGood(h, outputs')
  BY <1>3, OutputsGoodSame
<1>5. HeapInv'
  BY <1>2, <1>4, HeapStep
<1>6. OutputsKept(Results)
  BY <1>1, <1>3, ReadKept DEF OutputsKept
<1>7. QED BY <1>5, <1>6

\* A call that leaves the heap as it is, for what it reaches.
LEMMA HeapKept ==
  ASSUME BatchSize = 1, StateInv, HeapInv, UNCHANGED <<configVars, inputs, outputs, written>>,
         \A a \in Addresses : a \in Pointers(inputs', outputs', tensorMap') => heap'[a] = heap[a],
         MapGood(heap, tensorMap) => MapGood(heap, tensorMap')
  PROVE  HeapInv' /\ OutputsKept(Results)
<1>1. \A a \in Addresses : Same(heap[a], heap[a])
  BY DEF Same
<1>2. MapGood(heap, tensorMap)
  BY MapGoodSame DEF Same
<1>3. QED BY <1>1, <1>2, CallStep

-----------------------------------------------------------------------------
(* The steps of a call.                                                    *)

\* A new ciphertext or plaintext with element x, named id.
LEMMA NewTensor ==
  ASSUME BatchSize = 1, StateInv, HeapInv, NEW h, DOMAIN h = Addresses,
         \A a \in Addresses : Same(heap[a], h[a]),
         \A j \in Results : Fixed(j) => h[outputs[j].at] = heap[outputs[j].at],
         NEW id \in TensorIds, NEW x, Reads(x, MeaningNow(id)), x.cipher <=> id \in Ciphers,
         UNCHANGED <<configVars, inputs, outputs, written>>,
         LET t == [cipher |-> x.cipher, at |-> New]
         IN  tensorMap' \in {Inserted(id, t), Freed(Inserted(id, t))},
         Keep([h EXCEPT ![New] = x])
  PROVE  HeapInv' /\ OutputsKept(Results) /\ DOMAIN heap' = Addresses
<1> DEFINE t == [cipher |-> x.cipher, at |-> New]
           g == [h EXCEPT ![New] = x]
<1>1. New \in Addresses /\ New \notin Pointers(inputs, outputs, tensorMap)
  BY NewFresh, GraphNow DEF StateInv
<1>2. DOMAIN inputs = Parameters /\ DOMAIN outputs = Results
  BY DEF StateInv
<1>3. g[New] = x /\ \A a \in Addresses : a # New => g[a] = h[a]
  BY <1>1
<1>4. /\ DOMAIN heap' = Addresses
      /\ \A a \in Addresses : a \in Pointers(inputs', outputs', tensorMap') => heap'[a] = g[a]
  BY DEF Keep
<1> HIDE DEF g
<1>5. \A a \in Addresses : a \in Pointers(inputs, outputs, tensorMap) => Same(heap[a], g[a])
  BY <1>1, <1>3
<1>6. ASSUME NEW j \in Results
      PROVE  outputs[j].at # New /\ (Fixed(j) => g[outputs[j].at] = heap[outputs[j].at])
  <2>1. outputs[j].at \in Pointers(inputs, outputs, tensorMap) /\ outputs[j].at \in Addresses
    BY <1>2 DEF Pointers, HeapInv, OutputsHeld
  <2>2. QED BY <1>1, <1>3, <2>1
<1>7. \A k \in DOMAIN tensorMap : tensorMap[k].at \in Addresses /\ tensorMap[k].at \in Pointers(inputs, outputs, tensorMap)
  BY DEF Pointers, HeapInv, MapStands, Stands
<1>8. MapGood(g, tensorMap)
  BY <1>5, <1>7, MapGoodSame
<1>9. Stands(g, t, MeaningNow(id)) /\ (t.cipher <=> id \in Ciphers)
  BY <1>1, <1>3 DEF Stands
<1>10. \A j \in Results : Fixed(j) => t.at # Own(j)
  BY <1>6 DEF HeapInv, FixedAlone
<1> HIDE DEF t
<1>11. MapGood(g, Inserted(id, t))
  BY <1>8, <1>9, <1>10, MapGoodInserted
<1>12. MapGood(g, tensorMap')
  BY <1>11, MapGoodFreed DEF t
<1>13. HeapInv' /\ OutputsKept(Results)
  BY <1>4, <1>5, <1>6, <1>12, CallStep
<1>14. QED BY <1>4, <1>13

\* Another tensor for what one of the heap is, named id.
LEMMA SharedTensor ==
  ASSUME BatchSize = 1, StateInv, HeapInv,
         UNCHANGED <<configVars, inputs, outputs, written>>,
         \A a \in Addresses : a \in Pointers(inputs', outputs', tensorMap') => heap'[a] = heap[a],
         NEW id \in TensorIds, NEW t, Stands(heap, t, MeaningNow(id)), t.cipher <=> id \in Ciphers,
         \A j \in Results : Fixed(j) => t.at # Own(j),
         tensorMap' \in {Inserted(id, t), Freed(Inserted(id, t))}
  PROVE  HeapInv' /\ OutputsKept(Results)
<1>1. ASSUME MapGood(heap, tensorMap) PROVE MapGood(heap, tensorMap')
  <2>1. MapGood(heap, Inserted(id, t))
    BY <1>1, MapGoodInserted
  <2>2. QED BY <2>1, MapGoodFreed
<1>2. QED BY <1>1, HeapKept

\* Names stay those of tensors.
LEMMA InsertedNames ==
  ASSUME DOMAIN tensorMap \subseteq TensorIds, NEW id \in TensorIds, NEW t,
         tensorMap' \in {Inserted(id, t), Freed(Inserted(id, t))}
  PROVE  DOMAIN tensorMap' \subseteq TensorIds
BY DEF Inserted, Freed

\* Inputs are not where results are written in place.
LEMMA InputsApart ==
  ASSUME StateInv, NEW i \in Parameters, NEW j \in Results
  PROVE  inputs[i].at # Own(j)
<1>1. inputs[i].at = i /\ i <= Cardinality(Parameters)
  BY GraphsAssumption DEF StateInv, MapInv, Parameters
<1>2. Cardinality(Parameters) \in Nat /\ i \in Nat
  BY GraphNow, ResultsFinite DEF Parameters
<1>3. j \in Nat \ {0}
  BY DEF Results
<1>4. QED BY <1>1, <1>2, <1>3 DEF Own

\* What the step of a call comes to, when the outputs stay where they are.
Stays == StateInv' /\ HeapInv' /\ Silent /\ message' = message

\* A step that leaves all this alone.
LEMMA StillRight ==
  ASSUME StateInv, HeapInv, MapInv', UNCHANGED <<configVars, heap, callerVars, callVars>>
  PROVE  Stays
<1>1. /\ function' = function /\ nodes' = nodes /\ config' = config /\ inputs' = inputs
      /\ outputs' = outputs /\ written' = written /\ at' = at /\ next' = next
      /\ tensorMap' = tensorMap /\ message' = message /\ heap' = heap
      /\ Parameters' = Parameters /\ Results' = Results
  BY DEF configVars, callerVars, callVars, Parameters, Results
<1>2. StateInv'
  BY <1>1, StateStep DEF StateInv, configVars
<1>3. Ciphers' = Ciphers
  BY <1>1, CiphersKept
<1>4. HeapInv'
  BY <1>1, <1>3 DEF HeapInv, InputsStand, MapStands, OutputsHeld, Holding, FixedAlone, Stands, MeaningNow, Fixed, Own
<1>5. Due' = Due
  BY <1>1 DEF Due, MappedResults, ResultIndex
<1>6. OutputsKept(MappedResults)
  BY <1>1 DEF OutputsKept, Read
<1>7. QED BY <1>1, <1>2, <1>4, <1>5, <1>6 DEF Stays, Silent

\* A failure.
LEMMA FailRight == ASSUME StateInv, HeapInv, MapInv', NEW why, Fail(why) PROVE Stays
BY StillRight DEF Fail

\* The caller's tensor is shared, or what it holds encrypted anew.
LEMMA MapParameterRight ==
  ASSUME BatchSize = 1, StateInv, HeapInv, MapInv', NEW i \in Parameters, MapParameter(i)
  PROVE  Stays
<1> DEFINE x == heap[inputs[i].at]
           c == Encrypt(NewCipher, x.e)
<1>1. CASE EncryptsInputs /\ c = Thrown
  BY <1>1, FailRight DEF MapParameter
<1>2. CASE ~(EncryptsInputs /\ c = Thrown)
  <2>1. /\ UNCHANGED <<configVars, callerVars, at, next, message>>
        /\ at = "parameters"
        /\ EncryptsInputs => /\ tensorMap' = Inserted(i, [cipher |-> TRUE, at |-> New])
                             /\ Keep([heap EXCEPT ![New] = Cipher(c)])
        /\ ~EncryptsInputs => tensorMap' = Inserted(i, inputs[i]) /\ UNCHANGED heap
    BY <1>2 DEF MapParameter
  <2>2. Stands(heap, inputs[i], written[i]) /\ MeaningNow(i) = written[i] /\ i \in TensorIds
    BY ParameterMeans, ParametersNamed DEF HeapInv, InputsStand
  <2>3. HeapInv' /\ OutputsKept(Results) /\ DOMAIN heap' = Addresses
    <3>1. CASE EncryptsInputs
      <4>1. ~x.cipher /\ Reads(x, written[i])
        BY <2>2, <3>1 DEF Stands, StateInv
      <4>2. PlainSound(x.e, <<written[i]>>) /\ written[i] \in Int
        BY <4>1, ReadsValues DEF Reads, Sound
      <4>3. c # Thrown
        BY <1>2, <3>1
      <4> HIDE DEF x
      <4>4. Reads(Cipher(c), written[i])
        BY <4>2, <4>3, NewIsTarget, EncryptReads DEF NewCipher
      <4>5. Cipher(c).cipher = TRUE /\ i \in Ciphers
        BY <3>1, ParameterMeans DEF Cipher
      <4>6. \A a \in Addresses : Same(heap[a], heap[a])
        BY DEF Same
      <4>7. tensorMap' = Inserted(i, [cipher |-> Cipher(c).cipher, at |-> New])
        BY <2>1, <3>1, <4>5
      <4> HIDE DEF c
      <4>8. DOMAIN heap = Addresses /\ UNCHANGED <<configVars, inputs, outputs, written>>
        BY <2>1 DEF StateInv, callerVars
      <4>9. /\ Reads(Cipher(c), MeaningNow(i)) /\ (Cipher(c).cipher <=> i \in Ciphers)
            /\ Keep([heap EXCEPT ![New] = Cipher(c)])
        BY <2>1, <2>2, <3>1, <4>4, <4>5
      <4>10. QED BY <2>2, <4>6, <4>7, <4>8, <4>9, NewTensor
    <3>2. CASE ~EncryptsInputs
      <4>1. tensorMap' = Inserted(i, inputs[i]) /\ heap' = heap
        BY <2>1, <3>2
      <4>2. inputs[i].cipher <=> i \in Ciphers
        BY <3>2, ParameterMeans
      <4>3. QED BY <2>1, <2>2, <4>1, <4>2, SharedTensor, InputsApart DEF callerVars, StateInv
    <3>3. QED BY <3>1, <3>2
  <2>4. DOMAIN tensorMap' \subseteq TensorIds
    BY <2>1, <2>2, InsertedNames DEF StateInv
  <2>5. StateInv'
    BY <2>1, <2>3, <2>4, StateStep DEF StateInv, callerVars
  <2>6. Due' = Due
    BY <2>1 DEF Due, MappedResults, Results, configVars
  <2>7. QED BY <2>1, <2>3, <2>5, <2>6 DEF Stays, Silent, OutputsKept, MappedResults, configVars, callerVars
<1>3. QED BY <1>1, <1>2

\* The nodes begin.
LEMMA BeginRight ==
  ASSUME BatchSize = 1, StateInv, HeapInv, MapInv', Begin
  PROVE  Stays
<1>1. /\ UNCHANGED <<configVars, heap, callerVars, tensorMap, message>>
      /\ at = "parameters" /\ at' = "nodes" /\ GoToFirst(DOMAIN nodes)
  BY DEF Begin
<1>2. Due' = MappedResults /\ Due = MappedResults
  BY <1>1, DueBegin DEF Due, configVars
<1>3. HeapInv' /\ OutputsKept(Results)
  BY <1>1, HeapKept DEF callerVars
<1>4. StateInv'
  BY <1>1, StateStep DEF StateInv, callerVars
<1>5. QED BY <1>1, <1>2, <1>3, <1>4 DEF Stays, Silent, OutputsKept, MappedResults, configVars, callerVars

\* On to the next node.
LEMMA AdvanceRight ==
  ASSUME StateInv, MapInv', at = "nodes", Node.op # "result", NEW map, Advance(map),
         DOMAIN map \subseteq TensorIds, DOMAIN heap' = Addresses, outputs' = outputs,
         HeapInv', OutputsKept(Results)
  PROVE  Stays
<1>1. UNCHANGED <<configVars, inputs, written, message>> /\ at' \in {"nodes", "end"}
  BY DEF Advance
<1>2. DOMAIN tensorMap' \subseteq TensorIds
  BY DEF Advance, Freed
<1>3. StateInv'
  BY <1>1, <1>2, StateStep DEF StateInv
<1>4. QED BY <1>1, <1>3, AdvanceSilent DEF Stays

\* Nothing is done for a parameter.
LEMMA SkipParameterRight ==
  ASSUME BatchSize = 1, StateInv, HeapInv, MapInv', SkipParameter
  PROVE  Stays
<1>1. Running /\ Node.op = "parameter" /\ Advance(tensorMap) /\ UNCHANGED <<heap, outputs>>
  BY DEF SkipParameter
<1>2. UNCHANGED <<configVars, inputs, outputs, written>> /\ tensorMap' = Freed(tensorMap)
  BY <1>1 DEF Advance
<1>3. HeapInv' /\ OutputsKept(Results)
  BY <1>1, <1>2, HeapKept, MapGoodFreed
<1>4. QED BY <1>1, <1>3, AdvanceRight DEF StateInv, Running

\* A kernel changes its arguments in place, and others may have them too.
LEMMA ComputeRight ==
  ASSUME KnownDefects = FALSE, EqualPrimes, BatchSize = 1, StateInv, HeapInv, MapInv', Compute
  PROVE  Stays
<1>1. CASE \E why : Fail(why)
  BY <1>1, FailRight
<1>2. CASE /\ HasArgs /\ ~DefectiveArgs /\ ~(ByClient /\ NotForClient) /\ Kernel # Thrown
           /\ Advance(Inserted(Node.id, [cipher |-> Kernel[3].cipher, at |-> New]))
           /\ UNCHANGED outputs
           /\ Keep([ArgsAfter(Kernel) EXCEPT ![New] = Kernel[3]])
  <2> DEFINE t == [cipher |-> Kernel[3].cipher, at |-> New]
  <2>1. /\ at = "nodes" /\ ~TakesOver
        /\ Node.op \in {"constant", "add", "multiply", "minimum", "relu", "bounded_relu"}
    BY DEF Compute, Running
  <2>2. KernelRight(Kernel)
    BY <1>2, <2>1, KernelsRight
  <2>3. /\ DOMAIN ArgsAfter(Kernel) = Addresses
        /\ \A a \in Addresses : Same(heap[a], ArgsAfter(Kernel)[a])
        /\ \A j \in Results : Fixed(j) => ArgsAfter(Kernel)[outputs[j].at] = heap[outputs[j].at]
    BY <1>2, <2>1, <2>2, ArgsAfterSame
  <2>4. Node.id \in TensorIds
    BY <2>1, NodeNamed
  <2>5. Reads(Kernel[3], MeaningNow(Node.id)) /\ (Kernel[3].cipher <=> Node.id \in Ciphers)
    BY <2>2 DEF KernelRight
  <2>6. UNCHANGED <<configVars, inputs, outputs, written>> /\ tensorMap' = Freed(Inserted(Node.id, t))
    BY <1>2 DEF Advance
  <2>7. HeapInv' /\ OutputsKept(Results) /\ DOMAIN heap' = Addresses
    BY <1>2, <2>3, <2>4, <2>5, <2>6, NewTensor
  <2>8. DOMAIN Inserted(Node.id, t) \subseteq TensorIds
    BY <2>4 DEF StateInv, Inserted
  <2> HIDE DEF t
  <2>9. QED BY <1>2, <2>1, <2>7, <2>8, AdvanceRight DEF t
<1>3. QED BY <1>1, <1>2 DEF Compute

\* A movement shares the ciphertext of its argument, or copies the plaintext.
LEMMA ReshapeRight ==
  ASSUME KnownDefects = FALSE, BatchSize = 1, StateInv, HeapInv, MapInv', Reshape
  PROVE  Stays
<1> DEFINE out == IF Arg(1).cipher THEN Arg(1) ELSE [cipher |-> FALSE, at |-> New]
<1>1. CASE \E why : Fail(why)
  BY <1>1, FailRight
<1>2. CASE /\ HasArgs /\ ~DefectiveArgs
           /\ Advance(Inserted(Node.id, out))
           /\ UNCHANGED outputs
           /\ Keep([heap EXCEPT ![out.at] = Element(1)])
  <2>1. at = "nodes" /\ Node.op \in {"reshape", "minimum"}
    BY DEF Reshape, Running, TakesOver
  <2>2. Node.op = "reshape"
    <3> SUFFICES ASSUME Node.op = "minimum" PROVE FALSE
      BY <2>1
    <3>1. Element(1).cipher
      BY DEF Reshape, TakesOver
    <3>2. Unmarked(Element(1)).cipher
      BY <3>1 DEF Unmarked
    <3>3. Node.op = "minimum" /\ ~Defective(Node.op, Unmarked(Element(1)), Unmarked(Element(2)))
      BY <1>2 DEF DefectiveArgs
    <3>4. QED BY <3>2, <3>3 DEF Defective
  <2>3. 1 \in DOMAIN Node.args /\ DOMAIN Node.args = {1}
    BY <2>1, <2>2, NodeNow DEF Arity
  <2>4. /\ Node.args[1] \in DOMAIN tensorMap /\ Arg(1) = tensorMap[Node.args[1]]
        /\ Stands(heap, Arg(1), MeaningNow(Node.args[1]))
        /\ Element(1) = heap[Arg(1).at] /\ Reads(Element(1), MeaningNow(Node.args[1]))
        /\ Element(1).cipher = Arg(1).cipher /\ Element(1).cipher \in BOOLEAN
    BY <1>2, <2>1, <2>2, <2>3, ArgStands
  <2>5. MeaningNow(Node.id) = MeaningNow(Node.args[1])
    BY <2>1, <2>2, NodeNow DEF NodeValue
  <2>6. Element(1).cipher <=> Node.id \in Ciphers
    BY <1>2, <2>1, <2>2, <2>3, CipherOfArgs
  <2>7. Node.id \in TensorIds
    BY <2>1, <2>2, NodeNamed
  <2>8. UNCHANGED <<configVars, inputs, outputs, written>> /\ tensorMap' = Freed(Inserted(Node.id, out))
    BY <1>2 DEF Advance
  <2>9. HeapInv' /\ OutputsKept(Results) /\ DOMAIN heap' = Addresses
    <3>1. CASE Arg(1).cipher
      <4>1. out = Arg(1)
        BY <3>1
      <4>2. /\ DOMAIN heap' = Addresses
            /\ \A a \in Addresses : a \in Pointers(inputs', outputs', tensorMap') => heap'[a] = heap[a]
        BY <1>2, <2>4, <4>1 DEF Keep, Stands, StateInv
      <4>3. \A j \in Results : Fixed(j) => Arg(1).at # Own(j)
        BY <2>4 DEF HeapInv, FixedAlone
      <4> HIDE DEF out
      <4>4. QED BY <2>4, <2>5, <2>6, <2>7, <2>8, <4>1, <4>2, <4>3, SharedTensor
    <3>2. CASE ~Arg(1).cipher
      <4>1. out = [cipher |-> Element(1).cipher, at |-> New]
        BY <2>4, <3>2
      <4>2. Keep([heap EXCEPT ![New] = Element(1)])
        <5>1. out.at = New
          BY <4>1
        <5>2. Keep([heap EXCEPT ![out.at] = Element(1)])
          BY <1>2
        <5> HIDE DEF out
        <5>3. QED BY ONLY <5>1, <5>2 DEF Keep
      <4>3. \A a \in Addresses : Same(heap[a], heap[a])
        BY DEF Same
      <4> HIDE DEF out
      <4>4. DOMAIN heap = Addresses /\ tensorMap' = Freed(Inserted(Node.id, [cipher |-> Element(1).cipher, at |-> New]))
        BY <2>8, <4>1 DEF StateInv
      <4>5. Reads(Element(1), MeaningNow(Node.id))
        BY <2>4, <2>5
      <4>6. QED BY <2>6, <2>7, <2>8, <4>2, <4>3, <4>4, <4>5, NewTensor
    <3>3. QED BY <3>1, <3>2
  <2>10. DOMAIN Inserted(Node.id, out) \subseteq TensorIds
    BY <2>7 DEF StateInv, Inserted
  <2> HIDE DEF out
  <2>11. QED BY <1>2, <2>1, <2>2, <2>9, <2>10, AdvanceRight
<1>3. QED BY <1>1, <1>2 DEF Reshape

-----------------------------------------------------------------------------
(* Results.                                                                *)

\* What a reader of a decrypted number gets.
LEMMA DecryptedReads ==
  ASSUME BatchSize = 1, NEW x, NEW v, Reads(x, v), x.cipher
  PROVE  Decrypt(x.e) # Thrown /\ ValuesOf(PlainOf(Decrypt(x.e))) = <<v>>
<1> DEFINE p == Decrypt(x.e)
           q == Plain(p.values, FALSE)
<1>1. BatchesFit /\ IsBatch(<<v>>) /\ CipherSound(x.e, <<v>>, Top)
  BY SingleNumbers, ReadsValues DEF Reads, Sound
<1>2. p # Thrown /\ Means(p, <<v>>)
  BY <1>1, DecryptMeans
<1> HIDE DEF p
<1>3. q.values = p.values /\ q = Plain(q.values, FALSE)
  BY DEF Plain
<1>4. PlainSound(q, <<v>>)
  BY <1>2, <1>3 DEF PlainSound, Means, ValueAt, IsSingle
<1>5. Sound(PlainOf(q), <<v>>, 0) /\ q # Thrown
  BY <1>1, <1>4, PlainGives, 0 \in Nat
<1>6. ValuesOf(PlainOf(q)) = <<v>>
  BY <1>1, <1>5, SoundValues
<1> HIDE DEF q
<1>7. ValuesOf(PlainOf(p)) = ValuesOf(PlainOf(q))
  BY <1>2, <1>3, <1>5 DEF ValuesOf, PlainOf, IsSingle
<1>8. QED BY <1>2, <1>6, <1>7 DEF p

\* The element that result_seal makes in place.
LEMMA ResultGives ==
  ASSUME BatchSize = 1, NEW v, Reads(Element(1), v), NEW out, out.cipher \in BOOLEAN,
         ~(Element(1).cipher /\ out.cipher),
         out.cipher => heap[out.at].cipher /\ IsTarget(heap[out.at].e),
         ~EncryptsOverZero(out), ResultOf(out) # Thrown
  PROVE  /\ ValuesOf(ResultOf(out)[3]) = <<v>>
         /\ ResultOf(out)[3].cipher = out.cipher
         /\ out.cipher => IsElement(ResultOf(out)[3]) /\ IsTarget(ResultOf(out)[3].e)
<1> DEFINE x == Element(1)
<1>1. x.cipher \in BOOLEAN
  BY DEF Reads, Sound, IsElement
<1>2. CASE ~x.cipher /\ ~out.cipher
  <2>1. ResultOf(out) = <<x, x, x>>
    BY <1>1, <1>2 DEF ResultOf
  <2>2. ResultOf(out)[3] = x
    BY <2>1
  <2> HIDE DEF x
  <2>3. x.cipher = out.cipher /\ ValuesOf(x) = <<v>>
    BY <1>1, <1>2, ReadsValues DEF x
  <2>4. QED BY <1>2, <2>2, <2>3
<1>3. CASE x.cipher /\ ~out.cipher
  <2>1. ResultOf(out) = PlainResult(x, x, Decrypt(x.e))
    BY <1>1, <1>3 DEF ResultOf
  <2>2. ResultOf(out)[3] = PlainOf(Decrypt(x.e))
    BY <1>3, <2>1, DecryptedReads DEF PlainResult
  <2>3. ResultOf(out)[3].cipher = FALSE
    BY <2>2 DEF PlainOf
  <2>4. QED BY <1>3, <2>2, <2>3, DecryptedReads
<1>4. CASE ~x.cipher /\ out.cipher
  <2> DEFINE o == heap[out.at].e
  <2>1. ResultOf(out) = Result(x, x, Encrypt(o, x.e))
    BY <1>1, <1>4 DEF ResultOf
  <2>2. Encrypt(o, x.e) # Thrown
    BY <2>1 DEF Result
  <2>3. ResultOf(out)[3] = Cipher(Encrypt(o, x.e))
    BY <2>1, <2>2 DEF Result
  <2>4. PlainSound(x.e, <<v>>) /\ v \in Int /\ IsTarget(o)
    BY <1>4, ReadsValues DEF Reads, Sound
  <2>5. ~(o.zero /\ x.e.values[1] # 0)
    BY <1>4 DEF EncryptsOverZero, RewritesZero
  <2> HIDE DEF x, o
  <2>6. Reads(Cipher(Encrypt(o, x.e)), v) /\ IsTarget(Encrypt(o, x.e))
    BY <2>2, <2>4, <2>5, EncryptReads
  <2> DEFINE c == Encrypt(o, x.e)
  <2>7. Cipher(c).cipher = TRUE /\ Cipher(c).e = c /\ out.cipher = TRUE
    BY <1>4 DEF Cipher
  <2> HIDE DEF c
  <2>8. ResultOf(out)[3] = Cipher(c) /\ Reads(Cipher(c), v) /\ IsTarget(c)
    BY <2>3, <2>6 DEF c
  <2>9. IsElement(Cipher(c)) /\ ValuesOf(Cipher(c)) = <<v>>
    BY <2>8, ReadsValues DEF Reads, Sound
  <2>10. QED BY <2>7, <2>8, <2>9
<1>5. QED BY <1>1, <1>2, <1>3, <1>4

\* The result that call() is at, when it does not fail.
Resulting ==
  /\ HasArgs /\ ~EncryptsOverZero(ResultTensor(ResultIndex(Node)))
  /\ ResultOf(ResultTensor(ResultIndex(Node))) # Thrown
  /\ Advance(tensorMap)

\* The argument of a result holds its number.
LEMMA ResultArg ==
  ASSUME StateInv, HeapInv, at = "nodes", Node.op = "result", HasArgs
  PROVE  LET v == Meaning(function, written)[NodeOfResult(function, ResultIndex(Node))]
         IN  /\ Node.args[1] \in DOMAIN tensorMap /\ Arg(1) = tensorMap[Node.args[1]]
             /\ Stands(heap, Arg(1), v) /\ Element(1) = heap[Arg(1).at] /\ Reads(Element(1), v)
             /\ Element(1).cipher = Arg(1).cipher /\ Element(1).cipher \in BOOLEAN
             /\ Element(1).cipher <=> NodeOfResult(function, ResultIndex(Node)) \in Ciphers
<1>1. 1 \in DOMAIN Node.args /\ DOMAIN Node.args = {1}
  BY NodeNow DEF Arity
<1>2. next \in Ids(function) /\ Node.id = next /\ NodeOfResult(function, ResultIndex(Node)) = next
  BY ResultNow, NodeNow, GraphNow, CompiledDomain
<1>3. MeaningNow(Node.id) = Meaning(function, written)[next]
  BY <1>2, GraphNow, CompiledDomain DEF MeaningNow, MeaningOf, Original
<1>4. MeaningNow(Node.id) = MeaningNow(Node.args[1])
  BY NodeNow DEF NodeValue
<1>5. Element(1).cipher <=> Node.id \in Ciphers
  BY <1>1, CipherOfArgs
<1>6. QED BY <1>1, <1>2, <1>3, <1>4, <1>5, ArgStands

\* A result goes to an output of its own or nowhere.
ResultDone(j) ==
  /\ StateInv' /\ HeapInv' /\ message' = message
  /\ IF j \in MappedResults THEN Giving(j) ELSE Silent

\* A result that has been done.
LEMMA ResultSteps ==
  ASSUME StateInv, MapInv', at = "nodes", Node.op = "result", Advance(tensorMap), HeapInv',
         DOMAIN heap' = Addresses, DOMAIN outputs' = Results,
         NEW j \in Results, j = ResultIndex(Node), OutputsKept(MappedResults \ {j}),
         j \in MappedResults =>
           Read(outputs[j])' = <<Meaning(function, written)[NodeOfResult(function, j)]>>
  PROVE  ResultDone(j)
<1>1. UNCHANGED <<configVars, inputs, written, message>> /\ at' \in {"nodes", "end"}
  BY DEF Advance
<1>2. DOMAIN tensorMap' \subseteq TensorIds
  BY DEF Advance, Freed, StateInv
<1>3. StateInv'
  BY <1>1, <1>2, StateStep DEF StateInv
<1>4. Due' = Due \ {j}
  BY DueAdvance
<1>5. Due \subseteq MappedResults
  BY DEF Due
<1>6. CASE j \in MappedResults
  BY <1>1, <1>3, <1>4, <1>6 DEF ResultDone, Giving, configVars
<1>7. CASE j \notin MappedResults
  <2>1. Due' = Due /\ MappedResults \ {j} = MappedResults
    BY <1>4, <1>5, <1>7
  <2>2. QED BY <1>1, <1>3, <1>7, <2>1 DEF ResultDone, Silent, configVars
<1>8. QED BY <1>6, <1>7

\* A ciphertext of a result that takes over that of its argument.
LEMMA ResultTakesOver ==
  ASSUME BatchSize = 1, StateInv, HeapInv, MapInv', at = "nodes", Node.op = "result", Resulting,
         NEW j \in Results, j = ResultIndex(Node), Arg(1).cipher, outputs[j].cipher,
         outputs' = [outputs EXCEPT ![j] = Arg(1)], Keep(heap)
  PROVE  ResultDone(j)
<1> DEFINE v == Meaning(function, written)[NodeOfResult(function, j)]
<1>1. j \in Results /\ UNCHANGED <<configVars, inputs, written>> /\ tensorMap' = Freed(tensorMap)
  BY ResultNow DEF Resulting, Advance
<1>2. /\ Node.args[1] \in DOMAIN tensorMap /\ Arg(1) = tensorMap[Node.args[1]]
      /\ Stands(heap, Arg(1), v) /\ Reads(heap[Arg(1).at], v)
      /\ Arg(1).cipher \in BOOLEAN /\ (Arg(1).cipher <=> NodeOfResult(function, j) \in Ciphers)
  BY ResultArg DEF Resulting
<1> HIDE DEF v
<1>3. ~Fixed(j) /\ DOMAIN outputs = Results /\ Arg(1).at \in Addresses
  BY <1>2 DEF Fixed, StateInv, Stands
<1>4. /\ DOMAIN outputs' = Results /\ outputs'[j] = Arg(1)
      /\ \A l \in Results \ {j} : outputs'[l] = outputs[l]
  BY <1>1, <1>3
<1>5. /\ DOMAIN heap' = Addresses
      /\ \A a \in Addresses : a \in Pointers(inputs', outputs', tensorMap') => heap'[a] = heap[a]
  BY DEF Keep
<1>6. \A a : Same(heap[a], heap[a])
  BY DEF Same
<1>7. OutputsGood(heap, outputs')
  <2>1. OutputsGood(heap, outputs)
    BY <1>6, OutputsGoodSame
  <2>2. outputs[j].cipher \in BOOLEAN /\ outputs[j].cipher /\ Arg(1).cipher
    BY <1>1 DEF HeapInv, OutputsHeld
  <2>3. outputs'[j].cipher = outputs[j].cipher
    BY <1>2, <1>4, <2>2
  <2>4. \A l \in Results : Fixed(l) => Arg(1).at # Own(l)
    BY <1>2 DEF HeapInv, FixedAlone
  <2>5. Holding(heap, Arg(1))
    BY <1>2 DEF Stands, Holding, Reads, Sound
  <2>6. QED BY <1>1, <1>3, <1>4, <2>1, <2>3, <2>4, <2>5 DEF OutputsGood
<1>8. MapGood(heap, tensorMap')
  BY <1>1, <1>6, MapGoodSame, MapGoodFreed
<1>9. HeapInv'
  BY <1>1, <1>5, <1>6, <1>7, <1>8, HeapStep
<1>10. OutputsKept(MappedResults \ {j})
  <2>1. ASSUME NEW l \in MappedResults \ {j} PROVE Read(outputs[l])' = Read(outputs[l])
    <3>1. l \in Results /\ outputs'[l] = outputs[l]
      BY <1>4 DEF MappedResults
    <3>2. QED BY <1>4, <1>5, <1>6, <3>1, ReadKept
  <2>2. QED BY <2>1 DEF OutputsKept
<1>11. Read(outputs[j])' = <<v>>
  <2>1. Arg(1).at \in Pointers(inputs', outputs', tensorMap')
    BY <1>1, <1>4 DEF Pointers
  <2>2. heap'[Arg(1).at] = heap[Arg(1).at]
    BY <1>3, <1>5, <2>1
  <2>3. QED BY <1>2, <1>4, <2>2, ReadsValues DEF Read
<1>12. QED BY <1>4, <1>5, <1>9, <1>10, <1>11, ResultSteps DEF Resulting, v

\* A result that is written to the tensor of the caller.
LEMMA ResultInPlace ==
  ASSUME BatchSize = 1, StateInv, HeapInv, MapInv', at = "nodes", Node.op = "result", Resulting,
         NEW j \in Results, j = ResultIndex(Node), Mapped(j), ~(Arg(1).cipher /\ outputs[j].cipher),
         Keep([heap EXCEPT ![outputs[j].at] = ResultOf(outputs[j])[3]]), UNCHANGED outputs
  PROVE  ResultDone(j)
<1> DEFINE v == Meaning(function, written)[NodeOfResult(function, j)]
           out == outputs[j]
           x == ResultOf(out)[3]
           h == [heap EXCEPT ![out.at] = x]
<1>1. j \in Results /\ UNCHANGED <<configVars, inputs, written>> /\ tensorMap' = Freed(tensorMap)
  BY ResultNow DEF Resulting, Advance
<1>2. /\ Reads(Element(1), v) /\ Element(1).cipher = Arg(1).cipher
      /\ (Arg(1).cipher <=> NodeOfResult(function, j) \in Ciphers)
  BY ResultArg DEF Resulting
<1>3. out.cipher \in BOOLEAN /\ out.at \in Addresses
  BY <1>1 DEF HeapInv, OutputsHeld
<1>4. Fixed(j)
  BY <1>2, <1>3 DEF Fixed
<1>5. /\ out.at = Own(j)
      /\ \A k \in DOMAIN tensorMap : tensorMap[k].at # Own(j)
      /\ \A l \in Results \ {j} : outputs[l].at # Own(j)
      /\ out.cipher => heap[out.at].cipher /\ IsTarget(heap[out.at].e)
  BY <1>1, <1>4 DEF HeapInv, FixedAlone
<1>6. ~EncryptsOverZero(out) /\ ResultOf(out) # Thrown
  BY DEF Resulting, ResultTensor
<1> HIDE DEF v
<1>7. ValuesOf(x) = <<v>> /\ x.cipher = out.cipher /\ (out.cipher => IsElement(x) /\ IsTarget(x.e))
  <2>1. ~(Element(1).cipher /\ out.cipher)
    BY <1>2
  <2> HIDE DEF out
  <2>2. QED BY <1>2, <1>3, <1>5, <1>6, <2>1, ResultGives
<1>8. Keep(h)
  OBVIOUS
<1> HIDE DEF x
<1>9. h[Own(j)] = x /\ \A a \in Addresses : a # Own(j) => h[a] = heap[a]
  BY <1>3, <1>5 DEF StateInv
<1> HIDE DEF h
<1>10. /\ DOMAIN heap' = Addresses
       /\ \A a \in Addresses : a \in Pointers(inputs', outputs', tensorMap') => heap'[a] = h[a]
  BY <1>8 DEF Keep
<1>11. \A a \in Addresses : a # Own(j) => Same(heap[a], h[a])
  BY <1>9 DEF Same
<1>12. \A i \in Parameters : Same(heap[inputs[i].at], h[inputs[i].at])
  BY <1>1, <1>11, InputsApart DEF HeapInv, InputsStand, Stands
<1>13. MapGood(h, tensorMap')
  <2>1. \A k \in DOMAIN tensorMap : Same(heap[tensorMap[k].at], h[tensorMap[k].at])
    BY <1>5, <1>11 DEF HeapInv, MapStands, Stands
  <2>2. QED BY <1>1, <2>1, MapGoodSame, MapGoodFreed
<1>14. OutputsGood(h, outputs')
  <2>1. ASSUME NEW l \in Results, Fixed(l)
        PROVE  /\ \A m \in Results \ {l} : outputs[m].at # Own(l)
               /\ outputs[l].cipher => h[Own(l)].cipher /\ IsTarget(h[Own(l)].e)
    <3>1. /\ outputs[l].at = Own(l) /\ Own(l) \in Addresses
          /\ \A m \in Results \ {l} : outputs[m].at # Own(l)
          /\ outputs[l].cipher => heap[Own(l)].cipher /\ IsTarget(heap[Own(l)].e)
      BY <2>1 DEF HeapInv, FixedAlone, OutputsHeld
    <3>2. CASE l = j
      BY <1>7, <1>9, <3>1, <3>2
    <3>3. CASE l # j
      <4>1. Own(l) # Own(j)
        BY <1>1, <1>5, <2>1, <3>1, <3>3
      <4>2. QED BY <1>9, <3>1, <4>1
    <3>4. QED BY <3>2, <3>3
  <2>2. ASSUME NEW l \in Results
        PROVE  outputs[l].at \in Addresses /\ Holding(h, outputs[l])
    <3>1. outputs[l].at \in Addresses /\ Holding(heap, outputs[l])
      BY DEF HeapInv, OutputsHeld
    <3>2. CASE l = j
      BY <1>5, <1>7, <1>9, <3>1, <3>2 DEF Holding
    <3>3. CASE l # j
      BY <1>5, <1>9, <3>1, <3>3 DEF Holding
    <3>4. QED BY <3>1, <3>2, <3>3
  <2>3. outputs' = outputs /\ DOMAIN outputs = Results
    BY DEF StateInv
  <2>4. QED BY <2>1, <2>2, <2>3 DEF OutputsGood
<1>15. HeapInv'
  BY <1>1, <1>10, <1>12, <1>13, <1>14, HeapStep
<1>16. OutputsKept(MappedResults \ {j})
  <2>1. ASSUME NEW l \in MappedResults \ {j} PROVE Read(outputs[l])' = Read(outputs[l])
    <3>1. l \in Results /\ outputs[l].at # Own(j) /\ outputs[l].at \in Addresses
      BY <1>5 DEF MappedResults, HeapInv, OutputsHeld
    <3>2. Same(heap[outputs[l].at], h[outputs[l].at]) /\ DOMAIN outputs' = Results
      BY <1>11, <3>1 DEF StateInv
    <3>3. QED BY <1>10, <3>1, <3>2, ReadKept
  <2>2. QED BY <2>1 DEF OutputsKept
<1>17. Read(outputs[j])' = <<v>>
  <2>1. out.at \in Pointers(inputs', outputs', tensorMap')
    BY <1>1 DEF Pointers, StateInv
  <2>2. heap'[out.at] = x
    BY <1>3, <1>5, <1>9, <1>10, <2>1
  <2>3. QED BY <1>7, <2>2 DEF Read
<1>18. QED BY <1>10, <1>15, <1>16, <1>17, ResultSteps DEF Resulting, v, StateInv

\* A result that is not mapped.
LEMMA ResultNowhere ==
  ASSUME BatchSize = 1, StateInv, HeapInv, MapInv', at = "nodes", Node.op = "result", Resulting,
         NEW j \in Results, j = ResultIndex(Node), ~Mapped(j), UNCHANGED outputs, Keep(heap)
  PROVE  ResultDone(j)
<1>1. UNCHANGED <<configVars, inputs, written>> /\ tensorMap' = Freed(tensorMap)
  BY DEF Resulting, Advance
<1>2. DOMAIN heap' = Addresses /\ \A a \in Addresses : a \in Pointers(inputs', outputs', tensorMap') => heap'[a] = heap[a]
  BY DEF Keep
<1>3. HeapInv' /\ OutputsKept(Results)
  BY <1>1, <1>2, HeapKept, MapGoodFreed
<1>4. QED BY <1>2, <1>3, ResultSteps DEF Resulting, OutputsKept, MappedResults, StateInv

\* Every result, whatever it does.
LEMMA ResultRight ==
  ASSUME KnownDefects = FALSE, BatchSize = 1, StateInv, HeapInv, MapInv', Result1
  PROVE  Stays \/ \E j \in Results : at = "nodes" /\ j = ResultIndex(Node) /\ ResultDone(j)
<1>1. CASE \E why : Fail(why)
  BY <1>1, FailRight
<1>2. CASE ~\E why : Fail(why)
  <2>1. at = "nodes" /\ Node.op = "result" /\ Resulting
    BY <1>2 DEF Result1, Running, Resulting
  <2>2. PICK j \in Results : j = ResultIndex(Node)
    BY <2>1, ResultNow
  <2>3. IF ~Mapped(j) THEN UNCHANGED outputs /\ Keep(heap)
        ELSE IF Arg(1).cipher /\ outputs[j].cipher
        THEN outputs' = [outputs EXCEPT ![j] = Arg(1)] /\ Keep(heap)
        ELSE UNCHANGED outputs /\ Keep([heap EXCEPT ![outputs[j].at] = ResultOf(outputs[j])[3]])
    BY <1>2, <2>2 DEF Result1, ResultTensor
  <2>4. CASE ~Mapped(j)
    BY <2>1, <2>2, <2>3, <2>4, ResultNowhere
  <2>5. CASE Mapped(j) /\ Arg(1).cipher /\ outputs[j].cipher
    BY <2>1, <2>2, <2>3, <2>5, ResultTakesOver
  <2>6. CASE Mapped(j) /\ ~(Arg(1).cipher /\ outputs[j].cipher)
    BY <2>1, <2>2, <2>3, <2>6, ResultInPlace
  <2>7. QED BY <2>1, <2>2, <2>4, <2>5, <2>6
<1>3. QED BY <1>1, <1>2

-----------------------------------------------------------------------------
(* The caller's steps.                                                     *)

\* An element that is written is read as the number.
LEMMA WrittenReads ==
  ASSUME BatchSize = 1, NEW v \in Numbers, NEW x, x.cipher \in BOOLEAN,
         x.cipher => IsTarget(x.e) /\ ~(x.e.zero /\ v # 0)
  PROVE  Reads(Write1(x, v), v) /\ Write1(x, v).cipher = x.cipher
<1> DEFINE p == Plain(<<v>>, FALSE)
<1>1. v \in Int /\ Encode(p) # Thrown
  BY NumbersAssumption
<1>2. PlainSound(p, <<v>>) /\ p.values[1] = v /\ Reads(PlainOf(p), v)
  BY <1>1, PlainReads
<1>3. Write1(x, v) = IF x.cipher THEN Cipher(Encrypt(x.e, p)) ELSE PlainOf(p)
  BY DEF Write1
<1> HIDE DEF p
<1>4. CASE x.cipher
  <2>1. IsTarget(x.e) /\ ~(x.e.zero /\ p.values[1] # 0)
    BY <1>2, <1>4
  <2>2. Encrypt(x.e, p) # Thrown
    <3>1. IsCipher(Encrypt(x.e, p))
      BY <1>1, <2>1, EncodedCipher DEF IsTarget
    <3>2. "zero" \in DOMAIN Encrypt(x.e, p) /\ DOMAIN Thrown = {"thrown"}
      BY <3>1 DEF IsCipher, Thrown
    <3>3. QED BY <3>2
  <2>3. Reads(Cipher(Encrypt(x.e, p)), v)
    BY <1>1, <1>2, <2>1, <2>2, EncryptReads
  <2>4. Cipher(Encrypt(x.e, p)).cipher = TRUE /\ x.cipher = TRUE
    BY <1>4 DEF Cipher
  <2>5. QED BY <1>3, <2>3, <2>4
<1>5. CASE ~x.cipher
  <2>1. PlainOf(p).cipher = FALSE /\ x.cipher = FALSE
    BY <1>5 DEF PlainOf
  <2>2. QED BY <1>2, <1>3, <2>1
<1>6. QED BY <1>4, <1>5

\* What the caller sees of a write.
Writes ==
  /\ Due = {} /\ Due' = {} /\ function' = function
  /\ written' \in [Parameters -> Numbers] /\ OutputsKept(MappedResults)

\* A write changes no output and no other input, for none shares the ciphertext.
LEMMA WriteRight ==
  ASSUME KnownDefects = FALSE, BatchSize = 1, RightInv, MapInv', NEW i \in Parameters,
         NEW v \in Numbers, Write(i, v)
  PROVE  RightInv' /\ Writes
<1> DEFINE a == inputs[i].at
           x == heap[a]
<1>1. /\ at = "idle" /\ at' = "idle" /\ ~config.enableClient
      /\ ~RewritesZero(x, v) /\ ~SharedByOutput(i)
      /\ written' = [written EXCEPT ![i] = v]
      /\ heap' = [heap EXCEPT ![a] = Write1(x, v)]
      /\ function' = function /\ nodes' = nodes /\ config' = config
      /\ inputs' = inputs /\ outputs' = outputs /\ tensorMap' = tensorMap /\ message' = message
      /\ Parameters' = Parameters /\ Results' = Results
  BY DEF Write, Writable, configVars, Parameters, Results
<1>2. StateInv /\ HeapInv
  BY DEF RightInv
<1>3. /\ a \in Addresses /\ Reads(x, written[i]) /\ x.cipher = inputs[i].cipher
      /\ DOMAIN heap = Addresses /\ written \in [Parameters -> Numbers] /\ DOMAIN outputs = Results
      /\ DOMAIN tensorMap = {}
  BY <1>1, <1>2 DEF HeapInv, InputsStand, Stands, StateInv
<1>4. x.cipher \in BOOLEAN /\ (x.cipher => IsTarget(x.e) /\ ~(x.e.zero /\ v # 0))
  BY <1>1, <1>3 DEF Reads, Sound, IsElement, CipherSound, IsTarget, RewritesZero
<1>5. \A b \in Addresses : b # a => heap'[b] = heap[b]
  BY <1>1, <1>3
<1>6. heap'[a] = Write1(x, v)
  BY <1>1, <1>3
<1> HIDE DEF x
<1>7. Reads(heap'[a], v) /\ heap'[a].cipher = inputs[i].cipher
  BY <1>3, <1>4, <1>6, WrittenReads
<1>8. InputsStand'
  <2>1. ASSUME NEW k \in Parameters PROVE Stands(heap', inputs[k], written'[k])
    <3>1. CASE k = i
      BY <1>1, <1>3, <1>7, <3>1 DEF Stands
    <3>2. CASE k # i
      <4>1. inputs[k].at # a /\ Stands(heap, inputs[k], written[k]) /\ written'[k] = written[k]
        BY <1>1, <1>2, <1>3, <3>2 DEF StateInv, HeapInv, InputsStand
      <4>2. heap'[inputs[k].at] = heap[inputs[k].at]
        BY <1>5, <4>1 DEF Stands
      <4>3. QED BY <4>1, <4>2 DEF Stands
    <3>3. QED BY <3>1, <3>2
  <2>2. QED BY <1>1, <2>1 DEF InputsStand
<1>9. MapStands'
  BY <1>1, <1>3 DEF MapStands
<1>10. OutputsHeld'
  <2>1. ASSUME NEW j \in Results
        PROVE  /\ outputs[j].at \in Addresses /\ outputs[j].cipher \in BOOLEAN
               /\ Holding(heap', outputs[j])
               /\ config.enableClient => outputs[j].cipher
    <3>1. /\ outputs[j].at \in Addresses /\ outputs[j].cipher \in BOOLEAN
          /\ Holding(heap, outputs[j])
          /\ config.enableClient => outputs[j].cipher
      BY <1>2 DEF HeapInv, OutputsHeld
    <3>2. outputs[j].at # a
      BY <1>1, <1>3 DEF SharedByOutput
    <3>3. QED BY <1>5, <3>1, <3>2 DEF Holding
  <2>2. QED BY <1>1, <2>1 DEF OutputsHeld, Holding
<1>11. FixedAlone'
  <2>1. \A j \in Results : Fixed(j)' <=> Fixed(j)
    BY <1>1, CiphersKept DEF Fixed
  <2>2. ASSUME NEW j \in Results PROVE Own(j)' = Own(j) /\ Own(j) # a
    BY <1>1, <1>2, InputsApart DEF Own
  <2>3. ASSUME NEW j \in Results, Fixed(j)
        PROVE  /\ outputs[j].at = Own(j)
               /\ \A l \in Results \ {j} : outputs[l].at # Own(j)
               /\ outputs[j].cipher => heap'[Own(j)].cipher /\ IsTarget(heap'[Own(j)].e)
    <3>1. /\ outputs[j].at = Own(j) /\ outputs[j].at \in Addresses
          /\ \A l \in Results \ {j} : outputs[l].at # Own(j)
          /\ outputs[j].cipher => heap[Own(j)].cipher /\ IsTarget(heap[Own(j)].e)
      BY <1>2, <2>3 DEF HeapInv, FixedAlone, OutputsHeld
    <3>2. heap'[Own(j)] = heap[Own(j)]
      BY <1>5, <2>2, <3>1
    <3>3. QED BY <3>1, <3>2
  <2>4. QED BY <1>1, <1>3, <2>1, <2>2, <2>3 DEF FixedAlone
<1>12. written' \in [Parameters -> Numbers]
  BY <1>1, <1>3
<1>13. DOMAIN heap' = Addresses
  BY <1>1, <1>3
<1>14. StateInv'
  BY <1>1, <1>2, <1>3, <1>12, <1>13, StateStep DEF StateInv, configVars
<1>15. Due = {} /\ Due' = {}
  BY <1>1 DEF Due
<1>16. OutputsKept(MappedResults)
  <2>1. ASSUME NEW j \in Results PROVE Read(outputs[j])' = Read(outputs[j])
    <3>1. outputs[j].at # a /\ outputs[j].at \in Addresses
      BY <1>1, <1>2, <1>3 DEF SharedByOutput, HeapInv, OutputsHeld
    <3>2. QED BY <1>1, <1>5, <3>1 DEF Read
  <2>2. QED BY <2>1 DEF OutputsKept, MappedResults
<1>17. GivenRight' /\ MessageInv'
  BY <1>1 DEF GivenRight, MessageInv, RightInv
<1>18. QED
  BY <1>1, <1>8, <1>9, <1>10, <1>11, <1>12, <1>14, <1>15, <1>16, <1>17 DEF RightInv, HeapInv, Writes

\* What the caller sees of the beginning of a call.
Begins ==
  /\ Due = {} /\ Due' = MappedResults /\ function' = function /\ written' = written
  /\ OutputsKept(MappedResults)

\* A call begins.
LEMMA CallRight ==
  ASSUME BatchSize = 1, RightInv, MapInv', Call
  PROVE  RightInv' /\ Begins
<1>1. /\ at = "idle" /\ at' = "parameters"
      /\ function' = function /\ nodes' = nodes /\ config' = config /\ inputs' = inputs
      /\ outputs' = outputs /\ written' = written /\ tensorMap' = tensorMap
      /\ message' = message /\ heap' = heap
      /\ Results' = Results
  BY DEF Call, configVars, callerVars, Results
<1>2. StateInv /\ HeapInv
  BY DEF RightInv
<1>3. HeapInv' /\ OutputsKept(Results)
  BY <1>1, <1>2, HeapKept DEF configVars
<1>4. StateInv'
  BY <1>1, <1>2, StateStep DEF StateInv, configVars
<1>5. Due = {} /\ Due' = MappedResults
  BY <1>1 DEF Due, MappedResults
<1>6. GivenRight' /\ MessageInv'
  BY <1>1 DEF GivenRight, MessageInv, RightInv
<1>7. QED BY <1>1, <1>3, <1>4, <1>5, <1>6 DEF RightInv, Begins, OutputsKept, MappedResults

\* A step within a call that gives nothing.
LEMMA StaysRight ==
  ASSUME RightInv, Stays, config' = config, at # "idle" \/ at' = at
  PROVE  RightInv'
<1>1. /\ StateInv' /\ HeapInv' /\ message' = message /\ function' = function
      /\ written' = written /\ Due' = Due /\ OutputsKept(MappedResults)
  BY DEF Stays, Silent
<1>2. MappedResults' = MappedResults
  BY <1>1 DEF MappedResults, Results
<1>3. MessageInv'
  BY <1>1 DEF MessageInv, RightInv
<1>4. GivenRight'
  <2>1. ASSUME at' \in {"nodes", "end"}, NEW j \in MappedResults \ Due
        PROVE  Read(outputs[j])' = <<Meaning(function, written)[NodeOfResult(function, j)]>>
    <3>1. at \in {"nodes", "end"}
      <4>1. at \in {"idle", "parameters", "nodes", "end"}
        BY DEF RightInv, StateInv
      <4>2. at # "parameters"
        BY <2>1 DEF Due
      <4>3. QED BY <2>1, <4>1, <4>2
    <3>2. QED BY <1>1, <2>1, <3>1 DEF RightInv, GivenRight, OutputsKept
  <2>2. QED BY <1>1, <1>2, <2>1 DEF GivenRight
<1>5. QED BY <1>1, <1>3, <1>4 DEF RightInv

\* A result that is given.
LEMMA ResultDoneRight ==
  ASSUME RightInv, at = "nodes", Node.op = "result", NEW j \in Results, j = ResultIndex(Node),
         ResultDone(j), config' = config
  PROVE  RightInv' /\ (Silent \/ \E k \in Due : Giving(k))
<1>1. CASE j \notin MappedResults
  <2>1. Stays
    BY <1>1 DEF ResultDone, Stays
  <2>2. QED BY <2>1, StaysRight DEF Stays
<1>2. CASE j \in MappedResults
  <2>1. /\ StateInv' /\ HeapInv' /\ message' = message /\ function' = function
        /\ written' = written /\ Due' = Due \ {j} /\ OutputsKept(MappedResults \ {j})
        /\ Read(outputs[j])' = <<Meaning(function, written)[NodeOfResult(function, j)]>>
    BY <1>2 DEF ResultDone, Giving
  <2>2. MappedResults' = MappedResults
    BY <2>1 DEF MappedResults, Results
  <2>3. MessageInv'
    BY <2>1 DEF MessageInv, RightInv
  <2>4. ASSUME NEW k \in MappedResults \ Due'
        PROVE  Read(outputs[k])' = <<Meaning(function, written)[NodeOfResult(function, k)]>>
    <3>1. CASE k = j
      BY <2>1, <3>1
    <3>2. CASE k # j
      <4>1. k \in MappedResults \ Due
        BY <2>1, <2>4, <3>2
      <4>2. QED BY <2>1, <3>2, <4>1 DEF RightInv, GivenRight, OutputsKept
    <3>3. QED BY <3>1, <3>2
  <2>5. GivenRight'
    BY <2>1, <2>2, <2>4 DEF GivenRight
  <2>6. j \in Due
    <3>1. next \in DOMAIN nodes /\ Node = nodes[next] /\ next >= next
      <4>1. next \in DOMAIN nodes /\ Node = nodes[next]
        BY NodeNow DEF RightInv
      <4>2. next \in Int
        BY <4>1, GraphNow, CompiledDomain DEF RightInv
      <4>3. QED BY <4>1, <4>2
    <3>2. QED BY <1>2, <3>1 DEF Due
  <2>7. Giving(j)
    BY <1>2 DEF ResultDone
  <2>8. QED BY <2>1, <2>3, <2>5, <2>6, <2>7 DEF RightInv
<1>3. QED BY <1>1, <1>2

\* What the client decodes of a ciphertext that is read as one number.
LEMMA DecodedValue ==
  ASSUME BatchSize = 1, NEW x, IsElement(x), x.cipher, ~x.e.zero, x.e.data # NoData,
         NEW v, ValuesOf(x) = <<v>>
  PROVE  ClientDecodes(x.e.data) = <<v>>
<1> DEFINE slots == x.e.data.slots
           p == Decode(x.e.data, x.e.packed)
<1>1. DOMAIN slots = 1..Slots /\ Slots \in Nat \ {0} /\ HasData(x.e.data)
  BY SizesType DEF IsElement, IsCipher, IsData, HasData
<1>2. Decrypt(x.e) = p /\ p # Thrown
  <2>1. Decrypt(x.e) = p
    BY DEF Decrypt
  <2>2. p # Thrown
    BY DEF Decode, Plain, Thrown
  <2>3. QED BY <2>1, <2>2
<1>3. p.values[1] = slots[1][1]
  <2>1. CASE x.e.packed
    <3>1. Len(slots) = Slots
      BY <1>1
    <3>2. p.values = [i \in 1..(2 * Slots) |-> slots[(i+1) \div 2][IF i % 2 = 1 THEN 1 ELSE 2]]
      BY <2>1, <3>1 DEF Decode, Plain, RealsOf
    <3>3. 1 \in 1..(2 * Slots) /\ (1 + 1) \div 2 = 1 /\ 1 % 2 = 1
      BY <1>1
    <3> HIDE DEF slots, p
    <3>4. QED BY <3>2, <3>3
  <2>2. CASE ~x.e.packed
    <3>1. p.values = [i \in 1..Slots |-> slots[i][1]]
      BY <2>2 DEF Decode, Plain
    <3> HIDE DEF slots, p
    <3>2. QED BY <1>1, <3>1
  <2>3. QED BY <2>1, <2>2
<1>4. SubSeq(p.values, 1, 1) = <<v>>
  <2>1. ValuesOf(x) = IF Len(p.values) < 1 THEN <<>> ELSE SubSeq(p.values, 1, 1)
    BY <1>2 DEF ValuesOf
  <2> HIDE DEF p
  <2>2. <<v>> # <<>>
    OBVIOUS
  <2>3. QED BY <2>1, <2>2
<1> HIDE DEF p, slots
<1>5. p.values[1] = v
  <2>1. SubSeq(p.values, 1, 1) = [i \in 1..1 |-> p.values[i]]
    BY DEF SubSeq
  <2>2. SubSeq(p.values, 1, 1)[1] = p.values[1]
    BY <2>1
  <2>3. SubSeq(p.values, 1, 1)[1] = <<v>>[1]
    BY <1>4
  <2> HIDE DEF p
  <2>4. <<v>>[1] = v
    OBVIOUS
  <2>5. QED BY <2>2, <2>3, <2>4
<1>6. slots[1][1] = v
  BY <1>3, <1>5
<1>7. ClientDecodes(x.e.data) = [k \in 1..1 |-> slots[k][1]]
  BY DEF ClientDecodes, slots
<1>8. \A k \in 1..1 : slots[k][1] = v
  BY <1>6
<1>9. ClientDecodes(x.e.data) = [k \in 1..1 |-> v]
  BY <1>7, <1>8
<1>10. [k \in 1..1 |-> v] = <<v>>
  OBVIOUS
<1>11. QED BY <1>9, <1>10

\* A call returns, and sends what it has given.
LEMMA ReturnRight ==
  ASSUME BatchSize = 1, RightInv, MapInv', Return
  PROVE  RightInv' /\ Silent
<1>1. StateInv /\ HeapInv
  BY DEF RightInv
<1>2. CASE \E why : Fail(why)
  <2>1. Stays
    BY <1>1, <1>2, FailRight
  <2>2. QED BY <1>2, <2>1, StaysRight DEF Fail, configVars, callVars, Stays
<1>3. CASE ~\E why : Fail(why)
  <2>1. /\ at = "end" /\ at' = "idle" /\ tensorMap' = <<>> /\ Keep(heap)
        /\ message' = (IF config.enableClient THEN ClientDecodes(Sent.data) ELSE message)
        /\ ~(config.enableClient /\ NotSent)
        /\ UNCHANGED <<configVars, callerVars>>
    BY <1>3 DEF Return
  <2>2. /\ function' = function /\ nodes' = nodes /\ config' = config /\ inputs' = inputs
        /\ outputs' = outputs /\ written' = written /\ DOMAIN tensorMap' = {}
    BY <2>1 DEF configVars, callerVars
  <2>3. DOMAIN heap' = Addresses /\ \A a \in Addresses : a \in Pointers(inputs', outputs', tensorMap') => heap'[a] = heap[a]
    BY <2>1 DEF Keep
  <2>4. HeapInv' /\ OutputsKept(Results)
    BY <1>1, <2>1, <2>2, <2>3, HeapKept DEF MapGood
  <2>5. StateInv'
    BY <1>1, <2>1, <2>2, <2>3, StateStep DEF StateInv
  <2>6. Due = {} /\ Due' = {}
    BY <2>1 DEF Due
  <2>7. MessageInv'
    <3>1. ASSUME config.enableClient
          PROVE  ClientDecodes(Sent.data) = <<Meaning(function, written)[NodeOfResult(function, 1)]>>
      <4> DEFINE x == heap[outputs[1].at]
      <4>1. 1 \in MappedResults \ Due
        BY <1>1, <2>6, <3>1 DEF StateInv, MappedResults, Mapped
      <4>2. ValuesOf(x) = <<Meaning(function, written)[NodeOfResult(function, 1)]>>
        BY <2>1, <4>1 DEF RightInv, GivenRight, Read
      <4>3. x.cipher /\ IsElement(x)
        BY <1>1, <3>1, <4>1 DEF MappedResults, HeapInv, OutputsHeld, Holding
      <4>4. Sent = x.e /\ ~x.e.zero /\ x.e.data # NoData
        BY <2>1, <3>1 DEF Sent, NotSent
      <4> HIDE DEF x
      <4>5. QED BY <4>2, <4>3, <4>4, DecodedValue
    <3>2. QED BY <2>1, <2>2, <3>1 DEF MessageInv, RightInv
  <2>8. GivenRight'
    BY <2>1 DEF GivenRight
  <2>9. Silent
    BY <2>2, <2>4, <2>6 DEF Silent, OutputsKept, MappedResults
  <2>10. QED BY <2>4, <2>5, <2>7, <2>8, <2>9 DEF RightInv
<1>4. QED BY <1>2, <1>3

-----------------------------------------------------------------------------
(* The beginning, and every step.                                          *)

\* The invariant holds at first.
LEMMA InitRight == KnownDefects = FALSE /\ BatchSize = 1 /\ Init => RightInv
<1> SUFFICES ASSUME KnownDefects = FALSE, BatchSize = 1, Init PROVE RightInv OBVIOUS
<1> DEFINE p == Cardinality(Parameters)
<1>1. PICK ciphers \in [Parameters -> BOOLEAN], outCipher \in BOOLEAN :
        /\ config.enableClient => outCipher /\ Results = {1} /\ \A i \in Parameters : ciphers[i]
        /\ EncryptsInputs => \A i \in Parameters : ~ciphers[i]
        /\ inputs = [i \in Parameters |-> [cipher |-> ciphers[i], at |-> i]]
        /\ outputs = [j \in Results |-> [cipher |-> outCipher, at |-> p + j]]
  BY DEF Init
<1>2. /\ function \in Graphs /\ nodes = Compiled(function) /\ BoundsNotNegative(nodes)
      /\ config \in Configs /\ written \in [Parameters -> Numbers]
      /\ heap = [a \in Addresses |->
                   IF a \in Parameters
                   THEN IF config.enableClient THEN ClientInput(written[a])
                        ELSE Write1(Empty(inputs[a].cipher), written[a])
                   ELSE IF a \in {outputs[j].at : j \in Results} THEN Empty(outputs[1].cipher)
                   ELSE EmptyPlain]
      /\ at = "idle" /\ DOMAIN tensorMap = {} /\ message = <<>>
  BY DEF Init
<1>3. WellFormed(function) /\ p \in Nat /\ Len(function) \in Nat
  BY <1>2, GraphsAssumption, ResultsFinite DEF Parameters
<1>4. \A i \in Parameters : i \in 1..p
  <2>1. \A i \in Parameters : i \in Nat \ {0} /\ i <= p
    BY <1>2, <1>3, GraphsAssumption, ResultsFinite DEF Parameters
  <2>2. QED BY <1>3, <2>1
<1>5. 1..(p + Len(function) + 1) \subseteq Addresses
  BY <1>2, AddressesAssumption DEF Parameters
<1>6. \A j \in Results : j \in 1..Len(function)
  <2> DEFINE R == Of(function, "result")
  <2>1. IsFiniteSet(R) /\ Cardinality(R) \in Nat /\ R \subseteq 1..Len(function)
    BY <1>3, ResultsFinite
  <2>2. ASSUME NEW l \in Nat PROVE IsFiniteSet(1..l) /\ Cardinality(1..l) = l
    BY FS_Interval
  <2>3. Cardinality(R) <= Len(function)
    BY <1>3, <2>1, <2>2, FS_Subset
  <2> HIDE DEF R
  <2>4. QED BY <1>3, <2>1, <2>3 DEF Results, R
<1>7. ASSUME NEW i \in Parameters
      PROVE  /\ i \in Addresses /\ inputs[i].at = i /\ inputs[i].cipher = ciphers[i]
             /\ inputs[i].cipher \in BOOLEAN
             /\ config.enableClient => inputs[i].cipher
             /\ heap[i] = IF config.enableClient THEN ClientInput(written[i])
                          ELSE Write1(Empty(inputs[i].cipher), written[i])
  <2>1. i \in Addresses
    BY <1>3, <1>4, <1>5
  <2>2. QED BY <1>1, <1>2, <2>1
<1>8. ASSUME NEW j \in Results
      PROVE  /\ outputs[j].at = Own(j) /\ outputs[j].cipher = outCipher /\ Own(j) \in Addresses
             /\ Own(j) = p + j /\ Own(j) \notin Parameters
             /\ heap[Own(j)] = Empty(outCipher)
  <2>1. outputs[j].at = p + j /\ outputs[j].cipher = outCipher /\ Own(j) = p + j
    BY <1>1 DEF Own
  <2> HIDE DEF p
  <2>2. p + j \in 1..(p + Len(function) + 1) /\ p + j \notin 1..p
    BY <1>3, <1>6
  <2>3. p + j \in Addresses /\ p + j \notin Parameters
    BY <1>4, <1>5, <2>2
  <2>4. 1 \in Results /\ outputs[1].cipher = outCipher
    <3>1. 1 \in Results
      BY <1>3, ResultsFinite DEF Results
    <3>2. QED BY <1>1, <3>1
  <2>5. heap[p + j] = Empty(outCipher)
    BY <1>2, <2>1, <2>3, <2>4
  <2>6. QED BY <2>1, <2>3, <2>5
<1>9. StateInv
  <2>1. MapInv
    BY InitMap
  <2>2. EncryptsInputs => \A i \in Parameters : ~inputs[i].cipher
    BY <1>1, <1>7
  <2>3. QED BY <1>1, <1>2, <1>7, <2>1, <2>2 DEF StateInv
<1>10. InputsStand
  <2>1. ASSUME NEW i \in Parameters PROVE Stands(heap, inputs[i], written[i])
    <3> DEFINE x == Empty(inputs[i].cipher)
    <3>1. x.cipher = inputs[i].cipher /\ (x.cipher => x.e = NewCipher)
      BY <1>7 DEF Empty, EmptyCipher, EmptyPlain, Cipher, PlainOf
    <3>2. x.cipher \in BOOLEAN /\ (x.cipher => IsTarget(x.e) /\ ~(x.e.zero /\ written[i] # 0))
      BY <1>7, <3>1, NewIsTarget DEF NewCipher
    <3>3. written[i] \in Numbers
      BY <1>2
    <3>4. CASE config.enableClient
      <4>1. written[i] \in Int /\ Encode(Plain(<<written[i]>>, FALSE)) # Thrown
        BY <3>3, NumbersAssumption
      <4>2. heap[i] = ClientInput(written[i]) /\ inputs[i].cipher = TRUE
        BY <1>7, <3>4
      <4>3. Reads(heap[i], written[i]) /\ heap[i].cipher = TRUE
        <5> HIDE <1>7
        <5>1. QED BY <4>1, <4>2, ClientInputReads
      <4>4. inputs[i].at = i /\ i \in Addresses
        BY <1>7
      <4>5. QED BY <4>2, <4>3, <4>4 DEF Stands
    <3>5. CASE ~config.enableClient
      <4>1. heap[i] = Write1(x, written[i])
        BY <1>7, <3>5
      <4> HIDE DEF x
      <4>2. QED BY <1>7, <3>1, <3>2, <3>3, <4>1, WrittenReads DEF Stands
    <3>6. QED BY <3>4, <3>5
  <2>2. QED BY <2>1 DEF InputsStand
<1>11. MapStands
  BY <1>2 DEF MapStands
<1>12. OutputsHeld
  <2>1. IsElement(Empty(outCipher)) /\ Empty(outCipher).cipher = outCipher
    BY NewIsCipher, CipherElement, PlainElement DEF Empty, EmptyCipher, EmptyPlain, Cipher, PlainOf
  <2>2. QED BY <1>1, <1>8, <2>1 DEF OutputsHeld, Holding
<1>13. FixedAlone
  <2>1. ASSUME NEW j \in Results
        PROVE  /\ outputs[j].at = Own(j)
               /\ \A l \in Results \ {j} : outputs[l].at # Own(j)
               /\ outputs[j].cipher => heap[Own(j)].cipher /\ IsTarget(heap[Own(j)].e)
    <3>1. \A l \in Results \ {j} : outputs[l].at # Own(j)
      <4> HIDE DEF p
      <4>1. \A l \in Results : outputs[l].at = p + l /\ l \in Nat /\ Own(j) = p + j
        BY <1>3, <1>6, <1>8
      <4>2. QED BY <1>3, <4>1
    <3>2. ASSUME outCipher PROVE heap[Own(j)].cipher /\ IsTarget(heap[Own(j)].e)
      <4>1. heap[Own(j)] = Cipher(NewCipher)
        BY <1>8, <3>2 DEF Empty, EmptyCipher
      <4>2. Cipher(NewCipher).cipher = TRUE /\ Cipher(NewCipher).e = NewCipher
        BY DEF Cipher
      <4>3. QED BY <4>1, <4>2, NewIsTarget
    <3>3. QED BY <1>8, <3>1, <3>2
  <2>2. QED BY <1>2, <2>1 DEF FixedAlone
<1>14. QED
  BY <1>2, <1>9, <1>10, <1>11, <1>12, <1>13 DEF RightInv, HeapInv, GivenRight, MessageInv

\* What the caller may see of a step.
Seen == Silent \/ Writes \/ Begins \/ \E j \in Due : Giving(j)

\* Every step keeps the invariant, and is one that the caller expects.
LEMMA NextRight ==
  ASSUME KnownDefects = FALSE, EqualPrimes, BatchSize = 1, RightInv, [Next]_vars
  PROVE  RightInv' /\ Seen
<1>1. StateInv /\ HeapInv /\ MapInv
  BY DEF RightInv, StateInv
<1>2. MapInv'
  BY <1>1, NextMap
<1>3. ASSUME Stays, config' = config, at # "idle" \/ at' = at
      PROVE  RightInv' /\ Seen
  BY <1>3, StaysRight DEF Stays, Seen
<1>4. CASE \E i \in Parameters, v \in Numbers : Write(i, v)
  BY <1>2, <1>4, WriteRight DEF Seen
<1>5. CASE Call
  BY <1>2, <1>5, CallRight DEF Seen
<1>6. CASE \E i \in Parameters : MapParameter(i)
  <2>1. config' = config /\ at = "parameters"
    BY <1>6 DEF MapParameter, Fail, configVars
  <2>2. Stays
    BY <1>1, <1>2, <1>6, MapParameterRight
  <2>3. QED BY <1>3, <2>1, <2>2
<1>7. CASE Begin
  <2>1. config' = config /\ at = "parameters"
    BY <1>7 DEF Begin, configVars
  <2>2. Stays
    BY <1>1, <1>2, <1>7, BeginRight
  <2>3. QED BY <1>3, <2>1, <2>2
<1>8. CASE SkipParameter
  <2>1. config' = config /\ at = "nodes"
    BY <1>8 DEF SkipParameter, Running, Advance, configVars
  <2>2. Stays
    BY <1>1, <1>2, <1>8, SkipParameterRight
  <2>3. QED BY <1>3, <2>1, <2>2
<1>9. CASE Compute
  <2>1. config' = config /\ at = "nodes"
    BY <1>9 DEF Compute, Running, Fail, Advance, configVars
  <2>2. Stays
    BY <1>1, <1>2, <1>9, ComputeRight
  <2>3. QED BY <1>3, <2>1, <2>2
<1>10. CASE Reshape
  <2>1. config' = config /\ at = "nodes"
    BY <1>10 DEF Reshape, Running, Fail, Advance, configVars
  <2>2. Stays
    BY <1>1, <1>2, <1>10, ReshapeRight
  <2>3. QED BY <1>3, <2>1, <2>2
<1>11. CASE Result1
  <2>1. config' = config /\ at = "nodes" /\ Node.op = "result"
    BY <1>11 DEF Result1, Running, Fail, Advance, configVars
  <2>2. Stays \/ \E j \in Results : at = "nodes" /\ j = ResultIndex(Node) /\ ResultDone(j)
    BY <1>1, <1>2, <1>11, ResultRight
  <2>3. QED BY <1>3, <2>1, <2>2, ResultDoneRight DEF Seen
<1>12. CASE Return
  BY <1>2, <1>12, ReturnRight DEF Seen
<1>13. CASE UNCHANGED vars
  <2>1. Stays
    BY <1>1, <1>2, <1>13, StillRight DEF vars
  <2>2. config' = config /\ at' = at
    BY <1>13 DEF vars, configVars, callVars
  <2>3. QED BY <1>3, <2>1, <2>2
<1>14. QED
  BY <1>4, <1>5, <1>6, <1>7, <1>8, <1>9, <1>10, <1>11, <1>12, <1>13 DEF Next, Finished

-----------------------------------------------------------------------------
(* Theorems.                                                               *)

\* With a client there is one result.
LEMMA OneResult ==
  ASSUME StateInv, config.enableClient
  PROVE  (CHOOSE k \in Of(function, "result") : TRUE) = NodeOfResult(function, 1)
<1> DEFINE R == Of(function, "result")
<1>1. IsFiniteSet(R) /\ Cardinality(R) \in Nat
  BY GraphNow, ResultsFinite
<1>2. Results = {1} /\ Results = 1..Cardinality(R)
  BY DEF StateInv, Results
<1>3. Cardinality(R) = 1
  BY <1>1, <1>2
<1>4. NodeOfResult(function, 1) \in R
  BY <1>3, GraphNow, RankSurjective
<1> HIDE DEF R
<1>5. \E k : R = {k}
  BY <1>1, <1>3, FS_Singleton
<1>6. QED BY <1>4, <1>5 DEF R

\* Every result message that the client is sent holds the function of the inputs it has
\* sent, for every well-formed graph, ring and modulus of equal primes, however often
\* call() evaluates the same ciphertexts: levels that it has taken of them, shared
\* ciphertexts, stale free lists, and that what the client has sent is always marked
\* packed (he_seal_executable.cpp:272) make no difference. Zeros are sent like other
\* numbers. Sums of ciphertexts that are marked differently throw; like the other known
\* defects they are left out (DefectiveArgs).
THEOREM MessageRightThm ==
  KnownDefects = FALSE /\ EqualPrimes /\ BatchSize = 1 => (Spec => []MessageRight)
<1> SUFFICES ASSUME KnownDefects = FALSE, EqualPrimes, BatchSize = 1
             PROVE  Spec => []MessageRight
  OBVIOUS
<1>1. Init => RightInv
  BY InitRight
<1>2. RightInv /\ [Next]_vars => RightInv'
  BY NextRight
<1>3. RightInv => MessageRight
  BY OneResult DEF RightInv, MessageInv, MessageRight
<1>4. QED BY <1>1, <1>2, <1>3, PTL DEF Spec

-----------------------------------------------------------------------------
\* The specification of calls has the same graphs and results.
LEMMA SameMeaning ==
  ASSUME NEW w
  PROVE  Calls!Meaning(function, w) = Meaning(function, w)
BY Zenon DEF Calls!Meaning, Meaning, Calls!Ids, Ids

\* And the same order of results.
LEMMA SameResults ==
  ASSUME NEW j
  PROVE  /\ Calls!ResultNode(function, j) = NodeOfResult(function, j)
         /\ Calls!Of(function, "parameter") = Parameters
<1>1. \A op : Calls!Of(function, op) = Of(function, op)
  BY DEF Calls!Of, Of, Calls!Ids, Ids
<1>2. \A S : Calls!Cardinality(S) = Cardinality(S)
  BY Zenon DEF Calls!Cardinality, Cardinality
<1>3. \A k : Calls!Cardinality({i \in Calls!Of(function, "result") : i <= k}) = Rank(function, k)
  BY <1>1, <1>2, Zenon DEF Rank
<1>4. Calls!ResultNode(function, j)
        = CHOOSE k \in Calls!Of(function, "result") :
            Calls!Cardinality({i \in Calls!Of(function, "result") : i <= k}) = j
  BY Zenon DEF Calls!ResultNode
<1>5. Calls!ResultNode(function, j) = NodeOfResult(function, j)
  BY <1>1, <1>3, <1>4 DEF NodeOfResult
<1>6. QED BY <1>1, <1>5 DEF Parameters

InputsRead == [i \in Parameters |-> Read(inputs[i])[1]]
OutputsRead == [j \in MappedResults |-> Read(outputs[j])]

\* What is read of the inputs is what was written.
LEMMA InputsAreRead ==
  ASSUME BatchSize = 1, RightInv
  PROVE  InputsRead = written
<1>1. written = [i \in Parameters |-> written[i]]
  BY DEF RightInv, StateInv
<1>2. \A i \in Parameters : Read(inputs[i])[1] = written[i]
  BY InputRead DEF RightInv
<1>3. QED BY <1>1, <1>2 DEF InputsRead

\* A step that the caller sees is one of FunctionCalls, or none.
LEMMA StepsImplement ==
  ASSUME BatchSize = 1, RightInv, (InputsRead = written)', function' = function, Seen
  PROVE  [Calls!Next]_Calls!callsVars
<1>1. InputsRead = written /\ InputsRead' = written'
  BY InputsAreRead
<1>2. MappedResults' = MappedResults /\ Parameters' = Parameters
  BY DEF MappedResults, Results, Parameters
<1>3. written \in [Parameters -> Numbers]
  BY DEF RightInv, StateInv
<1>4. OutputsRead' = [j \in MappedResults |-> Read(outputs[j])']
  BY <1>2 DEF OutputsRead
<1>5. OutputsKept(MappedResults) => OutputsRead' = OutputsRead
  BY <1>4 DEF OutputsKept, OutputsRead
<1>6. CASE Silent
  <2>1. InputsRead' = InputsRead /\ OutputsRead' = OutputsRead /\ Due' = Due
    BY <1>1, <1>5, <1>6 DEF Silent
  <2>2. QED BY <2>1 DEF Calls!callsVars, InputsRead, OutputsRead
<1>7. CASE Writes
  <2>1. /\ InputsRead' \in [Parameters -> Numbers] /\ OutputsRead' = OutputsRead
        /\ Due = {} /\ Due' = {}
    BY <1>1, <1>5, <1>7 DEF Writes
  <2>2. Calls!Write
    BY <2>1, SameResults DEF Calls!Write, InputsRead, OutputsRead
  <2>3. QED BY <2>2 DEF Calls!Next
<1>8. CASE Begins
  <2>1. /\ InputsRead' = InputsRead /\ OutputsRead' = OutputsRead
        /\ Due = {} /\ Due' = MappedResults
    BY <1>1, <1>5, <1>8 DEF Begins
  <2>2. Calls!Call
    BY <2>1 DEF Calls!Call, InputsRead, OutputsRead
  <2>3. QED BY <2>2 DEF Calls!Next
<1>9. CASE \E j \in Due : Giving(j)
  <2>1. PICK j \in Due : Giving(j)
    BY <1>9
  <2>2. /\ InputsRead' = InputsRead /\ Due' = Due \ {j}
        /\ OutputsKept(MappedResults \ {j})
        /\ Read(outputs[j])' = <<Meaning(function, written)[NodeOfResult(function, j)]>>
    BY <1>1, <2>1 DEF Giving
  <2>3. Read(outputs[j])' = <<Calls!Meaning(function, InputsRead)[Calls!ResultNode(function, j)]>>
    BY <1>1, <2>2, SameMeaning, SameResults
  <2>4. OutputsRead' = [OutputsRead EXCEPT ![j] = <<Calls!Meaning(function, InputsRead)[Calls!ResultNode(function, j)]>>]
    BY <1>4, <2>2, <2>3 DEF OutputsKept, OutputsRead
  <2>5. Calls!Give(j)
    BY <2>2, <2>4 DEF Calls!Give, InputsRead, OutputsRead
  <2>6. QED BY <2>1, <2>5 DEF Calls!Next
<1>10. QED BY <1>6, <1>7, <1>8, <1>9 DEF Seen

\* The executable does what FunctionCalls says for every such graph, any numbers and
\* tensors, any mixture of ciphers and plain values, and any order of writes and calls:
\* inputs read as they were last written, and a call gives the function of the inputs
\* to every output it has mapped, one after the other, and changes nothing else.
THEOREM CallsImplemented ==
  KnownDefects = FALSE /\ EqualPrimes /\ BatchSize = 1 => (Spec => ImplementsFunctionCalls)
<1> SUFFICES ASSUME KnownDefects = FALSE, EqualPrimes, BatchSize = 1
             PROVE  Spec => ImplementsFunctionCalls
  OBVIOUS
<1>1. Init => RightInv
  BY InitRight
<1>2. RightInv /\ [Next]_vars => RightInv'
  BY NextRight
<1>3. RightInv => InputsRead = written
  BY InputsAreRead
<1>4. Init => Calls!Init
  <2> SUFFICES ASSUME Init PROVE Calls!Init OBVIOUS
  <2>1. InputsRead = written /\ written \in [Parameters -> Numbers]
    BY <1>1, <1>3 DEF RightInv, StateInv
  <2>2. Due = {}
    BY DEF Init, Due
  <2>3. QED BY <2>1, <2>2, SameResults DEF Calls!Init, InputsRead
<1>5. [Next]_vars => function' = function
  BY DEF Next, vars, configVars, Write, Call, MapParameter, Fail, Begin, SkipParameter, Compute,
         Reshape, Result1, Return, Advance, Finished
<1>6. RightInv /\ [Next]_vars => Seen
  BY NextRight
<1>7. RightInv /\ (InputsRead = written)' /\ [Next]_vars => [Calls!Next]_Calls!callsVars
  BY <1>5, <1>6, StepsImplement
<1>8. QED BY <1>1, <1>2, <1>3, <1>4, <1>7, PTL DEF Spec, ImplementsFunctionCalls, Calls!Spec

-----------------------------------------------------------------------------
(* Every argument is made.                                                 *)

\* A node of the function that a compiled node reads for has arguments that compiled
\* nodes before it make: a relu or a constant that it reads remains.
LEMMA ArgMade ==
  ASSUME NEW g, WellFormed(g), NEW n \in Ids(g), NEW x \in Ids(g), x <= n, ~IsBoundedRelu(g, x),
         NEW i \in DOMAIN NewArgs(g, x)
  PROVE  \E m \in DOMAIN Compiled(g) : m < n /\ Compiled(g)[m].id = NewArgs(g, x)[i]
<1> DEFINE a == g[x].args[i]
<1>1. i \in DOMAIN g[x].args /\ NewArgs(g, x)[i] = NewId(g, a)
  BY DEF NewArgs
<1>2. a \in Args(g[x]) /\ a \in Ids(g) /\ a < x
  BY <1>1, NodeParts
<1>3. Ids(g) = 1..Len(g) /\ Len(g) \in Nat
  BY CompiledDomain
<1> HIDE DEF a
<1>4. Remains(g, a)
  BY <1>2 DEF Remains, Readers
<1>5. a \in DOMAIN Compiled(g) /\ Compiled(g)[a] = CompiledNode(g, a)
  BY <1>2, <1>4, CompiledDomain DEF Compiled
<1>6. CompiledNode(g, a).id = NewId(g, a)
  BY DEF CompiledNode, NewId
<1>7. a < n
  BY <1>2, <1>3
<1>8. QED BY <1>1, <1>5, <1>6, <1>7

\* So has every compiled node.
LEMMA ArgsMade ==
  ASSUME NEW g, WellFormed(g), NEW n \in DOMAIN Compiled(g), NEW k \in Args(Compiled(g)[n])
  PROVE  \E m \in DOMAIN Compiled(g) : m < n /\ Compiled(g)[m].id = k
<1>1. n \in Ids(g) /\ Ids(g) = 1..Len(g) /\ Len(g) \in Nat
  BY CompiledDomain
<1>2. PICK i \in DOMAIN Compiled(g)[n].args : k = Compiled(g)[n].args[i]
  BY DEF Args
<1>3. CASE ~IsBoundedRelu(g, n) /\ Compiled(g)[n].args = NewArgs(g, n)
  <2>1. n <= n
    BY <1>1
  <2>2. i \in DOMAIN NewArgs(g, n) /\ k = NewArgs(g, n)[i]
    BY <1>2, <1>3
  <2>3. \E m \in DOMAIN Compiled(g) : m < n /\ Compiled(g)[m].id = NewArgs(g, n)[i]
    BY <1>1, <1>3, <2>1, <2>2, ArgMade
  <2>4. QED BY <2>2, <2>3
<1>4. CASE IsBoundedRelu(g, n) /\ Compiled(g)[n].args = NewArgs(g, FusedArg(g, n, "relu"))
  <2> DEFINE x == FusedArg(g, n, "relu")
  <2>1. x \in Ids(g) /\ x < n /\ g[x].op = "relu"
    BY <1>1, <1>4, FusedArgs
  <2>2. x <= n
    BY <1>1, <2>1
  <2>3. ~IsBoundedRelu(g, x)
    BY <2>1 DEF IsBoundedRelu
  <2>4. Compiled(g)[n].args = NewArgs(g, x)
    BY <1>4
  <2> HIDE DEF x
  <2>5. i \in DOMAIN NewArgs(g, x) /\ k = NewArgs(g, x)[i]
    BY <1>2, <2>4
  <2>6. \E m \in DOMAIN Compiled(g) : m < n /\ Compiled(g)[m].id = NewArgs(g, x)[i]
    BY <1>1, <2>1, <2>2, <2>3, <2>5, ArgMade
  <2>7. QED BY <2>5, <2>6
<1>5. QED BY <1>3, <1>4, CompiledNodeArgs

\* No node misses an argument in tensor_map.
LEMMA ArgumentsFound == ASSUME StateInv, at = "nodes" PROVE HasArgs
<1>1. next \in DOMAIN nodes /\ Node = nodes[next] /\ WellFormed(function) /\ nodes = Compiled(function)
  BY NodeNow, GraphNow
<1>2. next >= next
  <2>1. next \in Int
    BY <1>1, CompiledDomain
  <2>2. QED BY <2>1
<1>3. ASSUME NEW k \in Args(Node) PROVE k \in DOMAIN tensorMap
  <2>1. \E m \in DOMAIN nodes : m < next /\ nodes[m].id = k
    BY <1>1, ArgsMade
  <2>2. QED BY <1>1, <1>2, <2>1 DEF StateInv, MapInv, ArgumentsInMap
<1>4. QED BY <1>3 DEF HasArgs

-----------------------------------------------------------------------------
(* Levels that a call has spent.                                           *)

\* A modulus with a level for each multiplication of a function.  A level for each of
\* those on a path is not enough: ciphertexts are lowered in place, to the level of
\* what they are added to, and are read again.
EnoughLevels == \A g \in Graphs : Cardinality(Of(g, "multiply")) <= Top

\* The multiplications that have been done.
Multiplied == {m \in DOMAIN nodes : m < next /\ nodes[m].op = "multiply"}
Spent == IF at = "nodes" THEN Cardinality(Multiplied) ELSE 0
SpentThen == Spent + (IF Node.op = "multiply" THEN 1 ELSE 0)

LEMMA MultipliedType ==
  ASSUME StateInv
  PROVE  /\ IsFiniteSet(Multiplied) /\ Cardinality(Multiplied) \in Nat
         /\ Multiplied \subseteq Of(function, "multiply") /\ Spent \in Nat
<1>1. WellFormed(function) /\ nodes = Compiled(function)
  BY GraphNow
<1>2. Multiplied \subseteq Of(function, "multiply")
  <2> SUFFICES ASSUME NEW m \in DOMAIN nodes, nodes[m].op = "multiply"
               PROVE  m \in Of(function, "multiply")
    BY DEF Multiplied
  <2>1. m \in Ids(function)
    BY <1>1, CompiledDomain
  <2>2. function[m].op = "multiply"
    BY <1>1, CompiledParts
  <2>3. QED BY <2>1, <2>2 DEF Of
<1>3. IsFiniteSet(Of(function, "multiply"))
  BY <1>1, ResultsFinite
<1>4. IsFiniteSet(Multiplied) /\ Cardinality(Multiplied) \in Nat
  BY <1>2, <1>3, FS_Subset, FS_CardinalityType
<1>5. QED BY <1>2, <1>4 DEF Spent

\* The node that a call is at is one more, if it multiplies.
LEMMA MultipliedNext ==
  ASSUME StateInv, at = "nodes"
  PROVE  /\ Spent \in Nat /\ SpentThen \in Nat
         /\ SpentThen = Cardinality({m \in DOMAIN nodes : m <= next /\ nodes[m].op = "multiply"})
         /\ SpentThen <= Cardinality(Of(function, "multiply"))
<1> DEFINE T == {m \in DOMAIN nodes : m <= next /\ nodes[m].op = "multiply"}
           U == Of(function, "multiply")
<1>1. next \in DOMAIN nodes /\ Node = nodes[next] /\ WellFormed(function) /\ nodes = Compiled(function)
  BY NodeNow, GraphNow
<1>2. \A m \in DOMAIN nodes : m \in Int
  BY <1>1, CompiledDomain
<1>3. /\ IsFiniteSet(Multiplied) /\ Cardinality(Multiplied) \in Nat /\ Multiplied \subseteq U
      /\ Spent = Cardinality(Multiplied)
  BY MultipliedType DEF Spent
<1>4. IsFiniteSet(U) /\ Cardinality(U) \in Nat
  BY <1>1, ResultsFinite
<1>5. CASE Node.op = "multiply"
  <2>1. T = Multiplied \cup {next} /\ next \notin Multiplied
    BY <1>1, <1>2, <1>5 DEF Multiplied
  <2>2. next \in U
    BY <1>1, <1>5, CompiledParts, CompiledDomain DEF Of
  <2>3. IsFiniteSet(T) /\ Cardinality(T) = Cardinality(Multiplied) + 1
    BY <1>3, <2>1, FS_AddElement
  <2>4. T \subseteq U
    BY <1>3, <2>1, <2>2
  <2> HIDE DEF T, U
  <2>5. Cardinality(T) <= Cardinality(U)
    BY <1>4, <2>4, FS_Subset
  <2>6. SpentThen = Cardinality(Multiplied) + 1
    BY <1>3, <1>5 DEF SpentThen
  <2>7. QED BY <1>3, <2>3, <2>5, <2>6 DEF T, U
<1>6. CASE Node.op # "multiply"
  <2>1. T = Multiplied
    BY <1>1, <1>2, <1>6 DEF Multiplied
  <2> HIDE DEF T, U
  <2>2. Cardinality(Multiplied) <= Cardinality(U)
    BY <1>3, <1>4, FS_Subset
  <2>3. SpentThen = Cardinality(Multiplied)
    BY <1>3, <1>6 DEF SpentThen
  <2>4. QED BY <1>3, <2>1, <2>2, <2>3 DEF T, U
<1>7. QED BY <1>5, <1>6

\* There is a level left for a multiplication.
LEMMA LevelLeft ==
  ASSUME EnoughLevels, StateInv, at = "nodes", Node.op = "multiply"
  PROVE  Spent < Top
<1>1. Spent \in Nat /\ Spent + 1 <= Cardinality(Of(function, "multiply"))
  BY MultipliedNext DEF SpentThen
<1>2. Cardinality(Of(function, "multiply")) <= Top
  BY GraphNow DEF EnoughLevels
<1>3. Cardinality(Of(function, "multiply")) \in Nat /\ Top \in Nat
  BY GraphNow, ResultsFinite, ScaleType
<1>4. QED BY <1>1, <1>2, <1>3

\* What is spent when the next node begins.
LEMMA SpentNext ==
  ASSUME StateInv, at = "nodes", NEW map, Advance(map), at' = "nodes"
  PROVE  Spent' = SpentThen
<1>1. next \in DOMAIN nodes /\ Node = nodes[next] /\ WellFormed(function) /\ nodes = Compiled(function)
  BY NodeNow, GraphNow
<1>2. \A m \in DOMAIN nodes : m \in Int
  BY <1>1, CompiledDomain
<1>3. PICK f \in {n \in DOMAIN nodes : n > next} :
        next' = f /\ \A m \in {n \in DOMAIN nodes : n > next} : f <= m
  BY DEF Advance, GoToFirst
<1>4. nodes' = nodes
  BY DEF Advance, configVars
<1>5. Multiplied' = {m \in DOMAIN nodes : m <= next /\ nodes[m].op = "multiply"}
  BY <1>1, <1>2, <1>3, <1>4 DEF Multiplied
<1>6. Spent' = Cardinality(Multiplied')
  BY DEF Spent
<1>7. QED BY <1>5, <1>6, MultipliedNext

\* Nothing is when the first does.
LEMMA SpentFirst ==
  ASSUME StateInv, Begin
  PROVE  Spent = 0 /\ Spent' = 0
<1>1. nodes' = nodes /\ at = "parameters" /\ at' = "nodes"
  BY DEF Begin, configVars
<1>2. PICK f \in DOMAIN nodes : next' = f /\ \A m \in DOMAIN nodes : f <= m
  BY DEF Begin, GoToFirst
<1>3. \A m \in DOMAIN nodes : m \in Int
  BY GraphNow, CompiledDomain
<1>4. Multiplied' = {}
  BY <1>1, <1>2, <1>3 DEF Multiplied
<1>5. QED BY <1>1, <1>4, FS_EmptySet DEF Spent

-----------------------------------------------------------------------------
(* Levels that elements have left.                                         *)

\* An element has lost no more than n levels.
Low(x, n) == x.cipher /\ ~x.e.zero => x.e.data.level >= Top - n

LEMMA LowSound ==
  ASSUME NEW x, NEW v, Reads(x, v), NEW n \in Nat, Low(x, n)
  PROVE  Sound(x, <<v>>, n)
<1>1. ASSUME x.cipher PROVE CipherSound(x.e, <<v>>, n)
  <2>1. CipherSound(x.e, <<v>>, Top)
    BY <1>1 DEF Reads, Sound
  <2>2. ~x.e.zero => Paid(x.e.data, n)
    BY <1>1, <2>1 DEF CipherSound, Low, Paid
  <2>3. QED BY <2>1, <2>2 DEF CipherSound
<1>2. QED BY <1>1 DEF Reads, Sound

LEMMA SoundLow == ASSUME NEW x, NEW m, NEW n \in Nat, Sound(x, m, n) PROVE Low(x, n)
BY DEF Sound, CipherSound, Paid, Low

\* It has lost no more than there are.
LEMMA LowMore ==
  ASSUME NEW x, NEW v, Reads(x, v), NEW n \in Nat, Low(x, n), NEW k \in Nat, n <= k
  PROVE  Low(x, k)
<1>1. Sound(x, <<v>>, k)
  BY LowSound, SoundLonger
<1>2. QED BY <1>1, SoundLow

\* What a sound operation leaves.
LEMMA OpLow ==
  ASSUME NEW r, NEW m, NEW n, NEW v, NEW l \in Nat, NEW k \in Nat, OpSound(r, m, n, v, l, k),
         NEW j \in Nat, l <= j, k <= j
  PROVE  Low(r[1], j) /\ Low(r[2], j) /\ Low(r[3], j)
BY SoundLonger, SoundLow DEF OpSound

\* A new ciphertext, or one that is written again, has all its levels.
LEMMA EncryptLow ==
  ASSUME NEW out, IsTarget(out), NEW p, Encrypt(out, p) # Thrown
  PROVE  Low(Cipher(Encrypt(out, p)), 0)
<1> DEFINE c == Encrypt(out, p)
           d == Encode(p)
<1>1. d # Thrown /\ "zero" \in DOMAIN out /\ "packed" \in DOMAIN out /\ "data" \in DOMAIN out
  BY DEF Encrypt, IsTarget, IsCipher
<1>2. CASE IsSingle(p) /\ p.values[1] = 0
  <2>1. c = [out EXCEPT !.zero = TRUE, !.packed = p.packed]
    BY <1>1, <1>2 DEF Encrypt
  <2>2. c.zero = TRUE
    BY <1>1, <2>1
  <2> HIDE DEF c
  <2>3. Low(Cipher(c), 0)
    BY <2>2 DEF Low, Cipher
  <2>4. QED BY <2>3 DEF c
<1>3. CASE ~(IsSingle(p) /\ p.values[1] = 0)
  <2>1. d = Data(Top, Scale, Padded(SlotsOf(p)))
    BY <1>1 DEF Encode, EncodeAt
  <2>2. c = [[out EXCEPT !.data = d] EXCEPT !.packed = p.packed]
    <3>1. c = [Assigned(out, d) EXCEPT !.packed = p.packed]
      BY <1>1, <1>3 DEF Encrypt
    <3>2. Assigned(out, d) = [out EXCEPT !.data = d]
      BY <1>1 DEF Assigned
    <3>3. QED BY <3>1, <3>2
  <2> HIDE DEF d
  <2>3. d.level = Top
    BY <2>1 DEF Data
  <2> HIDE DEF c
  <2>4. c.data.level = Top
    BY <1>1, <2>2, <2>3
  <2>5. Low(Cipher(c), 0)
    BY <2>4, LevelsInt DEF Low, Cipher
  <2>6. QED BY <2>5 DEF c
<1>4. QED BY <1>2, <1>3

-----------------------------------------------------------------------------
(* The kernels on elements that have levels left.                          *)

\* r is no exception, and nothing of it has lost more than n levels.
Fine(r, n) == r # Thrown /\ Low(r[1], n) /\ Low(r[2], n) /\ Low(r[3], n)

\* The same of what is marked otherwise.
LEMMA LowUnmarked ==
  ASSUME BatchSize = 1, NEW x, NEW v, Reads(x, v), NEW n \in Nat, Low(x, n)
  PROVE  Sound(Unmarked(x), <<v>>, n)
BY LowSound, UnmarkedSound DEF Reads

LEMMA UnmarksLow ==
  ASSUME NEW x, IsElement(x), NEW y, Unmarks(x, y), NEW n, Low(y, n)
  PROVE  Low(x, n)
<1>1. CASE ~x.cipher
  BY <1>1 DEF Low
<1>2. CASE x.cipher
  <2>1. y.cipher = x.cipher /\ y.e = Bare(x.e) /\ IsCipher(x.e)
    BY <1>2, UnmarkedParts DEF Unmarks, IsElement
  <2>2. y.e.zero = x.e.zero /\ y.e.data = x.e.data
    BY <2>1, BareCipher
  <2>3. QED BY <2>1, <2>2 DEF Low
<1>3. QED BY <1>1, <1>2

LEMMA FitsUnmarked ==
  ASSUME NEW x, IsElement(x), NEW y, IsElement(y), FitsWith(x, y)
  PROVE  FitsWith(Unmarked(x), Unmarked(y))
<1>1. /\ Unmarked(x).cipher = x.cipher /\ Unmarked(y).cipher = y.cipher
      /\ ~x.cipher => Unmarked(x) = x
  BY UnmarkedParts
<1>2. ASSUME y.cipher PROVE Unmarked(y).e.zero = y.e.zero /\ Unmarked(y).e.data = y.e.data
  <2>1. Unmarked(y).e = Bare(y.e) /\ IsCipher(y.e)
    BY <1>2, UnmarkedParts DEF IsElement
  <2>2. QED BY <2>1, BareCipher
<1>3. QED BY <1>1, <1>2 DEF FitsWith

LEMMA UnmarkedFine ==
  ASSUME NEW x, NEW y, NEW r, Keeps(x, y, r), NEW s, UnmarksThree(r, s), s # Thrown,
         NEW m, NEW k, NEW v, NEW n \in Nat, NEW j \in Nat, n <= j, OpSound(s, m, k, v, n, j)
  PROVE  Fine(r, j)
<1>1. /\ r # Thrown /\ Unmarks(r[1], s[1]) /\ Unmarks(r[2], s[2]) /\ Unmarks(r[3], s[3])
      /\ IsElement(r[1]) /\ IsElement(r[2]) /\ IsElement(r[3])
  BY DEF Keeps, UnmarksThree
<1>2. Low(s[1], j) /\ Low(s[2], j) /\ Low(s[3], j)
  BY OpLow
<1>3. QED BY <1>1, <1>2, UnmarksLow DEF Fine

\* case OP_TYPEID::Add
LEMMA AddFine ==
  ASSUME BatchSize = 1, EqualPrimes, NEW n \in Nat, NEW x, NEW a, Reads(x, a), Low(x, n),
         NEW y, NEW b, Reads(y, b), Low(y, n),
         ~MarkedDifferently(x, y), ~Defective("add", Unmarked(x), Unmarked(y)),
         FitsWith(x, y), FitsWith(y, x)
  PROVE  Fine(AddOf(x, y), n)
<1> DEFINE u == Unmarked(x)
           w == Unmarked(y)
           r == AddOf(x, y)
           s == AddOf(u, w)
           v == <<a + b>>
<1>1. a \in Int /\ b \in Int /\ a + b \in Int /\ BatchesFit /\ Places = {1}
  BY ReadsValues, SingleNumbers
<1>2. /\ Sound(u, <<a>>, n) /\ Sound(w, <<b>>, n) /\ Larger(n, n) = n
      /\ FitsWith(u, w) /\ FitsWith(w, u)
  BY ReadsMarkable, LowUnmarked, FitsUnmarked DEF Larger
<1>3. UnmarksThree(r, s) /\ IsElement(x) /\ IsElement(y)
  BY ReadsMarkable, AddUnmarks
<1>4. Keeps(x, y, r)
  BY <1>3, AddKeeps
<1>5. IsBatch(v) /\ \A k \in Places : v[k] = <<a>>[k] + <<b>>[k]
  BY <1>1, SingleNumbers
<1> HIDE DEF v
<1>6. s # Thrown /\ OpSound(s, <<a>>, <<b>>, v, n, n)
  <2>1. ~Defective("add", u, w)
    OBVIOUS
  <2> HIDE DEF u, w
  <2>2. s # Thrown
    BY <1>1, <1>2, <2>1, AddOfSome
  <2> HIDE DEF s
  <2>3. OpSound(AddOf(u, w), <<a>>, <<b>>, v, n, n)
    BY <1>1, <1>2, <1>5, <2>1, <2>2, AddOfSound DEF s
  <2>4. QED BY <2>2, <2>3 DEF s
<1> HIDE DEF r, s
<1>7. n \in Nat /\ n <= n
  OBVIOUS
<1>8. QED BY <1>3, <1>4, <1>6, <1>7, UnmarkedFine DEF r

\* case OP_TYPEID::Multiply
LEMMA MultiplyFine ==
  ASSUME BatchSize = 1, EqualPrimes, NEW n \in Nat, n < Top, NEW x, NEW a, Reads(x, a), Low(x, n),
         NEW y, NEW b, Reads(y, b), Low(y, n),
         ~Defective("multiply", Unmarked(x), Unmarked(y)),
         FitsWith(x, y), FitsWith(y, x)
  PROVE  Fine(MultiplyOf(x, y), n + 1)
<1> DEFINE u == Unmarked(x)
           w == Unmarked(y)
           r == MultiplyOf(x, y)
           s == MultiplyOf(u, w)
           v == <<a * b>>
<1>1. a \in Int /\ b \in Int /\ a * b \in Int /\ BatchesFit /\ Places = {1}
  BY ReadsValues, SingleNumbers
<1>2. /\ Sound(u, <<a>>, n) /\ Sound(w, <<b>>, n) /\ Larger(n, n) = n
      /\ FitsWith(u, w) /\ FitsWith(w, u)
  BY ReadsMarkable, LowUnmarked, FitsUnmarked DEF Larger
<1>3. UnmarksThree(r, s) /\ IsElement(x) /\ IsElement(y)
  BY ReadsMarkable, MultiplyUnmarks
<1>4. Keeps(x, y, r)
  BY <1>3, MultiplyKeeps
<1>5. IsBatch(v) /\ \A k \in Places : v[k] = <<a>>[k] * <<b>>[k]
  BY <1>1, SingleNumbers
<1> HIDE DEF v
<1>6. s # Thrown /\ OpSound(s, <<a>>, <<b>>, v, n, n + 1)
  <2>1. ~Defective("multiply", u, w)
    OBVIOUS
  <2> HIDE DEF u, w
  <2>2. s # Thrown
    BY <1>1, <1>2, <2>1, MultiplyOfSome
  <2> HIDE DEF s
  <2>3. OpSound(MultiplyOf(u, w), <<a>>, <<b>>, v, n, n + 1)
    BY <1>1, <1>2, <1>5, <2>1, <2>2, MultiplyOfSound DEF s
  <2>4. QED BY <2>2, <2>3 DEF s
<1> HIDE DEF r, s
<1>7. n + 1 \in Nat /\ n <= n + 1
  OBVIOUS
<1>8. QED BY <1>3, <1>4, <1>6, <1>7, UnmarkedFine DEF r

\* case OP_TYPEID::Minimum, of plain numbers
LEMMA MinimumFine ==
  ASSUME BatchSize = 1, NEW n \in Nat, NEW x, NEW a, Reads(x, a), Low(x, n),
         NEW y, NEW b, Reads(y, b), Low(y, n), ~Defective("minimum", Unmarked(x), Unmarked(y))
  PROVE  Fine(MinimumOf(x, y), n)
<1> DEFINE r == MinimumOf(x, y)
           w == IF a < b THEN a ELSE b
           v == <<w>>
<1>1. a \in Int /\ b \in Int /\ w \in Int /\ Places = {1}
  BY ReadsValues, SingleNumbers
<1>2. Sound(x, <<a>>, n) /\ Sound(y, <<b>>, n) /\ Larger(n, n) = n
  BY LowSound DEF Larger
<1>3. ~Defective("minimum", x, y)
  <2>1. IsElement(x) /\ IsElement(y)
    BY ReadsMarkable
  <2>2. ~x.cipher /\ ~y.cipher
    BY <2>1, UnmarkedParts DEF Defective
  <2>3. Unmarked(x) = x /\ Unmarked(y) = y
    BY <2>1, <2>2, UnmarkedParts
  <2>4. QED BY <2>3
<1>4. r # Thrown
  BY <1>2, <1>3, MinimumOfSome
<1>5. IsBatch(v)
  BY <1>1, SingleNumbers
<1>6. \A k \in Places : v[k] = IF <<a>>[k] < <<b>>[k] THEN <<a>>[k] ELSE <<b>>[k]
  BY <1>1
<1> HIDE DEF v
<1>7. OpSound(r, <<a>>, <<b>>, v, n, n)
  BY <1>1, <1>2, <1>3, <1>5, <1>6, MinimumOfSound
<1> HIDE DEF r
<1>8. QED BY <1>4, <1>7, OpLow DEF Fine, r

\* case OP_TYPEID::Relu, without a client
LEMMA ReluFine ==
  ASSUME BatchSize = 1, EqualPrimes, NEW n \in Nat, NEW x, NEW a, Reads(x, a), Low(x, n), Reencodes(x)
  PROVE  Fine(ReluOf(x), n)
<1> DEFINE r == ReluOf(x)
           v == <<Relu(a)>>
<1>1. a \in Int /\ Relu(a) \in Int /\ BatchesFit /\ Places = {1}
  BY ReadsValues, SingleNumbers DEF Relu
<1>2. Sound(x, <<a>>, n)
  BY LowSound
<1>3. r # Thrown
  BY <1>1, <1>2, ReluOfSome
<1>4. IsBatch(v) /\ \A k \in Places : v[k] = Relu(<<a>>[k])
  BY <1>1, SingleNumbers
<1> HIDE DEF v
<1>5. OpSound(r, <<a>>, <<a>>, v, n, 0)
  BY <1>1, <1>2, <1>3, <1>4, ReluOfSound
<1> HIDE DEF r
<1>6. QED BY <1>3, <1>5, OpLow, 0 \in Nat DEF Fine, r

\* case OP_TYPEID::BoundedRelu, without a client
LEMMA BoundedReluFine ==
  ASSUME BatchSize = 1, EqualPrimes, NEW alpha \in Nat, Fits(alpha, Scale, Top),
         NEW n \in Nat, NEW x, NEW a, Reads(x, a), Low(x, n), Reencodes(x)
  PROVE  Fine(BoundedReluOf(x, alpha), n)
<1> DEFINE r == BoundedReluOf(x, alpha)
           w == IF Relu(a) < alpha THEN Relu(a) ELSE alpha
           v == <<w>>
<1>1. a \in Int /\ w \in Int /\ BatchesFit /\ Places = {1}
  BY ReadsValues, SingleNumbers DEF Relu
<1>2. Sound(x, <<a>>, n)
  BY LowSound
<1>3. r # Thrown
  BY <1>1, <1>2, BoundedReluOfSome
<1>4. IsBatch(v)
  BY <1>1, SingleNumbers
<1>5. \A k \in Places : v[k] = IF Relu(<<a>>[k]) < alpha THEN Relu(<<a>>[k]) ELSE alpha
  BY <1>1
<1> HIDE DEF v
<1>6. OpSound(r, <<a>>, <<a>>, v, n, 0)
  BY <1>1, <1>2, <1>3, <1>4, <1>5, BoundedReluOfSound
<1> HIDE DEF r
<1>7. QED BY <1>3, <1>6, OpLow, 0 \in Nat DEF Fine, r

\* What the executable makes of the client's answer.
LEMMA AskedFine ==
  ASSUME BatchSize = 1, NEW n \in Nat, NEW x, Low(x, n), NEW v \in Int, Fits(v, Scale, Top),
         NEW r, r = Result(x, x, Answer([k \in 1..BatchSize |-> v]))
  PROVE  Fine(r, n)
<1> DEFINE values == [k \in 1..BatchSize |-> v]
           c == Answer(values)
<1>1. EncodeBatch(values) # Thrown
  BY BatchEncoded
<1>2. c = [zero |-> FALSE, packed |-> FALSE, data |-> EncodeBatch(values)] /\ c # Thrown
  BY <1>1, AssignedSome DEF Answer
<1>3. r = Result(x, x, c)
  OBVIOUS
<1>4. Low(Cipher(c), n)
  <2> HIDE DEF c
  <2>1. Sound(Cipher(c), <<v>>, 0)
    BY <1>1, <1>2, BatchSound
  <2>2. QED BY <2>1, SoundLonger, SoundLow, 0 \in Nat
<1> HIDE DEF c
<1>5. r = <<x, x, Cipher(c)>>
  BY <1>2, <1>3 DEF Result
<1>6. r # Thrown
  BY <1>2, <1>3, ResultsSome
<1>7. r[1] = x /\ r[2] = x /\ r[3] = Cipher(c)
  BY <1>5
<1>8. QED BY <1>4, <1>6, <1>7 DEF Fine

\* A number that is decrypted and encoded again, or zero.
LEMMA DecryptedFits ==
  ASSUME BatchSize = 1, EqualPrimes, NEW x, NEW a, Reads(x, a), x.cipher, Reencodes(x)
  PROVE  a \in Int /\ Fits(a, Scale, Top) /\ Fits(0, Scale, Top)
<1> DEFINE p == Decrypt(x.e)
<1>1. CipherSound(x.e, <<a>>, Top) /\ IsBatch(<<a>>) /\ a \in Int /\ BatchesFit /\ 1 \in Places
  BY SingleNumbers, ReadsValues DEF Reads, Sound
<1>2. Means(p, <<a>>) /\ Len(p.values) >= 1
  BY <1>1, DecryptMeans
<1>3. FitsAt(p, Top)
  BY DEF Reencodes
<1> HIDE DEF p
<1>4. p.values \in Seq(Int) /\ ValueAt(p, 1) = a
  BY <1>1, <1>2 DEF Means
<1>5. p.values[1] = a /\ 1 \in DOMAIN p.values
  BY <1>2, <1>4 DEF ValueAt
<1>6. Fits(0, Scale, Top)
  BY LevelsInt, ModulusRoom DEF Fits
<1>7. QED BY <1>1, <1>3, <1>5, <1>6 DEF FitsAt

\* A relu that the client does.
LEMMA AskReluFine ==
  ASSUME BatchSize = 1, EqualPrimes, NEW n \in Nat, NEW x, NEW a, Reads(x, a), Low(x, n), x.cipher,
         ~x.e.zero, Reencodes(x)
  PROVE  Fine(AskClient(x, Relu), n)
<1> DEFINE values == [k \in 1..BatchSize |-> Relu(ClientDecodes(x.e.data)[k])]
           r == AskClient(x, Relu)
<1>1. Relu(a) \in Int /\ Fits(Relu(a), Scale, Top)
  BY DecryptedFits, ActivationTypes, 0 \in Nat
<1>2. x.e.data # NoData /\ values = [k \in 1..BatchSize |-> Relu(a)]
  BY Decoded
<1>3. r = Result(x, x, Answer(values))
  BY <1>2 DEF AskClient
<1> HIDE DEF values
<1>4. r = Result(x, x, Answer([k \in 1..BatchSize |-> Relu(a)]))
  BY <1>2, <1>3
<1> HIDE DEF r
<1>5. Fine(r, n)
  BY <1>1, <1>4, AskedFine
<1>6. QED BY <1>5 DEF r

\* A bounded relu that the client does.
LEMMA AskBoundedReluFine ==
  ASSUME BatchSize = 1, EqualPrimes, NEW alpha \in Nat, Fits(alpha, Scale, Top),
         NEW n \in Nat, NEW x, NEW a, Reads(x, a), Low(x, n), x.cipher, ~x.e.zero, Reencodes(x)
  PROVE  Fine(AskClient(x, LAMBDA z : BoundedRelu(z, alpha)), n)
<1> DEFINE values == [k \in 1..BatchSize |-> BoundedRelu(ClientDecodes(x.e.data)[k], alpha)]
           v == BoundedRelu(a, alpha)
           r == AskClient(x, LAMBDA z : BoundedRelu(z, alpha))
<1>1. v \in Int /\ Fits(v, Scale, Top)
  BY DecryptedFits, ActivationTypes
<1>2. x.e.data # NoData /\ values = [k \in 1..BatchSize |-> v]
  BY Decoded
<1>3. r = Result(x, x, Answer(values))
  BY <1>2 DEF AskClient
<1> HIDE DEF values, v
<1>4. r = Result(x, x, Answer([k \in 1..BatchSize |-> v]))
  BY <1>2, <1>3
<1> HIDE DEF r
<1>5. Fine(r, n)
  BY <1>1, <1>4, AskedFine
<1>6. QED BY <1>5 DEF r

\* A constant.
LEMMA ConstantFine ==
  ASSUME BatchSize = 1, config.encryptModel \in BOOLEAN, NEW v \in Int, Fits(v, Scale, Top)
  PROVE  ConstantOf(v) # Thrown /\ Low(ConstantOf(v)[3], 0)
<1> DEFINE p == Plain(<<v>>, FALSE)
           c == Encrypt(NewCipher, p)
<1>1. p.values = <<v>> /\ p.packed = FALSE
  BY DEF Plain
<1>2. p.values \in Seq(Int) /\ Len(p.values) <= Slots /\ FitsAt(p, Top)
  <2>1. Len(<<v>>) = 1 /\ <<v>> \in Seq(Int) /\ DOMAIN <<v>> = {1} /\ <<v>>[1] = v
    OBVIOUS
  <2>2. FitsAt(p, Top)
    BY <1>1, <2>1 DEF FitsAt
  <2>3. 1 <= Slots
    BY SizesType
  <2> HIDE DEF p
  <2>4. QED BY <1>1, <2>1, <2>2, <2>3
<1>3. p # Thrown
  BY PlainIsSome
<1> HIDE DEF p
<1>4. c # Thrown
  BY <1>1, <1>2, NewIsCipher, EncryptSome
<1>5. Low(Cipher(c), 0)
  BY <1>4, NewIsTarget, EncryptLow
<1>6. CASE config.encryptModel
  <2>1. ConstantOf(v) = Result(EmptyPlain, EmptyPlain, c)
    BY <1>6 DEF ConstantOf, p
  <2> HIDE DEF c
  <2>2. ConstantOf(v)[3] = Cipher(c)
    BY <1>4, <2>1 DEF Result
  <2>3. QED BY <1>4, <1>5, <2>1, <2>2, ResultsSome
<1>7. CASE ~config.encryptModel
  <2>1. ConstantOf(v) = PlainResult(EmptyPlain, EmptyPlain, p)
    BY <1>7 DEF ConstantOf, p
  <2>2. ConstantOf(v)[3] = PlainOf(p)
    BY <1>3, <2>1 DEF PlainResult
  <2>3. Low(PlainOf(p), 0)
    BY DEF Low, PlainOf
  <2>4. QED BY <1>3, <2>1, <2>2, <2>3, ResultsSome
<1>8. QED BY <1>6, <1>7

-----------------------------------------------------------------------------
(* Calls on inputs that have all their levels.                             *)

MapElements == {heap[tensorMap[k].at] : k \in DOMAIN tensorMap}
InputElements == {heap[inputs[i].at] : i \in Parameters}

\* Levels that a plain argument may be encoded at: that of a new ciphertext, and those
\* of the ciphertexts that it may be added to or multiplied with.
LevelsMet ==
  {Top} \cup {l \in Levels : \E x \in MapElements : x.cipher /\ ~x.e.zero /\ x.e.data.level = l}

\* The modulus has room for the numbers that a call meets: those of the graph, what
\* inputs and tensors hold in the clear, and what relus decrypt and encrypt anew.
CallNumbersFit ==
  /\ \A n \in DOMAIN nodes :
       nodes[n].op \in {"constant", "bounded_relu"} => Fits(nodes[n].number, Scale, Top)
  /\ \A x \in MapElements \cup InputElements :
       /\ x.cipher => FitsAt(Decrypt(x.e), Top)
       /\ ~x.cipher => \A l \in LevelsMet : FitsAt(x.e, l)

\* No call before has taken levels of what this one is given.
Fresh == used = {} \/ EncryptsInputs

\* Plain tensors fit into the slots.
ShortInv ==
  /\ \A k \in DOMAIN tensorMap : Short(heap[tensorMap[k].at])
  /\ \A i \in Parameters : Short(heap[inputs[i].at])

\* What has been written and not been used has all its levels.
FreshInv == at \in {"idle", "parameters"} => \A i \in Parameters \ used : Low(heap[inputs[i].at], 0)

\* What a call has made of that has lost no more than a level for each multiplication.
LevelInv ==
  Fresh /\ at \in {"parameters", "nodes"} => \A k \in DOMAIN tensorMap : Low(heap[tensorMap[k].at], Spent)

CallInv == ShortInv /\ FreshInv /\ LevelInv /\ FreshCallsSucceed

\* What a kernel is given fits.
LEMMA ArgFits ==
  ASSUME StateInv, HeapInv, ShortInv, CallNumbersFit, at = "nodes", HasArgs, Node.op # "parameter",
         NEW n \in DOMAIN Node.args, NEW m \in DOMAIN Node.args
  PROVE  FitsWith(Element(n), Element(m)) /\ Reencodes(Element(n)) /\ Short(Element(n))
<1> DEFINE x == Element(n)
           y == Element(m)
<1>1. ASSUME NEW k \in DOMAIN Node.args
      PROVE  Element(k) \in MapElements /\ Short(Element(k)) /\ Reads(Element(k), MeaningNow(Node.args[k]))
  BY ArgStands DEF MapElements, ShortInv
<1>2. x.cipher => FitsAt(Decrypt(x.e), Top)
  BY <1>1 DEF CallNumbersFit
<1>3. ~x.cipher => \A l \in LevelsMet : FitsAt(x.e, l)
  BY <1>1 DEF CallNumbersFit
<1>4. Top \in LevelsMet
  BY DEF LevelsMet
<1>5. ASSUME y.cipher, ~y.e.zero PROVE y.e.data.level \in LevelsMet
  <2>1. HasData(y.e.data)
    BY <1>1, <1>5 DEF Reads, Sound, CipherSound, Holds
  <2>2. y.e.data.level \in Levels
    BY <2>1 DEF HasData
  <2>3. QED BY <1>1, <1>5, <2>2 DEF LevelsMet
<1> HIDE DEF x, y
<1>6. Short(x)
  BY <1>1 DEF x
<1>7. FitsWith(x, y)
  BY <1>3, <1>4, <1>5, <1>6 DEF FitsWith, Short
<1>8. QED BY <1>2, <1>6, <1>7 DEF Reencodes, x, y

\* A fine kernel leaves nothing with more levels lost.
KernelFine(r) ==
  /\ r # Thrown /\ Low(r[3], SpentThen)
  /\ \A n \in DOMAIN Node.args : Low(r[n], SpentThen)

\* No kernel throws where there are levels enough.
LEMMA KernelSucceeds ==
  ASSUME BatchSize = 1, EqualPrimes, EnoughLevels, StateInv, HeapInv, CallNumbersFit, ShortInv, LevelInv, Fresh,
         at = "nodes", HasArgs, Node.op \in {"constant", "add", "multiply", "minimum", "relu", "bounded_relu"},
         ~DefectiveArgs, ~(ByClient /\ NotForClient)
  PROVE  KernelFine(Kernel)
<1> DEFINE a == MeaningNow(Node.args[1])
           b == MeaningNow(Node.args[2])
<1>1. DOMAIN Node.args = 1..Arity(Node.op) /\ next \in DOMAIN nodes /\ Node = nodes[next] /\ Spent \in Nat
  BY NodeNow, MultipliedType
<1>2. Node.op # "multiply" => SpentThen = Spent
  BY <1>1 DEF SpentThen
<1>3. ASSUME Fine(Kernel, SpentThen), DOMAIN Node.args \subseteq {1, 2} PROVE KernelFine(Kernel)
  BY <1>3 DEF Fine, KernelFine
<1>4. ASSUME NEW k \in DOMAIN Node.args, Node.op # "parameter"
      PROVE  Reads(Element(k), MeaningNow(Node.args[k])) /\ Low(Element(k), Spent)
  BY <1>4, ArgStands DEF LevelInv
<1>5. CASE Node.op = "constant"
  <2>1. Kernel = ConstantOf(Node.number) /\ Node.number \in Int /\ config.encryptModel \in BOOLEAN
    BY <1>5, NodeNow DEF Kernel, StateInv, Configs
  <2>2. Fits(Node.number, Scale, Top)
    BY <1>1, <1>5 DEF CallNumbersFit
  <2>3. Kernel # Thrown /\ Low(Kernel[3], 0)
    BY <2>1, <2>2, ConstantFine
  <2>4. Reads(Kernel[3], Node.number)
    BY <2>1, <2>3, ConstantReads
  <2>5. Low(Kernel[3], Spent)
    BY <1>1, <2>3, <2>4, LowMore, 0 \in Nat
  <2>6. DOMAIN Node.args = {}
    BY <1>1, <1>5 DEF Arity
  <2>7. QED BY <1>2, <1>5, <2>3, <2>5, <2>6 DEF KernelFine
<1>6. CASE Node.op \in {"add", "multiply", "minimum"}
  <2>1. DOMAIN Node.args = {1, 2}
    BY <1>1, <1>6 DEF Arity
  <2>2. /\ Reads(Element(1), a) /\ Low(Element(1), Spent)
        /\ Reads(Element(2), b) /\ Low(Element(2), Spent)
        /\ FitsWith(Element(1), Element(2)) /\ FitsWith(Element(2), Element(1))
    BY <1>4, <1>6, <2>1, ArgFits
  <2>3. ~Defective(Node.op, Unmarked(Element(1)), Unmarked(Element(2)))
    BY <1>6 DEF DefectiveArgs
  <2>4. CASE Node.op = "add"
    <3>1. Kernel = AddOf(Element(1), Element(2))
      BY <2>4 DEF Kernel
    <3>2. Fine(Kernel, Spent)
      <4>1. ~MarkedDifferently(Element(1), Element(2))
        BY <2>4 DEF DefectiveArgs
      <4>2. QED BY <1>1, <2>2, <2>3, <2>4, <3>1, <4>1, AddFine
    <3>3. QED BY <1>2, <1>3, <2>1, <2>4, <3>2
  <2>5. CASE Node.op = "multiply"
    <3>1. Kernel = MultiplyOf(Element(1), Element(2))
      BY <2>5 DEF Kernel
    <3>2. Spent < Top /\ SpentThen = Spent + 1
      BY <2>5, LevelLeft DEF SpentThen
    <3>3. Fine(Kernel, Spent + 1)
      BY <1>1, <2>2, <2>3, <2>5, <3>1, <3>2, MultiplyFine
    <3>4. QED BY <1>3, <2>1, <3>2, <3>3
  <2>6. CASE Node.op = "minimum"
    <3>1. Kernel = MinimumOf(Element(1), Element(2))
      BY <2>6 DEF Kernel
    <3>2. Fine(Kernel, Spent)
      BY <1>1, <2>2, <2>3, <2>6, <3>1, MinimumFine
    <3>3. QED BY <1>2, <1>3, <2>1, <2>6, <3>2
  <2>7. QED BY <1>6, <2>4, <2>5, <2>6
<1>7. CASE Node.op \in {"relu", "bounded_relu"}
  <2>1. DOMAIN Node.args = {1} /\ DOMAIN Node.args \subseteq {1, 2}
    BY <1>1, <1>7 DEF Arity
  <2>2. Reads(Element(1), a) /\ Low(Element(1), Spent) /\ Reencodes(Element(1)) /\ SpentThen = Spent
    BY <1>2, <1>4, <1>7, <2>1, ArgFits
  <2>3. CASE Node.op = "relu"
    <3>1. CASE ByClient
      <4>1. Kernel = AskClient(Element(1), Relu) /\ Element(1).cipher /\ ~Element(1).e.zero
        BY <2>3, <3>1 DEF Kernel, ByClient, NotForClient
      <4>2. Fine(Kernel, Spent)
        BY <1>1, <2>2, <4>1, AskReluFine
      <4>3. QED BY <1>3, <2>1, <2>2, <4>2
    <3>2. CASE ~ByClient
      <4>1. Kernel = ReluOf(Element(1))
        BY <2>3, <3>2 DEF Kernel
      <4>2. Fine(Kernel, Spent)
        BY <1>1, <2>2, <4>1, ReluFine
      <4>3. QED BY <1>3, <2>1, <2>2, <4>2
    <3>3. QED BY <3>1, <3>2
  <2>4. CASE Node.op = "bounded_relu"
    <3>1. Node.number \in Nat /\ Fits(Node.number, Scale, Top)
      BY <1>1, <2>4, NodeNow DEF CallNumbersFit
    <3>2. CASE ByClient
      <4>1. Kernel = AskClient(Element(1), LAMBDA z : BoundedRelu(z, Node.number)) /\ Element(1).cipher
        BY <2>4, <3>2 DEF Kernel, ByClient
      <4>2. ~Element(1).e.zero
        BY <3>2 DEF NotForClient
      <4>3. Fine(Kernel, Spent)
        BY <1>1, <2>2, <3>1, <4>1, <4>2, AskBoundedReluFine
      <4>4. QED BY <1>3, <2>1, <2>2, <4>3
    <3>3. CASE ~ByClient
      <4>1. Kernel = BoundedReluOf(Element(1), Node.number)
        BY <2>4, <3>3 DEF Kernel
      <4>2. Fine(Kernel, Spent)
        BY <1>1, <2>2, <3>1, <4>1, BoundedReluFine
      <4>3. QED BY <1>3, <2>1, <2>2, <4>2
    <3>4. QED BY <3>2, <3>3
  <2>5. QED BY <1>7, <2>3, <2>4
<1>8. QED BY <1>5, <1>6, <1>7

\* What a kernel leaves fits into the slots.
KernelShort(r) == Short(r[3]) /\ \A n \in DOMAIN Node.args : Short(r[n])

\* A constant, or the answer of a client.
LEMMA ConstantShort == ASSUME NEW v, ConstantOf(v) # Thrown PROVE Short(ConstantOf(v)[3])
<1> DEFINE p == Plain(<<v>>, FALSE)
           c == Encrypt(NewCipher, p)
<1>1. Len(<<v>>) = 1 /\ 1 <= Slots
  BY SizesType
<1>2. Short(PlainOf(p)) /\ Short(Cipher(c))
  BY <1>1 DEF Short, PlainOf, Plain, Cipher
<1>3. CASE config.encryptModel
  <2>1. ConstantOf(v) = Result(EmptyPlain, EmptyPlain, c)
    BY <1>3 DEF ConstantOf
  <2> HIDE DEF c
  <2>2. QED BY <1>2, <2>1 DEF Result
<1>4. CASE ~config.encryptModel
  <2>1. ConstantOf(v) = PlainResult(EmptyPlain, EmptyPlain, p)
    BY <1>4 DEF ConstantOf
  <2> HIDE DEF p
  <2>2. QED BY <1>2, <2>1 DEF PlainResult
<1>5. QED BY <1>3, <1>4

\* Every kernel's.
LEMMA KernelsShort ==
  ASSUME StateInv, HeapInv, ShortInv, at = "nodes", HasArgs,
         Node.op \in {"constant", "add", "multiply", "minimum", "relu", "bounded_relu"}, Kernel # Thrown
  PROVE  KernelShort(Kernel)
<1>1. DOMAIN Node.args = 1..Arity(Node.op)
  BY NodeNow
<1>2. ASSUME NEW k \in DOMAIN Node.args, Node.op # "parameter"
      PROVE  Sound(Element(k), <<MeaningNow(Node.args[k])>>, Top) /\ Short(Element(k))
  BY <1>2, ArgStands DEF ShortInv, Reads
<1>3. Top \in Nat
  BY ScaleType
<1>4. CASE Node.op = "constant"
  <2>1. Kernel = ConstantOf(Node.number) /\ DOMAIN Node.args = {}
    BY <1>1, <1>4 DEF Kernel, Arity
  <2>2. QED BY <2>1, ConstantShort DEF KernelShort
<1>5. CASE Node.op \in {"add", "multiply", "minimum"}
  <2> DEFINE x == Element(1)
             y == Element(2)
  <2>1. DOMAIN Node.args = {1, 2}
    BY <1>1, <1>5 DEF Arity
  <2>2. /\ Sound(x, <<MeaningNow(Node.args[1])>>, Top) /\ Short(x)
        /\ Sound(y, <<MeaningNow(Node.args[2])>>, Top) /\ Short(y)
    BY <1>2, <1>5, <2>1
  <2>3. Kernel \in {AddOf(x, y), MultiplyOf(x, y), MinimumOf(x, y)}
    BY <1>5 DEF Kernel
  <2> HIDE DEF x, y
  <2>4. Shaped(x, y, AddOf(x, y)) /\ Shaped(x, y, MultiplyOf(x, y)) /\ Shaped(x, y, MinimumOf(x, y))
    BY <1>3, <2>2, OperationsShaped
  <2>5. Shaped(x, y, Kernel)
    BY <2>3, <2>4
  <2>6. Short(Kernel[1]) /\ Short(Kernel[2]) /\ Short(Kernel[3])
    BY <2>2, <2>5, ShapedShort
  <2>7. QED BY <2>1, <2>6 DEF KernelShort
<1>6. CASE Node.op \in {"relu", "bounded_relu"}
  <2> DEFINE x == Element(1)
             alpha == Node.number
  <2>1. DOMAIN Node.args = {1}
    BY <1>1, <1>6 DEF Arity
  <2>2. Sound(x, <<MeaningNow(Node.args[1])>>, Top) /\ Short(x)
    BY <1>2, <1>6, <2>1
  <2>3. \/ Kernel = AskClient(x, Relu) \/ Kernel = AskClient(x, LAMBDA z : BoundedRelu(z, alpha))
        \/ Kernel = ReluOf(x) \/ Kernel = BoundedReluOf(x, alpha)
    BY <1>6 DEF Kernel
  <2>4. /\ \E c : AskClient(x, Relu) = Result(x, x, c)
        /\ \E c : AskClient(x, LAMBDA z : BoundedRelu(z, alpha)) = Result(x, x, c)
    BY DEF AskClient
  <2> HIDE DEF x, alpha
  <2>5. Shaped(x, x, ReluOf(x)) /\ Shaped(x, x, BoundedReluOf(x, alpha))
    BY <1>3, <2>2, OperationsShaped
  <2>6. Shaped(x, x, Kernel)
    BY <2>3, <2>4, <2>5, ResultsShaped
  <2>7. Short(Kernel[1]) /\ Short(Kernel[2]) /\ Short(Kernel[3])
    BY <2>2, <2>6, ShapedShort
  <2>8. QED BY <2>1, <2>7 DEF KernelShort
<1>7. QED BY <1>4, <1>5, <1>6

\* After a step the tensors of tensor_map are those of heap h, and x; and the inputs are
\* those of h.
Made(h, x) ==
  /\ \A k \in DOMAIN tensorMap' :
       \/ heap'[tensorMap'[k].at] = x
       \/ \E l \in DOMAIN tensorMap : heap'[tensorMap'[k].at] = h[tensorMap[l].at]
  /\ \A i \in Parameters : heap'[inputs'[i].at] = h[inputs[i].at]

\* A tensor more, at a new address.
LEMMA NewElements ==
  ASSUME StateInv, HeapInv, NEW h, DOMAIN h = Addresses, NEW id, NEW x, NEW t, t.at = New,
         UNCHANGED <<inputs, outputs>>, tensorMap' \in {Inserted(id, t), Freed(Inserted(id, t))},
         Keep([h EXCEPT ![New] = x])
  PROVE  Made(h, x)
<1> DEFINE g == [h EXCEPT ![New] = x]
<1>1. New \in Addresses /\ New \notin Pointers(inputs, outputs, tensorMap)
  BY NewFresh, GraphNow DEF StateInv
<1>2. g[New] = x /\ \A a \in Addresses : a # New => g[a] = h[a]
  BY <1>1
<1>3. \A a \in Addresses : a \in Pointers(inputs', outputs', tensorMap') => heap'[a] = g[a]
  BY DEF Keep
<1> HIDE DEF g
<1>4. ASSUME NEW k \in DOMAIN tensorMap'
      PROVE  tensorMap'[k] = t \/ (k \in DOMAIN tensorMap /\ tensorMap'[k] = tensorMap[k])
  BY DEF Inserted, Freed
<1>5. ASSUME NEW k \in DOMAIN tensorMap'
      PROVE  \/ heap'[tensorMap'[k].at] = x
             \/ \E l \in DOMAIN tensorMap : heap'[tensorMap'[k].at] = h[tensorMap[l].at]
  <2>1. tensorMap'[k].at \in Pointers(inputs', outputs', tensorMap')
    BY DEF Pointers
  <2>2. CASE tensorMap'[k] = t
    BY <1>1, <1>2, <1>3, <2>1, <2>2
  <2>3. CASE k \in DOMAIN tensorMap /\ tensorMap'[k] = tensorMap[k]
    <3>1. tensorMap[k].at \in Addresses /\ tensorMap[k].at \in Pointers(inputs, outputs, tensorMap)
      BY <2>3 DEF Pointers, HeapInv, MapStands, Stands
    <3>2. heap'[tensorMap'[k].at] = h[tensorMap[k].at]
      BY <1>1, <1>2, <1>3, <2>1, <2>3, <3>1
    <3>3. QED BY <2>3, <3>2
  <2>4. QED BY <1>4, <2>2, <2>3
<1>6. ASSUME NEW i \in Parameters PROVE heap'[inputs'[i].at] = h[inputs[i].at]
  <2>1. /\ inputs[i].at \in Addresses /\ inputs[i].at \in Pointers(inputs, outputs, tensorMap)
        /\ inputs'[i].at \in Pointers(inputs', outputs', tensorMap')
    BY DEF Pointers, StateInv, HeapInv, InputsStand, Stands
  <2>2. QED BY <1>1, <1>2, <1>3, <2>1
<1>7. QED BY <1>5, <1>6 DEF Made

\* Another tensor for what is in the heap already, or none.
LEMMA KeptElements ==
  ASSUME StateInv, HeapInv, NEW x, UNCHANGED inputs, NEW h,
         \A a \in Addresses : a \in Pointers(inputs', outputs', tensorMap') => heap'[a] = h[a],
         \A k \in DOMAIN tensorMap : h[tensorMap[k].at] = heap[tensorMap[k].at],
         \A i \in Parameters : h[inputs[i].at] = heap[inputs[i].at],
         \A k \in DOMAIN tensorMap' :
           \/ k \in DOMAIN tensorMap /\ tensorMap'[k] = tensorMap[k]
           \/ tensorMap'[k].at \in Addresses /\ h[tensorMap'[k].at] = x
  PROVE  Made(heap, x)
<1>1. ASSUME NEW k \in DOMAIN tensorMap'
      PROVE  \/ heap'[tensorMap'[k].at] = x
             \/ \E l \in DOMAIN tensorMap : heap'[tensorMap'[k].at] = heap[tensorMap[l].at]
  <2>1. tensorMap'[k].at \in Pointers(inputs', outputs', tensorMap')
    BY DEF Pointers
  <2>2. CASE tensorMap'[k].at \in Addresses /\ h[tensorMap'[k].at] = x
    BY <2>1, <2>2
  <2>3. CASE k \in DOMAIN tensorMap /\ tensorMap'[k] = tensorMap[k]
    <3>1. tensorMap[k].at \in Addresses
      BY <2>3 DEF HeapInv, MapStands, Stands
    <3>2. heap'[tensorMap'[k].at] = heap[tensorMap[k].at]
      BY <2>1, <2>3, <3>1
    <3>3. QED BY <2>3, <3>2
  <2>4. QED BY <2>2, <2>3
<1>2. ASSUME NEW i \in Parameters PROVE heap'[inputs'[i].at] = heap[inputs[i].at]
  <2>1. inputs[i].at \in Addresses /\ inputs'[i].at \in Pointers(inputs', outputs', tensorMap')
    BY DEF Pointers, StateInv, HeapInv, InputsStand, Stands
  <2>2. QED BY <2>1
<1>3. QED BY <1>1, <1>2 DEF Made

\* What is made of short tensors is short.
LEMMA MadeShort ==
  ASSUME NEW h, NEW x, Made(h, x), UNCHANGED <<function, inputs>>, Short(x),
         \A k \in DOMAIN tensorMap : Short(h[tensorMap[k].at]),
         \A i \in Parameters : Short(h[inputs[i].at])
  PROVE  ShortInv'
<1>1. Parameters' = Parameters
  BY DEF Parameters
<1>2. \A k \in DOMAIN tensorMap' : Short(heap'[tensorMap'[k].at])
  BY DEF Made
<1>3. \A i \in Parameters : Short(heap'[inputs'[i].at])
  BY DEF Made
<1>4. QED BY <1>1, <1>2, <1>3 DEF ShortInv

\* What is made of tensors that have lost n levels has lost as many.
LEMMA MadeLow ==
  ASSUME NEW h, NEW x, Made(h, x), NEW n, Low(x, n), \A k \in DOMAIN tensorMap : Low(h[tensorMap[k].at], n)
  PROVE  \A k \in DOMAIN tensorMap' : Low(heap'[tensorMap'[k].at], n)
BY DEF Made

\* A node that is done.
LEMMA NodeDone ==
  ASSUME StateInv, at = "nodes", failed = "no", NEW map, Advance(map), NEW h, NEW x, Made(h, x),
         Short(x), \A k \in DOMAIN tensorMap : Short(h[tensorMap[k].at]),
         \A i \in Parameters : Short(h[inputs[i].at]),
         Fresh => Low(x, SpentThen) /\ \A k \in DOMAIN tensorMap : Low(h[tensorMap[k].at], SpentThen)
  PROVE  CallInv'
<1>1. /\ UNCHANGED <<configVars, inputs, used>> /\ failed' = "no"
      /\ at' \in {"nodes", "end"}
  BY DEF Advance
<1>2. ShortInv'
  BY <1>1, MadeShort DEF configVars
<1>3. Fresh' <=> Fresh
  BY <1>1 DEF Fresh, EncryptsInputs, configVars
<1>4. LevelInv'
  <2>1. ASSUME Fresh, at' = "nodes" PROVE \A k \in DOMAIN tensorMap' : Low(heap'[tensorMap'[k].at], Spent')
    <3>1. Spent' = SpentThen
      BY <2>1, SpentNext
    <3>2. QED BY <2>1, <3>1, MadeLow
  <2>2. QED BY <1>1, <1>3, <2>1 DEF LevelInv
<1>5. QED BY <1>1, <1>2, <1>4 DEF CallInv, FreshInv, FreshCallsSucceed

\* A step that leaves the call where it is.
LEMMA StillCall ==
  ASSUME CallInv, UNCHANGED <<configVars, heap, callerVars, callVars>>, failed' = "threw" => ~Fresh
  PROVE  CallInv'
<1>1. /\ nodes' = nodes /\ at' = at /\ next' = next /\ tensorMap' = tensorMap /\ heap' = heap
      /\ inputs' = inputs /\ used' = used /\ config' = config /\ Parameters' = Parameters
  BY DEF configVars, callerVars, callVars, Parameters
<1>2. Spent' = Spent /\ (Fresh' <=> Fresh)
  BY <1>1 DEF Spent, Multiplied, Fresh, EncryptsInputs
<1>3. ShortInv' /\ FreshInv' /\ LevelInv'
  BY <1>1, <1>2 DEF CallInv, ShortInv, FreshInv, LevelInv
<1>4. FreshCallsSucceed'
  BY <1>2 DEF FreshCallsSucceed, Fresh
<1>5. QED BY <1>3, <1>4 DEF CallInv

\* An empty plaintext is short and has no levels.
LEMMA EmptyShort == Short(EmptyPlain) /\ \A n : Low(EmptyPlain, n)
<1>1. Len(<< >>) = 0 /\ 0 <= Slots
  BY SizesType
<1>2. QED BY <1>1 DEF Short, Low, EmptyPlain, PlainOf, Plain

\* Plain numbers that fit can be encrypted.
LEMMA PlainEncrypted ==
  ASSUME NEW out, IsCipher(out), NEW x, NEW v, Reads(x, v), ~x.cipher, Short(x), FitsAt(x.e, Top)
  PROVE  Encrypt(out, x.e) # Thrown
<1>1. PlainSound(x.e, <<v>>)
  BY DEF Reads, Sound
<1>2. x.e.values \in Seq(Int) /\ x.e.packed \in BOOLEAN
  BY <1>1, PlainParts
<1>3. QED BY <1>2, EncryptSome DEF Short

\* Mapping a parameter.
LEMMA MapParameterCall ==
  ASSUME BatchSize = 1, StateInv, HeapInv, CallInv, CallNumbersFit, NEW i \in Parameters, MapParameter(i)
  PROVE  CallInv'
<1> DEFINE x == heap[inputs[i].at]
           c == Encrypt(NewCipher, x.e)
<1>1. at = "parameters" /\ failed = "no" /\ Spent = 0
  BY DEF MapParameter, Spent
<1>2. Stands(heap, inputs[i], written[i]) /\ Short(x)
  BY DEF HeapInv, InputsStand, CallInv, ShortInv
<1>3. ASSUME EncryptsInputs PROVE c # Thrown /\ Low(Cipher(c), 0)
  <2>1. ~x.cipher /\ Reads(x, written[i])
    BY <1>2, <1>3 DEF Stands, StateInv
  <2>2. x \in InputElements /\ Top \in LevelsMet
    BY DEF InputElements, LevelsMet
  <2>3. FitsAt(x.e, Top)
    BY <2>1, <2>2 DEF CallNumbersFit
  <2> HIDE DEF x
  <2>4. c # Thrown
    BY <1>2, <2>1, <2>3, NewIsCipher, PlainEncrypted
  <2>5. QED BY <2>4, NewIsTarget, EncryptLow
<1>4. /\ UNCHANGED <<configVars, callerVars, at, next, used, failed>>
      /\ EncryptsInputs => /\ tensorMap' = Inserted(i, [cipher |-> TRUE, at |-> New])
                           /\ Keep([heap EXCEPT ![New] = Cipher(c)])
      /\ ~EncryptsInputs => tensorMap' = Inserted(i, inputs[i]) /\ UNCHANGED heap
  BY <1>3 DEF MapParameter
<1>5. PICK y : Made(heap, y) /\ Short(y) /\ (Fresh => Low(y, 0))
  <2>1. CASE EncryptsInputs
    <3> DEFINE t == [cipher |-> TRUE, at |-> New]
    <3>1. t.at = New /\ tensorMap' = Inserted(i, t) /\ DOMAIN heap = Addresses
          /\ UNCHANGED <<inputs, outputs>>
      BY <1>4, <2>1 DEF StateInv, callerVars
    <3> HIDE DEF t, c
    <3>2. Keep([heap EXCEPT ![New] = Cipher(c)])
      BY <1>4, <2>1
    <3>3. Made(heap, Cipher(c))
      BY <3>1, <3>2, NewElements
    <3>4. Short(Cipher(c))
      BY DEF Short, Cipher
    <3>5. QED BY <1>3, <2>1, <3>3, <3>4
  <2>2. CASE ~EncryptsInputs
    <3>1. Made(heap, x)
      <4>1. \A k \in DOMAIN tensorMap' :
              \/ k \in DOMAIN tensorMap /\ tensorMap'[k] = tensorMap[k]
              \/ tensorMap'[k].at \in Addresses /\ heap[tensorMap'[k].at] = x
        BY <1>2, <1>4, <2>2 DEF Inserted, Stands
      <4> HIDE DEF x
      <4>2. QED BY <1>4, <2>2, <4>1, KeptElements DEF callerVars
    <3>2. Fresh => Low(x, 0)
      BY <1>1, <2>2 DEF Fresh, CallInv, FreshInv
    <3>3. QED BY <1>2, <3>1, <3>2
  <2>3. QED BY <2>1, <2>2
<1>6. ShortInv'
  BY <1>4, <1>5, MadeShort DEF CallInv, ShortInv, configVars, callerVars
<1>7. Parameters' = Parameters /\ used' = used /\ at' = at /\ inputs' = inputs
  BY <1>4 DEF Parameters, configVars, callerVars
<1>8. FreshInv'
  BY <1>1, <1>5, <1>7 DEF FreshInv, CallInv, Made
<1>9. LevelInv'
  <2>1. Spent' = 0 /\ (Fresh' <=> Fresh)
    BY <1>1, <1>4, <1>7 DEF Spent, Fresh, EncryptsInputs, configVars
  <2>2. ASSUME Fresh PROVE \A k \in DOMAIN tensorMap' : Low(heap'[tensorMap'[k].at], 0)
    BY <1>1, <1>5, <2>2, MadeLow DEF CallInv, LevelInv
  <2>3. QED BY <2>1, <2>2 DEF LevelInv
<1>10. FreshCallsSucceed'
  BY <1>1, <1>4 DEF FreshCallsSucceed
<1>11. QED BY <1>6, <1>8, <1>9, <1>10 DEF CallInv

\* The nodes begin.
LEMMA BeginCall == ASSUME StateInv, CallInv, Begin PROVE CallInv'
<1>1. /\ at = "parameters" /\ at' = "nodes" /\ failed' = "no"
      /\ heap' = heap /\ tensorMap' = tensorMap /\ inputs' = inputs /\ used' = used /\ config' = config
      /\ Parameters' = Parameters
  BY DEF Begin, configVars, callerVars, Parameters
<1>2. Spent = 0 /\ Spent' = 0 /\ (Fresh' <=> Fresh)
  BY <1>1, SpentFirst DEF Fresh, EncryptsInputs
<1>3. QED BY <1>1, <1>2 DEF CallInv, ShortInv, FreshInv, LevelInv, FreshCallsSucceed

\* A call begins, with nothing in tensor_map.
LEMMA CallCall == ASSUME StateInv, CallInv, Call PROVE CallInv'
<1>1. /\ at = "idle" /\ at' = "parameters" /\ failed' = "no"
      /\ heap' = heap /\ tensorMap' = tensorMap /\ inputs' = inputs /\ used' = used
      /\ Parameters' = Parameters /\ DOMAIN tensorMap = {}
  BY DEF Call, configVars, callerVars, Parameters, StateInv
<1>2. QED BY <1>1 DEF CallInv, ShortInv, FreshInv, LevelInv, FreshCallsSucceed

\* The caller writes: the ciphertext is new, or new again.
LEMMA WriteCall ==
  ASSUME BatchSize = 1, StateInv, HeapInv, CallInv, NEW i \in Parameters, NEW v \in Numbers, Write(i, v)
  PROVE  CallInv'
<1> DEFINE a == inputs[i].at
           x == heap[a]
           p == Plain(<<v>>, FALSE)
<1>1. /\ at = "idle" /\ at' = "idle" /\ failed' = "no" /\ heap' = [heap EXCEPT ![a] = Write1(x, v)]
      /\ used' = used \ {i} /\ inputs' = inputs /\ tensorMap' = tensorMap /\ Parameters' = Parameters
      /\ DOMAIN tensorMap = {}
  BY DEF Write, configVars, Parameters, StateInv
<1>2. a \in Addresses /\ DOMAIN heap = Addresses /\ Reads(x, written[i])
  BY DEF StateInv, HeapInv, InputsStand, Stands
<1>3. heap'[a] = Write1(x, v) /\ \A k \in Parameters : k # i => heap'[inputs[k].at] = heap[inputs[k].at]
  <2>1. \A k \in Parameters : k # i => inputs[k].at # a /\ inputs[k].at \in Addresses
    BY DEF StateInv, HeapInv, InputsStand, Stands
  <2>2. QED BY <1>1, <1>2, <2>1
<1>4. Encode(p) # Thrown
  BY NumbersAssumption
<1>5. Short(PlainOf(p)) /\ Low(PlainOf(p), 0)
  <2>1. Len(<<v>>) = 1 /\ 1 <= Slots
    BY SizesType
  <2>2. QED BY <2>1 DEF Short, Low, PlainOf, Plain
<1>6. Write1(x, v) = IF x.cipher THEN Cipher(Encrypt(x.e, p)) ELSE PlainOf(p)
  BY DEF Write1
<1> HIDE DEF x, p
<1>7. Short(Write1(x, v)) /\ Low(Write1(x, v), 0)
  <2>1. CASE x.cipher
    <3>1. IsTarget(x.e)
      BY <1>2, <2>1 DEF Reads, Sound, IsElement, CipherSound, IsTarget
    <3>2. Encrypt(x.e, p) # Thrown
      BY <1>4, <3>1, EncodedCipher, CipherIsSome DEF IsTarget
    <3>3. Low(Cipher(Encrypt(x.e, p)), 0)
      BY <3>1, <3>2, EncryptLow
    <3>4. Short(Cipher(Encrypt(x.e, p)))
      BY DEF Short, Cipher
    <3>5. QED BY <1>6, <2>1, <3>3, <3>4
  <2>2. CASE ~x.cipher
    BY <1>5, <1>6, <2>2
  <2>3. QED BY <2>1, <2>2
<1>8. ShortInv'
  BY <1>1, <1>3, <1>7 DEF CallInv, ShortInv
<1>9. FreshInv'
  BY <1>1, <1>3, <1>7 DEF CallInv, FreshInv
<1>10. QED BY <1>1, <1>8, <1>9 DEF CallInv, LevelInv, FreshCallsSucceed

\* A call returns.
LEMMA ReturnCall == ASSUME StateInv, HeapInv, CallInv, Return PROVE CallInv'
<1>1. CASE \E why : Fail(why) /\ why # "threw"
  BY <1>1, StillCall DEF Fail
<1>2. CASE ~\E why : Fail(why) /\ why # "threw"
  <2>1. /\ at' = "idle" /\ tensorMap' = <<>> /\ used' = Parameters /\ failed' = "no"
        /\ UNCHANGED <<configVars, callerVars>> /\ Keep(heap)
    BY <1>2 DEF Return
  <2>2. DOMAIN tensorMap' = {} /\ inputs' = inputs /\ Parameters' = Parameters /\ function' = function
    BY <2>1 DEF configVars, callerVars, Parameters
  <2>3. \A a \in Addresses : a \in Pointers(inputs', outputs', tensorMap') => heap'[a] = heap[a]
    BY <2>1 DEF Keep
  <2>4. Made(heap, EmptyPlain)
    BY <2>2, <2>3, KeptElements
  <2>5. ShortInv'
    BY <2>2, <2>4, EmptyShort, MadeShort DEF CallInv, ShortInv
  <2>6. FreshInv' /\ LevelInv' /\ FreshCallsSucceed'
    BY <2>1, <2>2 DEF FreshInv, LevelInv, FreshCallsSucceed
  <2>7. QED BY <2>5, <2>6 DEF CallInv
<1>3. QED BY <1>1, <1>2

\* The tensors of tensor_map, as the invariant has them.
LEMMA TensorsNow ==
  ASSUME CallInv, at = "nodes"
  PROVE  /\ \A k \in DOMAIN tensorMap : Short(heap[tensorMap[k].at])
         /\ \A i \in Parameters : Short(heap[inputs[i].at])
         /\ Fresh => \A k \in DOMAIN tensorMap : Low(heap[tensorMap[k].at], Spent)
BY DEF CallInv, ShortInv, LevelInv

\* A node that multiplies nothing spends nothing.
LEMMA NothingSpent == ASSUME StateInv, Node.op # "multiply" PROVE SpentThen = Spent
BY MultipliedType DEF SpentThen

\* Nothing is done for a parameter.
LEMMA SkipParameterCall == ASSUME StateInv, HeapInv, CallInv, SkipParameter PROVE CallInv'
<1>1. at = "nodes" /\ failed = "no" /\ Advance(tensorMap) /\ heap' = heap /\ SpentThen = Spent
  BY NothingSpent DEF SkipParameter, Running
<1>2. /\ inputs' = inputs
      /\ \A k \in DOMAIN tensorMap' : k \in DOMAIN tensorMap /\ tensorMap'[k] = tensorMap[k]
  BY <1>1 DEF Advance, Freed
<1>3. Made(heap, EmptyPlain)
  BY <1>1, <1>2, KeptElements
<1>4. QED BY <1>1, <1>3, TensorsNow, EmptyShort, NodeDone

\* What the heap has after a kernel.
LEMMA ArgsAfterMade ==
  ASSUME NEW r
  PROVE  /\ DOMAIN ArgsAfter(r) = Addresses
         /\ \A a \in Addresses : \/ ArgsAfter(r)[a] = heap[a]
                                 \/ \E n \in DOMAIN Node.args : ArgsAfter(r)[a] = r[n]
<1> SUFFICES ASSUME NEW a \in Addresses
             PROVE  \/ ArgsAfter(r)[a] = heap[a]
                    \/ \E n \in DOMAIN Node.args : ArgsAfter(r)[a] = r[n]
  BY DEF ArgsAfter
<1>1. CASE \E n \in DOMAIN Node.args : Arg(n).at = a
  <2> DEFINE c == CHOOSE n \in DOMAIN Node.args : Arg(n).at = a
  <2>1. c \in DOMAIN Node.args
    BY <1>1
  <2>2. ArgsAfter(r)[a] = r[c]
    BY <1>1 DEF ArgsAfter
  <2> HIDE DEF c
  <2>3. QED BY <2>1, <2>2
<1>2. CASE ~\E n \in DOMAIN Node.args : Arg(n).at = a
  BY <1>2 DEF ArgsAfter
<1>3. QED BY <1>1, <1>2

\* A kernel.
LEMMA ComputeCall ==
  ASSUME KnownDefects = FALSE, EqualPrimes, BatchSize = 1, EnoughLevels,
         StateInv, HeapInv, CallInv, CallNumbersFit, Compute
  PROVE  CallInv'
<1>1. /\ at = "nodes" /\ failed = "no" /\ HasArgs
      /\ Node.op \in {"constant", "add", "multiply", "minimum", "relu", "bounded_relu"}
  BY ArgumentsFound DEF Compute, Running
<1>2. ASSUME Fresh, ~DefectiveArgs, ~(ByClient /\ NotForClient) PROVE KernelFine(Kernel)
  BY <1>1, <1>2, KernelSucceeds DEF CallInv
<1>3. CASE \E why : Fail(why) /\ (why = "threw" => ~Fresh)
  BY <1>3, StillCall DEF Fail
<1>4. CASE ~\E why : Fail(why) /\ (why = "threw" => ~Fresh)
  <2> DEFINE t == [cipher |-> Kernel[3].cipher, at |-> New]
             h == ArgsAfter(Kernel)
  <2>1. /\ ~DefectiveArgs /\ ~(ByClient /\ NotForClient)
        /\ Kernel # Thrown /\ Advance(Inserted(Node.id, t)) /\ UNCHANGED outputs
        /\ Keep([h EXCEPT ![New] = Kernel[3]])
    <3>1. ~Fail("defect") /\ ~Fail("client")
      BY <1>4
    <3>2. Kernel = Thrown => DefectiveArgs \/ (ByClient /\ NotForClient) \/ ~Fresh
      BY <1>2 DEF KernelFine
    <3>3. Fail("threw") => Fresh
      BY <1>4
    <3>4. QED BY <1>1, <3>1, <3>2, <3>3 DEF Compute
  <2>2. /\ DOMAIN h = Addresses
        /\ \A a \in Addresses : h[a] = heap[a] \/ \E n \in DOMAIN Node.args : h[a] = Kernel[n]
    BY ArgsAfterMade
  <2>3. t.at = New /\ UNCHANGED <<inputs, outputs>> /\ tensorMap' = Freed(Inserted(Node.id, t))
    BY <2>1 DEF Advance
  <2> HIDE DEF t, h
  <2>4. Made(h, Kernel[3])
    BY <2>1, <2>2, <2>3, NewElements
  <2>5. KernelShort(Kernel)
    BY <1>1, <2>1, KernelsShort DEF CallInv
  <2>6. /\ \A k \in DOMAIN tensorMap : tensorMap[k].at \in Addresses
        /\ \A i \in Parameters : inputs[i].at \in Addresses
    BY DEF HeapInv, MapStands, InputsStand, Stands
  <2>7. /\ \A k \in DOMAIN tensorMap : Short(h[tensorMap[k].at])
        /\ \A i \in Parameters : Short(h[inputs[i].at])
        /\ Short(Kernel[3])
    BY <1>1, <2>2, <2>5, <2>6, TensorsNow DEF KernelShort
  <2>8. ASSUME Fresh
        PROVE  Low(Kernel[3], SpentThen) /\ \A k \in DOMAIN tensorMap : Low(h[tensorMap[k].at], SpentThen)
    <3>1. KernelFine(Kernel)
      BY <1>2, <2>1, <2>8
    <3>2. Spent \in Nat /\ SpentThen \in Nat /\ Spent <= SpentThen
      BY <1>1, MultipliedNext DEF SpentThen
    <3>3. ASSUME NEW k \in DOMAIN tensorMap PROVE Low(heap[tensorMap[k].at], SpentThen)
      <4>1. Reads(heap[tensorMap[k].at], MeaningNow(k)) /\ Low(heap[tensorMap[k].at], Spent)
        BY <1>1, <2>8, TensorsNow DEF HeapInv, MapStands, Stands
      <4>2. QED BY <3>2, <4>1, LowMore
    <3>4. QED BY <2>2, <2>6, <3>1, <3>3 DEF KernelFine
  <2>9. QED BY <1>1, <2>1, <2>4, <2>7, <2>8, NodeDone
<1>5. QED BY <1>3, <1>4

\* A movement.
LEMMA ReshapeCall ==
  ASSUME KnownDefects = FALSE, StateInv, HeapInv, CallInv, Reshape
  PROVE  CallInv'
<1> DEFINE out == IF Arg(1).cipher THEN Arg(1) ELSE [cipher |-> FALSE, at |-> New]
           x == Element(1)
<1>1. at = "nodes" /\ failed = "no" /\ HasArgs /\ Node.op \in {"reshape", "minimum"}
  BY ArgumentsFound DEF Reshape, Running, TakesOver
<1>2. CASE Fail("defect")
  BY <1>2, StillCall DEF Fail
<1>3. CASE ~Fail("defect")
  <2>1. /\ ~DefectiveArgs /\ Advance(Inserted(Node.id, out)) /\ UNCHANGED outputs
        /\ Keep([heap EXCEPT ![out.at] = x])
    BY <1>1, <1>3 DEF Reshape
  <2>2. Node.op = "reshape"
    <3> SUFFICES ASSUME Node.op = "minimum" PROVE FALSE
      BY <1>1
    <3>1. Element(1).cipher
      BY DEF Reshape, TakesOver
    <3>2. Unmarked(Element(1)).cipher
      BY <3>1 DEF Unmarked
    <3>3. Node.op = "minimum" /\ ~Defective(Node.op, Unmarked(Element(1)), Unmarked(Element(2)))
      BY <2>1 DEF DefectiveArgs
    <3>4. QED BY <3>2, <3>3 DEF Defective
  <2>3. 1 \in DOMAIN Node.args
    BY <2>2, <1>1, NodeNow DEF Arity
  <2>4. /\ Node.args[1] \in DOMAIN tensorMap /\ Arg(1) = tensorMap[Node.args[1]]
        /\ x = heap[Arg(1).at] /\ Arg(1).at \in Addresses
    BY <1>1, <2>2, <2>3, ArgStands DEF Stands
  <2>5. UNCHANGED <<inputs, outputs>> /\ tensorMap' = Freed(Inserted(Node.id, out))
    BY <2>1 DEF Advance
  <2>6. Made(heap, x)
    <3>1. CASE Arg(1).cipher
      <4>1. out = Arg(1)
        BY <3>1
      <4>2. \A a \in Addresses : [heap EXCEPT ![out.at] = x][a] = heap[a]
        <5>1. DOMAIN heap = Addresses /\ x = heap[out.at]
          BY <2>4, <4>1 DEF StateInv
        <5> HIDE DEF out, x
        <5>2. QED BY <5>1
      <4>3. \A a \in Addresses : a \in Pointers(inputs', outputs', tensorMap') => heap'[a] = heap[a]
        BY <2>1, <4>2 DEF Keep
      <4>4. \A k \in DOMAIN tensorMap' :
              \/ k \in DOMAIN tensorMap /\ tensorMap'[k] = tensorMap[k]
              \/ tensorMap'[k].at \in Addresses /\ heap[tensorMap'[k].at] = x
        BY <2>4, <2>5, <4>1 DEF Inserted, Freed
      <4> HIDE DEF out, x
      <4>5. QED BY <2>5, <4>3, <4>4, KeptElements
    <3>2. CASE ~Arg(1).cipher
      <4>1. out.at = New /\ DOMAIN heap = Addresses
        BY <3>2 DEF StateInv
      <4>2. Keep([heap EXCEPT ![New] = x])
        <5>1. Keep([heap EXCEPT ![out.at] = x])
          BY <2>1
        <5> HIDE DEF out, x
        <5>2. QED BY ONLY <4>1, <5>1 DEF Keep
      <4> HIDE DEF out, x
      <4>3. QED BY <2>5, <4>1, <4>2, NewElements
    <3>3. QED BY <3>1, <3>2
  <2>7. SpentThen = Spent
    BY <2>2, NothingSpent
  <2>8. Short(x) /\ (Fresh => Low(x, Spent))
    BY <1>1, <2>4, TensorsNow
  <2> HIDE DEF out, x
  <2>9. QED BY <1>1, <2>1, <2>6, <2>7, <2>8, TensorsNow, NodeDone
<1>4. QED BY <1>2, <1>3

\* No result throws: what is encrypted for the caller has room, and goes to a ciphertext.
LEMMA ResultSome ==
  ASSUME BatchSize = 1, StateInv, HeapInv, CallInv, CallNumbersFit, at = "nodes", Node.op = "result",
         NEW j \in Results, j = ResultIndex(Node)
  PROVE  ResultOf(ResultTensor(j)) # Thrown
<1> DEFINE x == Element(1)
           out == ResultTensor(j)
           v == Meaning(function, written)[NodeOfResult(function, j)]
<1>1. HasArgs
  BY ArgumentsFound
<1>2. /\ Node.args[1] \in DOMAIN tensorMap /\ Arg(1) = tensorMap[Node.args[1]]
      /\ x = heap[Arg(1).at] /\ Reads(x, v) /\ x.cipher \in BOOLEAN
      /\ x.cipher <=> NodeOfResult(function, j) \in Ciphers
  BY <1>1, ResultArg
<1>3. Short(x) /\ x \in MapElements
  BY <1>2, TensorsNow DEF MapElements
<1>4. out.cipher \in BOOLEAN /\ (Mapped(j) \/ out.cipher = x.cipher)
  <2>1. CASE Mapped(j)
    BY <2>1 DEF ResultTensor, HeapInv, OutputsHeld
  <2>2. CASE ~Mapped(j)
    <3>1. out = Arg(1) /\ Element(1).cipher = Arg(1).cipher /\ Element(1).cipher \in BOOLEAN
      BY <1>1, <2>2, ResultArg DEF ResultTensor
    <3>2. QED BY <3>1
  <2>3. QED BY <2>1, <2>2
<1> HIDE DEF v
<1>5. CASE x.cipher = out.cipher
  <2>1. ResultOf(out) = <<x, x, x>>
    BY <1>5 DEF ResultOf
  <2>2. QED BY <2>1, TripleIsSome
<1>6. CASE x.cipher /\ ~out.cipher
  <2>1. ResultOf(out) = PlainResult(x, x, Decrypt(x.e))
    BY <1>2, <1>4, <1>6 DEF ResultOf
  <2>2. Decrypt(x.e) # Thrown
    BY <1>2, <1>6, DecryptedReads
  <2>3. PlainResult(x, x, Decrypt(x.e)) # Thrown
    <3> HIDE DEF x
    <3>1. QED BY <2>2, ResultsSome
  <2> HIDE DEF x
  <2>4. QED BY <2>1, <2>3
<1>7. CASE ~x.cipher /\ out.cipher
  <2> DEFINE o == heap[out.at].e
  <2>1. ResultOf(out) = Result(x, x, Encrypt(o, x.e))
    BY <1>2, <1>4, <1>7 DEF ResultOf
  <2>2. Fixed(j) /\ out = outputs[j]
    BY <1>2, <1>4, <1>7 DEF Fixed, ResultTensor
  <2>3. IsCipher(o)
    <3>1. o = heap[outputs[j].at].e /\ outputs[j].cipher
      BY <1>7, <2>2
    <3>2. QED BY <2>2, <3>1 DEF HeapInv, FixedAlone, IsTarget
  <2>4. FitsAt(x.e, Top)
    BY <1>3, <1>7 DEF CallNumbersFit, LevelsMet
  <2> HIDE DEF x, o, out
  <2>5. Encrypt(o, x.e) # Thrown
    BY <1>2, <1>3, <1>7, <2>3, <2>4, PlainEncrypted
  <2>6. Result(x, x, Encrypt(o, x.e)) # Thrown
    BY <2>5, ResultsSome
  <2>7. QED BY <2>1, <2>6 DEF out
<1>8. QED BY <1>2, <1>4, <1>5, <1>6, <1>7

\* A result.
LEMMA ResultCall ==
  ASSUME KnownDefects = FALSE, BatchSize = 1, StateInv, HeapInv, CallInv, CallNumbersFit, Result1
  PROVE  CallInv'
<1> DEFINE j == ResultIndex(Node)
           x == ResultOf(outputs[j])[3]
           out == ResultTensor(j)
<1>1. /\ at = "nodes" /\ failed = "no" /\ HasArgs /\ Node.op = "result" /\ SpentThen = Spent
      /\ j \in Results
  BY ArgumentsFound, NothingSpent, ResultNow DEF Result1, Running
<1>2. ResultOf(out) # Thrown
  BY <1>1, ResultSome
<1>3. CASE Fail("defect") \/ Fail("client")
  BY <1>3, StillCall DEF Fail
<1>4. CASE ~(Fail("defect") \/ Fail("client"))
  <2>1. /\ Advance(tensorMap)
        /\ \/ Keep(heap)
           \/ /\ ~(Arg(1).cipher /\ outputs[j].cipher)
              /\ Keep([heap EXCEPT ![outputs[j].at] = x])
    <3>1. /\ Advance(tensorMap)
          /\ IF ~Mapped(j) THEN UNCHANGED outputs /\ Keep(heap)
             ELSE IF Arg(1).cipher /\ out.cipher
             THEN outputs' = [outputs EXCEPT ![j] = Arg(1)] /\ Keep(heap)
             ELSE UNCHANGED outputs /\ Keep([heap EXCEPT ![out.at] = ResultOf(out)[3]])
      BY <1>1, <1>2, <1>4 DEF Result1
    <3>2. Mapped(j) => out = outputs[j]
      BY DEF ResultTensor
    <3> HIDE DEF out, j
    <3>3. QED BY <3>1, <3>2
  <2>2. /\ inputs' = inputs
        /\ \A k \in DOMAIN tensorMap' : k \in DOMAIN tensorMap /\ tensorMap'[k] = tensorMap[k]
    BY <2>1 DEF Advance, Freed
  <2>3. Made(heap, EmptyPlain)
    <3>1. CASE Keep(heap)
      <4>1. \A a \in Addresses : a \in Pointers(inputs', outputs', tensorMap') => heap'[a] = heap[a]
        BY <3>1 DEF Keep
      <4>2. QED BY <2>2, <4>1, KeptElements
    <3>2. CASE ~(Arg(1).cipher /\ outputs[j].cipher) /\ Keep([heap EXCEPT ![outputs[j].at] = x])
      <4> DEFINE h == [heap EXCEPT ![outputs[j].at] = x]
      <4>1. /\ Arg(1).cipher <=> NodeOfResult(function, j) \in Ciphers
            /\ outputs[j].cipher \in BOOLEAN
        BY <1>1, ResultArg DEF HeapInv, OutputsHeld
      <4>2. Fixed(j)
        BY <3>2, <4>1 DEF Fixed
      <4>3. outputs[j].at = Own(j) /\ \A k \in DOMAIN tensorMap : tensorMap[k].at # Own(j)
        BY <1>1, <4>2 DEF HeapInv, FixedAlone
      <4>4. \A i \in Parameters : inputs[i].at # Own(j)
        BY <1>1, InputsApart
      <4>5. \A a \in Addresses : a \in Pointers(inputs', outputs', tensorMap') => heap'[a] = h[a]
        BY <3>2 DEF Keep
      <4>6. \A a \in Addresses : a # Own(j) => h[a] = heap[a]
        BY <4>3 DEF StateInv
      <4> HIDE DEF h, j
      <4>7. /\ \A k \in DOMAIN tensorMap : h[tensorMap[k].at] = heap[tensorMap[k].at]
            /\ \A i \in Parameters : h[inputs[i].at] = heap[inputs[i].at]
        BY <4>3, <4>4, <4>6 DEF HeapInv, MapStands, InputsStand, Stands
      <4>8. QED BY <2>2, <4>5, <4>7, KeptElements
    <3>3. QED BY <2>1, <3>1, <3>2
  <2>4. QED BY <1>1, <2>1, <2>3, TensorsNow, EmptyShort, NodeDone
<1>5. QED BY <1>3, <1>4

\* What the caller has written at first has all its levels.
LEMMA InitCall == KnownDefects = FALSE /\ BatchSize = 1 /\ Init => CallInv
<1> SUFFICES ASSUME KnownDefects = FALSE, BatchSize = 1, Init PROVE CallInv OBVIOUS
<1>1. StateInv /\ HeapInv
  BY InitRight DEF RightInv
<1>2. DOMAIN tensorMap = {} /\ at = "idle" /\ failed = "no"
  BY DEF Init
<1>3. ASSUME NEW i \in Parameters PROVE Short(heap[inputs[i].at]) /\ Low(heap[inputs[i].at], 0)
  <2> DEFINE p == Plain(<<written[i]>>, FALSE)
             c == Encrypt(NewCipher, p)
             s == ClientInput(written[i])
  <2>1. /\ inputs[i].at = i /\ i \in Addresses /\ inputs[i].cipher \in BOOLEAN
        /\ written[i] \in Numbers
    BY <1>1 DEF StateInv, HeapInv, InputsStand, Stands
  <2>2. heap[i] = IF config.enableClient THEN s ELSE Write1(Empty(inputs[i].cipher), written[i])
    BY <2>1 DEF Init
  <2>3. heap[i] \in {s, Cipher(c), PlainOf(p)}
    <3>1. Write1(Empty(inputs[i].cipher), written[i]) \in {Cipher(c), PlainOf(p)}
      BY <2>1 DEF Write1, Empty, EmptyCipher, EmptyPlain, Cipher, PlainOf
    <3> HIDE DEF c, p, s
    <3>2. QED BY <2>2, <3>1
  <2>4. Encode(p) # Thrown
    BY <2>1, NumbersAssumption
  <2>5. Short(PlainOf(p)) /\ Low(PlainOf(p), 0)
    <3>1. Len(<<written[i]>>) = 1 /\ 1 <= Slots
      BY SizesType
    <3>2. QED BY <3>1 DEF Short, Low, PlainOf, Plain
  <2> HIDE DEF p
  <2>6. Short(Cipher(c)) /\ Low(Cipher(c), 0)
    <3>1. c # Thrown
      BY <2>4, NewIsCipher, EncodedCipher, CipherIsSome
    <3>2. Low(Cipher(c), 0)
      BY <3>1, NewIsTarget, EncryptLow
    <3>3. QED BY <3>2 DEF Short, Cipher
  <2> HIDE DEF c
  <2>7. Short(s) /\ Low(s, 0)
    <3>1. written[i] \in Int /\ Encode(Plain(<<written[i]>>, FALSE)) # Thrown
      BY <2>1, NumbersAssumption
    <3>2. Sound(s, <<written[i]>>, 0) /\ s.cipher = TRUE
      BY <3>1, ClientInputReads
    <3> HIDE DEF s
    <3>3. QED BY <3>2, SoundLow, 0 \in Nat DEF Short
  <2> HIDE DEF s
  <2>8. QED BY <2>1, <2>3, <2>5, <2>6, <2>7
<1>4. QED BY <1>2, <1>3 DEF CallInv, ShortInv, FreshInv, LevelInv, FreshCallsSucceed

\* Every step.
LEMMA NextCall ==
  ASSUME KnownDefects = FALSE, EqualPrimes, BatchSize = 1, EnoughLevels,
         RightInv, CallNumbersFit, CallInv, [Next]_vars
  PROVE  CallInv'
<1>1. StateInv /\ HeapInv
  BY DEF RightInv
<1>2. CASE \E i \in Parameters, v \in Numbers : Write(i, v)
  BY <1>1, <1>2, WriteCall
<1>3. CASE Call
  BY <1>1, <1>3, CallCall
<1>4. CASE \E i \in Parameters : MapParameter(i)
  BY <1>1, <1>4, MapParameterCall
<1>5. CASE Begin
  BY <1>1, <1>5, BeginCall
<1>6. CASE SkipParameter
  BY <1>1, <1>6, SkipParameterCall
<1>7. CASE Compute
  BY <1>1, <1>7, ComputeCall
<1>8. CASE Reshape
  BY <1>1, <1>8, ReshapeCall
<1>9. CASE Result1
  BY <1>1, <1>9, ResultCall
<1>10. CASE Return
  BY <1>1, <1>10, ReturnCall
<1>11. CASE UNCHANGED vars
  <2>1. /\ UNCHANGED <<configVars, heap, callerVars, callVars>> /\ failed' = failed
    BY <1>11 DEF vars
  <2>2. failed' = "threw" => ~Fresh
    BY <2>1 DEF CallInv, FreshCallsSucceed, Fresh
  <2>3. QED BY <2>1, <2>2, StillCall
<1>12. QED
  BY <1>2, <1>3, <1>4, <1>5, <1>6, <1>7, <1>8, <1>9, <1>10, <1>11 DEF Next, Finished

\* With a level for each multiplication of a graph and room for the numbers that are
\* met, no call on inputs that have all been written since a call used them throws, and
\* with m_encrypt_data none ever does: no argument is missing in tensor_map, operands
\* are brought to one level and scale however they share ciphertexts and are lowered in
\* place, and each result can be given to the tensor that its caller has for it. Only a
\* call on ciphertexts that an earlier one has used can throw: it has taken levels of
\* them and call() does not give them back (he_seal_executable.cpp, call). With a client
\* this says that the first call succeeds, zeros in its inputs included, unless the graph
\* adds ciphertexts that are marked differently (MarkedDifferently, add_seal.cpp:34),
\* which is among the known defects.
THEOREM FreshCallsSucceedThm ==
  KnownDefects = FALSE /\ EqualPrimes /\ BatchSize = 1 /\ EnoughLevels
    => (Spec /\ []CallNumbersFit => []FreshCallsSucceed)
<1> SUFFICES ASSUME KnownDefects = FALSE, EqualPrimes, BatchSize = 1, EnoughLevels
             PROVE  Spec /\ []CallNumbersFit => []FreshCallsSucceed
  OBVIOUS
<1>1. Init => RightInv /\ CallInv
  BY InitRight, InitCall
<1>2. RightInv /\ [Next]_vars => RightInv'
  BY NextRight
<1>3. RightInv /\ CallNumbersFit /\ CallInv /\ [Next]_vars => CallInv'
  BY NextCall
<1>4. CallInv => FreshCallsSucceed
  BY DEF CallInv
<1>5. QED BY <1>1, <1>2, <1>3, <1>4, PTL DEF Spec
=============================================================================
