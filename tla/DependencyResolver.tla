-------------------------- MODULE DependencyResolver --------------------------
(***************************************************************************)
(* The dependency resolver of the queue package                            *)
(* (packages/queue/src/dependency-resolver.ts): a depth-first search for a *)
(* cycle, then Kahn's algorithm, with a step for each round of a loop.     *)
(* Node i is the i-th one given, with the list of the names it depends on; *)
(* a name above the number of nodes is of no node.  Names do not repeat.   *)
(***************************************************************************)
EXTENDS Naturals, FiniteSets, Sequences, SequencesExt

CONSTANTS MaxNodes, MaxDependencies

ASSUME ResolverAssumption == MaxNodes \in Nat \ {0} /\ MaxDependencies \in Nat

VARIABLES
  nodes,    \* the dependencies of each node
  step,     \* where resolve() is
  root,     \* the nodes detectCycle() has begun with or passed over
  visited,
  frames,   \* the calls of dfs() under way: node and next dependency
  parent,   \* 0 for a name that was not reached from another
  path,     \* the cycle, as it is put together
  told,     \* the nodes the running loop of resolve() is past
  degree,
  line,     \* all that entered the queue,
  taken     \* and how much of it went on to the result

searchVars == <<root, visited, frames, parent>>
sortVars == <<told, degree, line, taken>>
resolverVars == <<nodes, step, searchVars, path, sortVars>>

NodeNames == 1 .. MaxNodes + 1
Lists == UNION {[1 .. k -> NodeNames] : k \in 0 .. MaxDependencies}
Frame == [node : NodeNames, next : 1 .. MaxDependencies + 1]

ResolverTypeOK ==
  /\ nodes \in Seq(Lists) /\ Len(nodes) <= MaxNodes
  /\ step \in {"building", "searching", "tracing", "threw",
               "queueing", "sorting", "telling", "returned"}
  /\ root \in 0 .. Len(nodes) /\ visited \subseteq NodeNames /\ frames \in Seq(Frame)
  /\ parent \in [NodeNames -> NodeNames \cup {0}] /\ path \in Seq(NodeNames)
  /\ told \in 0 .. Len(nodes) /\ degree \in [NodeNames -> Nat]
  /\ line \in Seq(1 .. Len(nodes)) /\ taken \in 0 .. Len(line)

ResolverInit ==
  /\ nodes = <<>> /\ step = "building"
  /\ root = 0 /\ visited = {} /\ frames = <<>> /\ parent = [n \in NodeNames |-> 0] /\ path = <<>>
  /\ told = 0 /\ degree = [n \in NodeNames |-> 0] /\ line = <<>> /\ taken = 0

Dependencies(graph, n) == IF n \in DOMAIN graph THEN graph[n] ELSE <<>>
Needs(graph, n) == {Dependencies(graph, n)[k] : k \in DOMAIN Dependencies(graph, n)}

AddNode(list) ==
  /\ step = "building" /\ Len(nodes) < MaxNodes
  /\ nodes' = Append(nodes, list)
  /\ UNCHANGED <<step, searchVars, path, sortVars>>

Resolve ==
  /\ step = "building" /\ step' = "searching"
  /\ UNCHANGED <<nodes, searchVars, path, sortVars>>

-----------------------------------------------------------------------------
(* detectCycle() and dfs(): whatever is in inStack is a call under way.    *)

Top == frames[Len(frames)]
InStack == {frames[i].node : i \in DOMAIN frames}
Call(n) == [node |-> n, next |-> 1]
Onward == [frames EXCEPT ![Len(frames)].next = @ + 1]

NextRoot ==
  /\ step = "searching" /\ frames = <<>> /\ root < Len(nodes)
  /\ root' = root + 1
  /\ visited' = visited \cup {root + 1}
  /\ frames' = IF root + 1 \in visited THEN <<>> ELSE <<Call(root + 1)>>
  /\ UNCHANGED <<nodes, step, parent, path, sortVars>>

Follow ==
  /\ step = "searching" /\ frames # <<>> /\ Top.next <= Len(Dependencies(nodes, Top.node))
  /\ LET d == Dependencies(nodes, Top.node)[Top.next] IN
     \/ /\ d \notin visited
        /\ visited' = visited \cup {d} /\ parent' = [parent EXCEPT ![d] = Top.node]
        /\ frames' = Append(Onward, Call(d))
        /\ UNCHANGED <<step, path>>
     \/ /\ d \in visited \ InStack
        /\ frames' = Onward
        /\ UNCHANGED <<step, visited, parent, path>>
     \/ /\ d \in visited \cap InStack
        /\ step' = "tracing" /\ path' = <<d, Top.node>>
        /\ UNCHANGED <<visited, frames, parent>>
  /\ UNCHANGED <<nodes, root, sortVars>>

Leave ==
  /\ step = "searching" /\ frames # <<>> /\ Top.next > Len(Dependencies(nodes, Top.node))
  /\ frames' = SubSeq(frames, 1, Len(frames) - 1)
  /\ UNCHANGED <<nodes, step, root, visited, parent, path, sortVars>>

\* The way back from the node whose dependency closes the cycle, against the
\* direction of the search.
Trace ==
  LET current == path[Len(path)] IN
  /\ step = "tracing"
  /\ IF current = path[1] \/ parent[current] \in {0, path[1]}
       THEN step' = "threw" /\ path' = Reverse(path)
       ELSE step' = step /\ path' = Append(path, parent[current])
  /\ UNCHANGED <<nodes, searchVars, sortVars>>

-----------------------------------------------------------------------------
(* The rest of resolve().                                                  *)

BeginSort ==
  /\ step = "searching" /\ frames = <<>> /\ root = Len(nodes)
  /\ degree' = [n \in NodeNames |-> Len(Dependencies(nodes, n))]
  /\ step' = "queueing"
  /\ UNCHANGED <<nodes, searchVars, path, told, line, taken>>

Queue ==
  /\ step = "queueing"
  /\ IF told = Len(nodes)
       THEN step' = "sorting" /\ UNCHANGED <<told, line>>
       ELSE /\ told' = told + 1 /\ step' = step
            /\ line' = IF degree[told + 1] = 0 THEN Append(line, told + 1) ELSE line
  /\ UNCHANGED <<nodes, searchVars, path, degree, taken>>

Take ==
  /\ step = "sorting" /\ taken < Len(line)
  /\ taken' = taken + 1 /\ told' = 0 /\ step' = "telling"
  /\ UNCHANGED <<nodes, searchVars, path, degree, line>>

\* Mistake: a node is told once.
TimesOnce(list, n) == IF \E k \in DOMAIN list : list[k] = n THEN 1 ELSE 0

\* How often a node asks for n.
Times(list, n) == Cardinality({k \in DOMAIN list : list[k] = n})

\* The next node is told of the one just taken, as often as it asks for it.
Tell ==
  LET m == told + 1
      still == degree[m] - Times(nodes[m], line[taken])
  IN
  /\ step = "telling"
  /\ IF told = Len(nodes)
       THEN step' = "sorting" /\ UNCHANGED <<told, degree, line>>
       ELSE /\ told' = m /\ step' = step
            /\ degree' = [degree EXCEPT ![m] = still]
            /\ line' = IF still = 0 /\ still # degree[m] THEN Append(line, m) ELSE line
  /\ UNCHANGED <<nodes, searchVars, path, taken>>

Return ==
  /\ step = "sorting" /\ taken = Len(line) /\ step' = "returned"
  /\ UNCHANGED <<nodes, searchVars, path, sortVars>>

-----------------------------------------------------------------------------

ResolverNext ==
  \/ \E list \in Lists : AddNode(list)
  \/ Resolve \/ NextRoot \/ Follow \/ Leave \/ Trace
  \/ BeginSort \/ Queue \/ Take \/ Tell \/ Return

ResolverSpec == ResolverInit /\ [][ResolverNext]_resolverVars

-----------------------------------------------------------------------------

\* The names a node reaches through dependencies of any length.
Closed(graph, S) == \A n \in S : Needs(graph, n) \subseteq S
Reached(graph, n) ==
  {m \in NodeNames :
     \A S \in SUBSET NodeNames : Needs(graph, n) \subseteq S /\ Closed(graph, S) => m \in S}

\* The search reports a cycle exactly when there is one, and the path it
\* names is one.  Otherwise every node that needs known nodes only stands in
\* the order once and after what it needs, and the others are left out
\* without a word (dependency-resolver.ts:51-66).
OrderIsRight ==
  LET onCycle == {n \in DOMAIN nodes : n \in Reached(nodes, n)}
      whole == {n \in DOMAIN nodes : Reached(nodes, n) \subseteq DOMAIN nodes}
  IN
  /\ step = "threw" =>
       /\ onCycle # {} /\ path # <<>>
       /\ \A k \in DOMAIN path : path[(k % Len(path)) + 1] \in Needs(nodes, path[k])
  /\ step = "returned" =>
       /\ onCycle = {} /\ ToSet(line) = whole
       /\ \A k, l \in DOMAIN line : line[l] \in {line[k]} \cup Reached(nodes, line[k]) => l <= k
===============================================================================
