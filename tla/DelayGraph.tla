------------------------------- MODULE DelayGraph -------------------------------
(***************************************************************************)
(* The graphs of jobs of delay.py: delayables, chains and groups of them,   *)
(* connected by on_done, and the graph of delayables alone that delay()     *)
(* makes of them.  An object is the number of its record in a sequence.     *)
(***************************************************************************)
EXTENDS Naturals, SequencesExt, FiniteSetsExt

\* A delayable is the vertex of its own graph; a chain links its items one
\* after the other, a group has them as vertices.  History: what on_done has
\* been given.
Object(kind, items, edges) == [kind |-> kind, items |-> items, edges |-> edges, then |-> {}]
Delayable(id) == Object("delayable", <<id>>, {})
Pairs(items) == {<<items[i], items[i + 1]>> : i \in 1..(Len(items) - 1)}
Chain(items) == Object("chain", items, Pairs(items))
Group(items) == Object("group", items, {})

\* ... from each member of a group, and from a delayable itself.
Parents(o) == ToSet(o.items)

\* Mutant: on_done from the last item, of groups also.
OnDoneLast(objects, x, Y) ==
    [objects EXCEPT ![x].edges = @ \cup ({Last(objects[x].items)} \X Y), ![x].then = @ \cup Y]

\* on_done: from the last item of a chain, ...
OnDone(objects, x, Y) ==
    LET parents == IF objects[x].kind = "chain" THEN {Last(objects[x].items)} ELSE Parents(objects[x])
    IN [objects EXCEPT ![x].edges = @ \cup (parents \X Y), ![x].then = @ \cup Y]

\* The vertices of the graph of an object.
Vertices(o) == ToSet(o.items) \cup UNION {{e[1], e[2]} : e \in o.edges}

\* _head and _tail: the delayables at the ends of an object, those of the
\* first and last items of a chain being taken at their other end.
Ends(objects) ==
    LET ends[x \in DOMAIN objects] ==
            LET o == objects[x]
            IN IF o.kind = "delayable" THEN [head |-> {x}, tail |-> {x}]
               ELSE IF o.kind = "chain"
               THEN [head |-> ends[Head(o.items)].tail, tail |-> ends[Last(o.items)].head]
               ELSE [head |-> UNION {ends[i].head : i \in ToSet(o.items)},
                     tail |-> UNION {ends[i].tail : i \in ToSet(o.items)}]
    IN ends

\* The objects whose graphs _connect_graphs visits from x.
Visited(objects, x) ==
    LET reach[n \in Nat] ==
            IF n = 0 THEN {x} ELSE reach[n - 1] \cup UNION {Vertices(objects[y]) : y \in reach[n - 1]}
    IN reach[Len(objects)]

\* _merge_graph for all of them: the edges between the delayables at the ends.
Links(objects, ends, x) ==
    UNION {UNION {ends[e[1]].tail \X ends[e[2]].head : e \in objects[y].edges} :
                y \in Visited(objects, x)}

\* _connect_graphs: the delayables to make jobs of, each in its own graph.
Members(objects, x) == {v \in Visited(objects, x) : objects[v].kind = "delayable"}

\* What the documentation says: a chain begins with its first item and ends with
\* its last, and what is given to on_done begins when the whole object has ended.
DocumentedEnds(objects) ==
    LET ends[x \in DOMAIN objects] ==
            LET o == objects[x]
            IN IF o.kind = "delayable" THEN [head |-> {x}, tail |-> {x}]
               ELSE IF o.kind = "chain"
               THEN [head |-> ends[Head(o.items)].head, tail |-> ends[Last(o.items)].tail]
               ELSE [head |-> UNION {ends[i].head : i \in ToSet(o.items)},
                     tail |-> UNION {ends[i].tail : i \in ToSet(o.items)}]
    IN ends

DocumentedLinks(objects, x) ==
    LET ends == DocumentedEnds(objects)
        after(y) == {<<y, z>> : z \in objects[y].then}
                    \cup (IF objects[y].kind = "chain" THEN Pairs(objects[y].items) ELSE {})
    IN UNION {UNION {ends[e[1]].tail \X ends[e[2]].head : e \in after(y)} : y \in Visited(objects, x)}

-----------------------------------------------------------------------------
(* Graph. *)

Successors(edges, v) == {e[2] : e \in {d \in edges : d[1] = v}}

RootVertices(vertices, edges) == vertices \ {e[2] : e \in edges}

\* Mutant: a vertex is queued when the first of its dependencies is yielded.
SortBreadthFirst(vertices, edges) ==
    LET Yield(state) ==
            LET v == Head(state.queue)
                next == Successors(edges, v)
                left == [w \in vertices |-> state.left[w] - (IF w \in next THEN 1 ELSE 0)]
            IN [queue |-> Tail(state.queue) \o SetToSeq({w \in next : left[w] + 1 = Cardinality({e \in edges : e[2] = w})}),
                left |-> left,
                order |-> Append(state.order, v)]
        first == [queue |-> SetToSeq(RootVertices(vertices, edges)),
                  left |-> [v \in vertices |-> Cardinality({e \in edges : e[2] = v})],
                  order |-> << >>]
        steps[n \in Nat] == IF n = 0 THEN first
                            ELSE IF steps[n - 1].queue = << >> THEN steps[n - 1]
                            ELSE Yield(steps[n - 1])
    IN steps[Cardinality(vertices)].order

\* topological_sort, in one of the orders a set may be walked in: a vertex is
\* queued when the last of its dependencies is yielded.
TopologicalSort(vertices, edges) ==
    LET Yield(state) ==
            LET v == Head(state.queue)
                next == Successors(edges, v)
                left == [w \in vertices |-> state.left[w] - (IF w \in next THEN 1 ELSE 0)]
            IN [queue |-> Tail(state.queue) \o SetToSeq({w \in next : left[w] = 0}),
                left |-> left,
                order |-> Append(state.order, v)]
        first == [queue |-> SetToSeq(RootVertices(vertices, edges)),
                  left |-> [v \in vertices |-> Cardinality({e \in edges : e[2] = v})],
                  order |-> << >>]
        steps[n \in Nat] == IF n = 0 THEN first
                            ELSE IF steps[n - 1].queue = << >> THEN steps[n - 1]
                            ELSE Yield(steps[n - 1])
    IN steps[Cardinality(vertices)].order

\* Whether a graph has no cycle: taking roots away empties it.
Acyclic(vertices, edges) ==
    LET rest[n \in Nat] ==
            IF n = 0 THEN vertices
            ELSE {v \in rest[n - 1] : \E u \in rest[n - 1] : <<u, v>> \in edges}
    IN rest[Cardinality(vertices)] = {}
=============================================================================
