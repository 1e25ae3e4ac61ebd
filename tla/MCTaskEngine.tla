----------------------------- MODULE MCTaskEngine -----------------------------
(* Instances of TaskEngine for TLC. *)
EXTENDS TaskEngine

MCSpec(ids, deps, aggregators, llm, critical, isolated) ==
    [ids |-> ids, unresolved |-> {}, deps |-> deps, aggregators |-> aggregators,
     llm |-> llm, critical |-> critical, isolated |-> isolated]

Plain(ids, deps) == MCSpec(ids, deps, {}, {}, {}, {})

Graph == [Nodes -> SUBSET Nodes]
NoDeps == [n \in Nodes |-> {}]

\* Every graph on three nodes that has a cycle, in two listings; a node listed
\* twice, and one that depends on a node that is not listed.
InvalidSpecs ==
    {Plain(ids, g) : ids \in {<<1, 2, 3>>, <<3, 1, 2>>}, g \in {h \in Graph : ~Acyclic(h)}}
    \cup {Plain(<<1, 2, 3, 1>>, NoDeps)}
    \cup {[Plain(<<1, 2, 3>>, NoDeps) EXCEPT !.unresolved = {2}]}

\* Every shape of an acyclic graph on three nodes, with ids and listings that do
\* not follow the dependency order, and with aggregation, direct_llm, critical and
\* isolated nodes.
Chain == [NoDeps EXCEPT ![1] = {3}, ![2] = {1}]
Join == [NoDeps EXCEPT ![1] = {2, 3}]
Fork == [NoDeps EXCEPT ![2] = {3}, ![1] = {3}]
Edge == [NoDeps EXCEPT ![1] = {2}]
Triangle == [NoDeps EXCEPT ![1] = {2, 3}, ![2] = {3}]

MCSpecs ==
    {MCSpec(<<1, 2, 3>>, NoDeps, {}, {}, {2}, {1}),
     MCSpec(<<1, 2, 3>>, Chain, {2}, {}, {}, {3}),
     MCSpec(<<2, 3, 1>>, Join, {1}, {}, {}, {2}),
     MCSpec(<<1, 3, 2>>, Join, {}, {1}, {3}, {}),
     MCSpec(<<3, 2, 1>>, Fork, {}, {2}, {1}, {2}),
     MCSpec(<<1, 3, 2>>, Edge, {}, {}, {2}, {}),
     MCSpec(<<1, 2, 3>>, Triangle, {2}, {}, {}, {3})} \cup InvalidSpecs

\* A failed node, a chain of two behind it, and a node that completes.
Behind == [NoDeps EXCEPT ![2] = {1}, ![3] = {2}]
TailSpecs == {MCSpec(<<1, 2, 3>>, Behind, {}, {}, {}, {1})}

===============================================================================
