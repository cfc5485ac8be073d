------------------------------ MODULE PayloadPaths ------------------------------
(***************************************************************************)
(* The nodes of a stored payload, addressed by paths                       *)
(* (prog-core/src/pointer.rs).  A tree is gone through level by level.     *)
(***************************************************************************)
EXTENDS Payloads

CONSTANTS
    Nodes,      \* the nodes of stored payloads, and of what is selected of them
    Deepest     \* bound: the levels of a payload (serde_json reads 128)

Pointers == Seq(STRING)

(* What is below a node is a node, under a key of its own.                   *)
IsClosed(nodes) ==
    \A n \in nodes :
        /\ Children(n) \in Seq(STRING \X nodes)
        /\ \A i, j \in DOMAIN Children(n) : Children(n)[i][1] = Children(n)[j][1] => i = j

ASSUME NodesAssumption ==
    /\ IsClosed(Nodes)
    /\ \A n \in Nodes : n.type = "string" => n.lines \in Seq(SUBSET STRING)
ASSUME PathsAssumption == Deepest \in Nat

(* pointer::get: the node at a path, or none.                                *)
NodesAt(node, path) ==
    LET named(n, key) == {Children(n)[i][2] :
                             i \in {j \in DOMAIN Children(n) : Children(n)[j][1] = key}}
        at[i \in 0 .. Len(path)] ==
            IF i = 0 THEN {node} ELSE UNION {named(n, path[i]) : n \in at[i - 1]}
    IN  at[Len(path)]

(* pointer::is_within, by segments.                                          *)
IsWithin(boundary, path) == IsPrefix(boundary, path)

(* All the paths of a tree, a level of places below the other.               *)
Place(node, path) == [node |-> node, path |-> path]

PlacesBelow(place) ==
    {Place(Children(place.node)[i][2], Append(place.path, Children(place.node)[i][1])) :
        i \in DOMAIN Children(place.node)}

Level(node, path, d) ==
    LET level[n \in Nat] == IF n = 0 THEN {Place(node, path)}
                            ELSE UNION {PlacesBelow(place) : place \in level[n - 1]}
    IN  level[d]

PlacesOf(node, path) == UNION {Level(node, path, d) : d \in 0 .. Deepest}

PathsOf(node, path) == {place.path : place \in PlacesOf(node, path)}
=============================================================================
