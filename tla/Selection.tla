------------------------------- MODULE Selection -------------------------------
(***************************************************************************)
(* What of a stored payload is projected: the node at the path of a slice, *)
(* with the fields asked for (slice_value and select_fields of             *)
(* prog-core/src/disclosure.rs), or the view a lens makes of it (lens.rs). *)
(***************************************************************************)
EXTENDS Disclosure

(* select_fields: of an object, and of the objects of an array.              *)
RECURSIVE SelectFields(_, _, _)
SelectFields(node, fields, omit) ==
    LET kept(field) == (fields = {} \/ field[1] \in fields) /\ field[1] \notin omit
    IN  CASE node.type = "object" ->
                Object(node.format, node.lineCount, SelectSeq(node.fields, kept))
          [] node.type = "array" ->
                Array([i \in DOMAIN node.items |->
                          SelectFields(node.items[i], fields, omit)])
          [] OTHER -> node

Selected(document, slice) ==
    SelectFields(CHOOSE n \in NodesAt(document, TargetOf(slice)) : TRUE,
                 slice.fields, slice.omit)

(* select_segments: the value of a selector, where "*" collects an array.    *)
RECURSIVE PickAt(_, _)
PickAt(node, path) ==
    IF path = <<>> THEN <<node>>
    ELSE LET below == [i \in DOMAIN Children(node) |-> PickAt(Children(node)[i][2], Tail(path))]
             named == SelectSeq(Children(node), LAMBDA child : child[1] = Head(path))
         IN  IF Head(path) # "*" THEN IF named = <<>> THEN <<>> ELSE PickAt(named[1][2], Tail(path))
             ELSE IF node.type \in {"array", "object"}
             THEN <<Array(FoldLeft(LAMBDA all, some : all \o some, <<>>, below))>>
             ELSE <<>>

(* select_fields_with_pointers: an object of a view has the names of the     *)
(* view, with what its selectors find.                                       *)
ViewObject(node, view) ==
    LET picks == [i \in DOMAIN view.fields |-> PickAt(node, view.fields[i][2])]
        found == SelectSeq([i \in DOMAIN picks |-> <<view.fields[i][1], picks[i]>>],
                           LAMBDA field : field[2] # <<>>)
    IN  Record([i \in DOMAIN found |-> <<found[i][1], found[i][2][1]>>])

Viewed(node, view) ==
    IF node.type = "array"
    THEN Array([i \in DOMAIN node.items |-> ViewObject(node.items[i], view)])
    ELSE ViewObject(node, view)

(* project_with_lens *)
Subject(what) ==
    IF what.view = NoView \/ what.view.fields = <<>> THEN Selected(what.document, what.slice)
    ELSE Viewed(CHOOSE n \in NodesAt(what.document, TargetOf(what.slice)) : TRUE, what.view)

(* A question with the view of a lens is a call's: its cursor is rooted at   *)
(* the path it asks for.                                                     *)
SelectionsFrom(documents, slices, views) ==
    {s \in [document : documents, slice : slices, view : views] :
        /\ Answerable(s.document, s.slice)
        /\ s.view # NoView => s.slice.root = TargetOf(s.slice)}
=============================================================================
