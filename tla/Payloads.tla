------------------------------- MODULE Payloads -------------------------------
(***************************************************************************)
(* Stored payloads as trees.  Coverage reads them record by record, and,   *)
(* by paths (PayloadPaths), Findings, Disclosure and Navigation.           *)
(*                                                                         *)
(* Of a string the model keeps, line by line, which markers it contains;   *)
(* an object has its fields as pairs, in the order of their keys, and      *)
(* "format" and "lineCount" are the scalars a normalizer writes into it.   *)
(***************************************************************************)
EXTENDS Naturals, Sequences, FiniteSets, SequencesExt

CONSTANT IndexName  \* the segment of a path for each position: its digits

Scalar == [type |-> "scalar"]
String(lines) == [type |-> "string", lines |-> lines]
Array(items) == [type |-> "array", items |-> items]
Object(format, lineCount, fields) ==
    [type |-> "object", format |-> format, lineCount |-> lineCount, fields |-> fields]
Record(fields) == Object("other", 0, fields)

HasField(node, key) ==
    node.type = "object" /\ \E i \in DOMAIN node.fields : node.fields[i][1] = key
FieldOf(node, key) == SelectSeq(node.fields, LAMBDA field : field[1] = key)[1][2]

Children(node) ==
    CASE node.type = "array" ->
            [i \in DOMAIN node.items |-> <<IndexName[i], node.items[i]>>]
      [] node.type = "object" -> node.fields
      [] OTHER -> <<>>
=============================================================================
