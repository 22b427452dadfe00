---- MODULE MCTemplateDocument ----
(* Instances of TemplateDocument. *)
EXTENDS TemplateDocument

CONSTANTS n1, n2, n3, n4, none

MCNames == {n1, n2, n3, n4}
MCMarks == {"u1", "u2"}

Pair(n, chain, shared) == [cert |-> n, key |-> n, chain |-> chain, shared |-> shared]

(* Two certificates, one of them with and without the shared flag. *)
MCEntries == {Pair(n1, none, FALSE), Pair(n1, none, TRUE), Pair(n2, n4, FALSE)}

MCStyles ==
    {[mark |-> "u1", flags |-> "number"], [mark |-> "u2", flags |-> "omitted"],
     [mark |-> "u1", flags |-> "boolean"], [mark |-> "u1", flags |-> "text"]}

Unused == [p \in Places |-> none]

(* No place, or one of them, refers to a file. *)
OneUse == {[Unused EXCEPT ![p] = n] : p \in Places, n \in {none, n3}}
====
