---- MODULE MCSessionLifecycle ----
(***************************************************************************)
(* A session shared by a few goroutines, on an appliance whose only L3V    *)
(* partition has ID 3.                                                     *)
(***************************************************************************)
EXTENDS SessionLifecycle

(* Its name is spelled like a number, but not like its own ID.             *)
NumberedPartition == [i \in {3} |-> "number"]

(* 0 is no ID, 4 an ID nobody has, and 9 is beyond the IDs.                *)
MCSpelling == [n \in {0, 3, 4, 9} |-> IF n = 3 THEN "unknown" ELSE "number"]

(* Not configured, by name (known or not), by ID (known or not), and by    *)
(* digits of every kind.                                                   *)
AnyPartition ==
    {[by |-> "none"]} \cup {[by |-> "name", name |-> n] : n \in Partitions}
        \cup {[by |-> "id", id |-> i] : i \in {3, 4}}
        \cup {[by |-> "digits", id |-> i] : i \in {0, 3, 4, 9}}
====
