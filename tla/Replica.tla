------------------------------ MODULE Replica ------------------------------
(***************************************************************************)
(* What pulling a collection promises of the table it fills, whatever the  *)
(* pulls do: a row is a record as the source has had it, and it is only    *)
(* ever replaced by a later one.                                           *)
(***************************************************************************)
EXTENDS Naturals

CONSTANT Key

VARIABLES source,  \* per key the record as it is
          had,     \* per key the records it has been
          copy     \* per key the record that is kept

vars == <<source, had, copy>>

Absent == [version |-> 0, deleted |-> FALSE]

Init == /\ source = [k \in Key |-> Absent]
        /\ had = [k \in Key |-> {Absent}]
        /\ copy = [k \in Key |-> Absent]

Change(k, deleted) ==
  LET record == [version |-> source[k].version + 1, deleted |-> deleted]
  IN  /\ source' = [source EXCEPT ![k] = record]
      /\ had' = [had EXCEPT ![k] = @ \cup {record}]
      /\ UNCHANGED copy

\* One key at a time, and not always as far as the source has come.
Follow(k) == /\ \E record \in had[k] : /\ record.version >= copy[k].version
                                       /\ copy' = [copy EXCEPT ![k] = record]
             /\ UNCHANGED <<source, had>>

Next == \E k \in Key : Follow(k) \/ \E deleted \in BOOLEAN : Change(k, deleted)

Spec == Init /\ [][Next]_vars
=============================================================================
