--------------------------- MODULE OneTimePrekeys ---------------------------
(***************************************************************************)
(* The one-time prekeys of PrekeyManager.cpp: a queue in the vault.  Keys  *)
(* are numbered in the order in which they are made.                       *)
(***************************************************************************)
EXTENDS VaultFile

CONSTANT MaxPrekeys  \* bound: one-time prekeys ever made, and ever handed out

ASSUME PrekeysAssumption == MaxPrekeys \in Nat

VARIABLES published, \* history: keys made, whose public halves were answered
          handed     \* history: the private halves handed out, in order

prekeyHistory == <<published, handed>>

PrekeysInit == published = 0 /\ handed = <<>>

Numbered(from, to) == [i \in 1..(to - from) |-> from + i]

\* publishOneTimePrekeys: the public halves are answered, saved or not.
Publish(count, saved) ==
  /\ count \in Nat \ {0} /\ published + count <= MaxPrekeys
  /\ StoreSecret([secrets EXCEPT !.prekeys = @ \o Numbered(published, published + count)], saved)
  /\ published' = published + count
  /\ UNCHANGED handed

\* Mutant: the queue without the key is not stored.
ConsumeOnly(saved) == /\ secrets.prekeys # <<>> /\ Len(handed) < MaxPrekeys
                      /\ handed' = Append(handed, Head(secrets.prekeys))
                      /\ UNCHANGED <<vault, published>>

\* consumeOneTimePrekey: the first key is handed out, saved or not.
Consume(saved) == /\ secrets.prekeys # <<>> /\ Len(handed) < MaxPrekeys
                  /\ StoreSecret([secrets EXCEPT !.prekeys = Tail(@)], saved)
                  /\ handed' = Append(handed, Head(secrets.prekeys))
                  /\ UNCHANGED published
=============================================================================
