----------------------------- MODULE SenderKeys -----------------------------
(***************************************************************************)
(* SenderKeyManager.cpp: the sender keys of the epochs of a conversation,  *)
(* made here or imported, in memory only.  Conversations do not touch each *)
(* other; this is one of them.                                             *)
(***************************************************************************)
EXTENDS Naturals

CONSTANT MaxEpoch  \* bound: the highest epoch (an int in the code)

ASSUME EpochAssumption == MaxEpoch \in Nat

VARIABLES epoch, \* currentEpoch
          keys   \* whose key is kept for an epoch

senderKeys == <<epoch, keys>>

SenderKeysInit == epoch = 0 /\ keys = [e \in 1..MaxEpoch |-> "none"]

\* rotateEpoch: a new epoch with a new key.
RotateEpoch == /\ epoch < MaxEpoch
               /\ epoch' = epoch + 1
               /\ keys' = [keys EXCEPT ![epoch + 1] = "own"]

\* Mutant: the epoch imported last is the current one.
NewestImport(e) == e

\* std::max of the current epoch and the one imported.
CurrentEpoch(e) == IF e > epoch THEN e ELSE epoch

\* importEpochKey, of any epoch from 1 on, also one that has a key already.
ImportEpochKey(e) == /\ e \in 1..MaxEpoch
                     /\ epoch' = CurrentEpoch(e)
                     /\ keys' = [keys EXCEPT ![e] = "imported"]
=============================================================================
