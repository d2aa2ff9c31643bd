---------------------------- MODULE SealedStore ----------------------------
(***************************************************************************)
(* What the local copies of attachments promise: contents are sealed once, *)
(* and a device keeps, for ever, either what was sealed or the torn value  *)
(* of a transfer that broke off; before the seal it keeps nothing.         *)
(***************************************************************************)
CONSTANTS Key,
          Value,  \* what can be sealed
          None,   \* nothing
          Torn    \* what is left of a transfer that broke off

VARIABLES sealed,  \* per key what has been sealed
          kept     \* per key what the device keeps

vars == <<sealed, kept>>

Init == /\ sealed = [k \in Key |-> None]
        /\ kept = [k \in Key |-> None]

Seal(k, value) == /\ sealed[k] = None
                  /\ sealed' = [sealed EXCEPT ![k] = value]
                  /\ UNCHANGED kept

Keep(k) == /\ sealed[k] # None /\ kept[k] = None
           /\ \E value \in {sealed[k], Torn} : kept' = [kept EXCEPT ![k] = value]
           /\ UNCHANGED sealed

Next == \E k \in Key : Keep(k) \/ \E value \in Value : Seal(k, value)

Spec == Init /\ [][Next]_vars
=============================================================================
