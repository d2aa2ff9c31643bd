-------------------------- MODULE DeviceIdentity --------------------------
(***************************************************************************)
(* What the device promises about its identity key: the key it keeps is    *)
(* chosen once and never replaced or lost, and only a kept key is ever     *)
(* published, under as many users as log in on the device.                 *)
(***************************************************************************)
CONSTANTS Users,
          Keys,   \* the identity keys there can be
          NoKey   \* none of them

VARIABLES kept,      \* the identity on durable storage, NoKey before there is one
          published  \* the identity the server shows for this device, per user

vars == <<kept, published>>

Init == kept = NoKey /\ published = [u \in Users |-> NoKey]

Keep == /\ kept = NoKey
        /\ kept' \in Keys
        /\ UNCHANGED published

Publish(u) == /\ kept # NoKey
              /\ published' = [published EXCEPT ![u] = kept]
              /\ UNCHANGED kept

Next == Keep \/ \E u \in Users : Publish(u)

Spec == Init /\ [][Next]_vars
=============================================================================
