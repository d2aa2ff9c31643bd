----------------------------- MODULE VaultFile -----------------------------
(***************************************************************************)
(* The vault as the services below it see it: a map of secrets in memory,  *)
(* saved to the file as a whole by every storeSecret.  A failed save is    *)
(* not undone in memory.  Two secrets are followed, the queue of one-time  *)
(* prekeys and the key of the search index; keys are numbers.              *)
(***************************************************************************)
EXTENDS Naturals, Sequences

VARIABLES secrets, \* m_secrets; out of a run, what the next one will read
          file,    \* the secrets in vault.json
          lost     \* history: the secrets some run has ended with unsaved

vault == <<secrets, file, lost>>

NoKey   == 0
Secrets == [prekeys : Seq(Nat), search : Nat]

VaultInit == /\ secrets = [prekeys |-> <<>>, search |-> NoKey]
             /\ file = secrets
             /\ lost = {}

\* storeSecret, for the map that holds the new value.
StoreSecret(map, saved) == /\ secrets' = map
                           /\ file' = IF saved THEN map ELSE file
                           /\ lost' = lost

\* The process ends.  The next one unlocks the vault and reads the file; the
\* first of all writes an empty one.
Forget == /\ secrets' = file
          /\ lost' = lost \cup {name \in {"prekeys", "search"} : secrets[name] # file[name]}
          /\ UNCHANGED file
=============================================================================
