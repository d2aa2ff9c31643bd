----------------------------- MODULE LocalStore -----------------------------
(***************************************************************************)
(* What one installation keeps on its device besides the tables of         *)
(* Messages and the identity of AuthService, over any number of runs of    *)
(* the application, one at a time: the schema, the vault file with the     *)
(* one-time prekeys and the key of the search index, the search index; and *)
(* the sender keys, which a run does not survive.                          *)
(***************************************************************************)
EXTENDS Startup, OneTimePrekeys, SearchIndex, SenderKeys

CONSTANT MaxKeys  \* bound: keys of the search index ever made

ASSUME KeysAssumption == MaxKeys \in Nat \ {0}

VARIABLE made  \* keys of the search index made so far

vars == <<startup, vault, prekeyHistory, search, senderKeys, made>>

Init == /\ StartupInit /\ VaultInit /\ PrekeysInit /\ SearchInit /\ SenderKeysInit
        /\ made = 0

(***************************************************************************)
(* A run begins and ends                                                   *)
(***************************************************************************)

\* The steps of initialize up to the services.
Starting == /\ Unlock \/ OpenDatabase \/ Execute \/ Commit \/ StepFails
            /\ UNCHANGED <<vault, prekeyHistory, search, senderKeys, made>>

\* The services, and the key of the index with them.
Started(saved) == /\ BuildServices
                  /\ made < MaxKeys \/ secrets.search # NoKey
                  /\ LoadSearchKey(made + 1, saved)
                  /\ made' = IF secrets.search = NoKey THEN made + 1 ELSE made
                  /\ UNCHANGED <<prekeyHistory, search, senderKeys>>

\* The process ends, in whatever way.
Die == /\ phase # "off"
       /\ StartupEnds
       /\ Forget
       /\ epoch' = 0 /\ keys' = [e \in 1..MaxEpoch |-> "none"]
       /\ UNCHANGED <<prekeyHistory, search, made>>

(***************************************************************************)
(* Calls of the services of a run                                          *)
(***************************************************************************)

UsePrekeys == /\ \E saved \in BOOLEAN :
                   Consume(saved) \/ \E count \in 1..MaxPrekeys : Publish(count, saved)
              /\ UNCHANGED <<startup, search, senderKeys, made>>

UseSearch == /\ \E m \in Message : \E inserted \in 0..Len(Text[m]) : IndexMessage(m, inserted)
             /\ UNCHANGED <<startup, prekeyHistory, senderKeys, made>>

UseSenderKeys == /\ RotateEpoch \/ \E e \in 1..MaxEpoch : ImportEpochKey(e)
                 /\ UNCHANGED <<startup, vault, prekeyHistory, search, made>>

Next == \/ Starting
        \/ \E saved \in BOOLEAN : Started(saved)
        \/ Die
        \/ phase = "ready" /\ (UsePrekeys \/ UseSearch \/ UseSenderKeys)

Spec == Init /\ [][Next]_vars

(***************************************************************************)
(* Properties                                                              *)
(***************************************************************************)

\* The type invariant.
TypeOK == /\ phase \in Phases
          /\ schema \subseteq Statement /\ work \subseteq Statement /\ at \in 1..(Version + 1)
          /\ secrets \in Secrets /\ file \in Secrets
          /\ lost \subseteq {"prekeys", "search"}
          /\ published \in 0..MaxPrekeys /\ handed \in Seq(Nat)
          /\ index \subseteq Message \X (Nat \X Word) /\ indexed \subseteq Message
          /\ epoch \in 0..MaxEpoch
          /\ keys \in [1..MaxEpoch -> {"none", "own", "imported"}]
          /\ made \in 0..MaxKeys

\* Wherever the migration fails or the process dies, the tables are all there,
\* with the version, or none is; and no service runs without them.
SchemaWhole == /\ schema \in {{}, Statement}
               /\ phase \in {"migrated", "ready"} => schema = Statement

\* As long as no run ends with the queue unsaved, the private halves handed out
\* and then those in the queue are the ones that were published, in order: over
\* any number of runs none is handed out twice and none is missing.
PrekeysKept ==
  "prekeys" \notin lost => handed \o secrets.prekeys = [i \in 1..published |-> i]

\* In particular no key is handed out a second time (a consequence of PrekeysKept).
HandedOnce ==
  "prekeys" \notin lost => \A i, j \in 1..Len(handed) : handed[i] = handed[j] => i = j

\* As long as no run ends with the key of the index unsaved, a message that was
\* indexed in any run is found in every later one, by each of its words.
IndexedIsFound ==
  phase = "ready" /\ "search" \notin lost =>
    \A m \in indexed : \A i \in 1..Len(Text[m]) : m \in FindMessageIds(<<Text[m][i]>>)

\* An epoch that becomes the current one, made here or imported, has had no key
\* before, however keys were imported out of order: a rotation never replaces a
\* key that messages were encrypted with.
NewEpochIsNew ==
  [][epoch' > epoch =>
       /\ keys[epoch'] = "none"
       /\ \A e \in 1..MaxEpoch : e # epoch' => keys'[e] = keys[e]]_vars
=============================================================================
