-------------------------- MODULE LocalStoreProofs --------------------------
(***************************************************************************)
(* The properties of LocalStore, for any messages, tables and numbers of   *)
(* keys, and any number of failures and deaths of the process.             *)
(***************************************************************************)
EXTENDS LocalStore, SequenceTheorems, TLAPS

(***************************************************************************)
(* Types                                                                   *)
(***************************************************************************)

\* What the assumptions say of the constants.
LEMMA ConstantsType ==
  /\ Tables \in Nat /\ Tables > 0 /\ MaxPrekeys \in Nat /\ MaxEpoch \in Nat
  /\ MaxKeys \in Nat /\ MaxKeys > 0 /\ Text \in [Message -> Seq(Word)]
  BY TablesAssumption, PrekeysAssumption, EpochAssumption, KeysAssumption, TextAssumption

\* Taking the first key from the queue to the ones handed out moves none.
LEMMA TakeFirst ==
  ASSUME NEW a \in Seq(Nat), NEW b \in Seq(Nat), b # <<>>
  PROVE  Append(a, Head(b)) \o Tail(b) = a \o b
  OBVIOUS

\* The first n keys.
First(n) == [i \in 1..n |-> i]

\* Keys made are those after the ones made before.
LEMMA AddKeys ==
  ASSUME NEW a \in Seq(Nat), NEW b \in Seq(Nat), NEW p \in Nat, NEW c \in Nat,
         a \o b = First(p)
  PROVE  a \o (b \o Numbered(p, p + c)) = First(p + c)
  <1> DEFINE new == Numbered(p, p + c)
  <1>0. new = [i \in 1..c |-> p + i]
    <2>1. (p + c) - p = c
      OBVIOUS
    <2> QED BY <2>1, Zenon DEF Numbered
  <1> HIDE DEF new
  <1>1. new \in Seq(Nat) /\ Len(new) = c /\ \A i \in 1..c : new[i] = p + i
    BY <1>0
  <1>2. Len(a) \in Nat /\ Len(b) \in Nat
    OBVIOUS
  <1>3. /\ a \o b \in Seq(Nat) /\ Len(a \o b) = Len(a) + Len(b)
        /\ \A i \in 1..(Len(a) + Len(b)) :
             (a \o b)[i] = IF i <= Len(a) THEN a[i] ELSE b[i - Len(a)]
    BY ConcatProperties, <1>2
  <1>4. Len([i \in 1..p |-> i]) = p /\ \A i \in 1..p : [k \in 1..p |-> k][i] = i
    OBVIOUS
  <1>5. Len(a) + Len(b) = p /\ \A i \in 1..p : (a \o b)[i] = i
    BY <1>3, <1>4 DEF First
  <1>6. ASSUME NEW i \in 1..Len(a)
        PROVE  a[i] = i
    <2>1. i \in 1..p /\ i \in 1..(Len(a) + Len(b)) /\ i <= Len(a)
      BY <1>2, <1>5
    <2> QED BY <1>3, <1>5, <2>1
  <1>7. ASSUME NEW i \in 1..Len(b)
        PROVE  b[i] = Len(a) + i
    <2> DEFINE k == Len(a) + i
    <2>1. k \in 1..p /\ k \in 1..(Len(a) + Len(b)) /\ ~(k <= Len(a)) /\ k - Len(a) = i
      BY <1>2, <1>5
    <2> HIDE DEF k
    <2>2. (a \o b)[k] = b[i] /\ (a \o b)[k] = k
      BY <1>3, <1>5, <2>1
    <2> QED BY <2>2 DEF k
  <1> DEFINE tail == b \o new
  <1>8. /\ tail \in Seq(Nat) /\ Len(tail) = Len(b) + c
        /\ \A i \in 1..(Len(b) + c) : tail[i] = IF i <= Len(b) THEN b[i] ELSE new[i - Len(b)]
    BY ConcatProperties, <1>1, <1>2
  <1> HIDE DEF tail
  <1>9. ASSUME NEW i \in 1..(Len(b) + c)
        PROVE  tail[i] = Len(a) + i
    <2>1. CASE i <= Len(b)
      <3>1. i \in 1..Len(b)
        BY <1>2, <2>1
      <3> QED BY <1>7, <1>8, <2>1, <3>1
    <2>2. CASE ~(i <= Len(b))
      <3> DEFINE k == i - Len(b)
      <3>1. k \in 1..c /\ p + k = Len(a) + i
        BY <1>2, <1>5, <2>2
      <3>2. tail[i] = new[k]
        BY <1>8, <2>2
      <3> HIDE DEF k
      <3> QED BY <1>1, <3>1, <3>2
    <2> QED BY <2>1, <2>2
  <1> DEFINE whole == a \o tail
  <1>10. /\ whole \in Seq(Nat) /\ Len(whole) = Len(a) + Len(tail)
         /\ \A i \in 1..(Len(a) + Len(tail)) :
              whole[i] = IF i <= Len(a) THEN a[i] ELSE tail[i - Len(a)]
    <2>1. tail \in Seq(Nat)
      BY <1>8
    <2> QED BY ConcatProperties, <2>1, Zenon
  <1> HIDE DEF whole
  <1>11. Len(whole) = p + c /\ Len(a) + Len(tail) = p + c
    <2>1. Len(whole) = Len(a) + Len(tail)
      BY <1>10
    <2>2. Len(tail) = Len(b) + c
      BY <1>8
    <2>3. Len(a) + Len(b) = p
      BY <1>5
    <2>4. Len(a) + (Len(b) + c) = (Len(a) + Len(b)) + c
      BY <1>2
    <2> QED BY <2>1, <2>2, <2>3, <2>4, Zenon
  <1>12. ASSUME NEW i \in 1..(p + c)
         PROVE  whole[i] = i
    <2>1. CASE i <= Len(a)
      <3>1. i \in 1..Len(a)
        BY <1>2, <2>1
      <3> QED BY <1>6, <1>10, <1>11, <2>1, <3>1
    <2>2. CASE ~(i <= Len(a))
      <3> DEFINE k == i - Len(a)
      <3>1. k \in 1..(Len(b) + c) /\ Len(a) + k = i
        BY <1>2, <1>5, <2>2
      <3>2. whole[i] = tail[k]
        BY <1>10, <1>11, <2>2
      <3> HIDE DEF k
      <3> QED BY <1>9, <3>1, <3>2
    <2> QED BY <2>1, <2>2
  <1> DEFINE numbers == [i \in 1..(p + c) |-> i]
  <1>13. p + c \in Nat /\ DOMAIN numbers = 1..(p + c) /\ numbers \in Seq(Nat)
    OBVIOUS
  <1>14. Len(numbers) = p + c /\ \A i \in 1..(p + c) : numbers[i] = i
    BY <1>13
  <1> HIDE DEF numbers
  <1>15. whole = numbers
    BY SeqEqual, <1>10, <1>11, <1>12, <1>13, <1>14
  <1> QED BY <1>15 DEF new, tail, whole, numbers, First

\* Replacing one secret of the vault leaves a vault, and the other secret.
LEMMA SecretsUpdate ==
  ASSUME NEW s \in Secrets, NEW q \in Seq(Nat), NEW k \in Nat
  PROVE  /\ [s EXCEPT !.prekeys = q] \in Secrets /\ [s EXCEPT !.search = k] \in Secrets
         /\ [s EXCEPT !.prekeys = q].prekeys = q /\ [s EXCEPT !.prekeys = q].search = s.search
         /\ [s EXCEPT !.search = k].search = k /\ [s EXCEPT !.search = k].prekeys = s.prekeys
  BY DEF Secrets

\* What the calls of a run do to the two secrets.
LEMMA ConsumeStep ==
  ASSUME TypeOK, NEW saved \in BOOLEAN, Consume(saved)
  PROVE  /\ secrets' \in Secrets /\ file' \in Secrets /\ lost' = lost
         /\ secrets.prekeys \in Seq(Nat) /\ secrets.prekeys # <<>>
         /\ secrets'.prekeys = Tail(secrets.prekeys) /\ secrets'.search = secrets.search
         /\ handed' = Append(handed, Head(secrets.prekeys)) /\ handed' \in Seq(Nat)
         /\ published' = published
  <1>1. secrets \in Secrets /\ file \in Secrets /\ secrets.prekeys \in Seq(Nat) /\ handed \in Seq(Nat)
    BY DEF TypeOK, Secrets
  <1>2. secrets.prekeys # <<>>
    BY DEF Consume
  <1>3. Tail(secrets.prekeys) \in Seq(Nat) /\ Head(secrets.prekeys) \in Nat
    BY <1>1, <1>2
  <1>4. /\ secrets' = [secrets EXCEPT !.prekeys = Tail(secrets.prekeys)]
        /\ file' = secrets' \/ file' = file
        /\ lost' = lost /\ published' = published
        /\ handed' = Append(handed, Head(secrets.prekeys))
    BY DEF Consume, StoreSecret
  <1>5. secrets' \in Secrets /\ secrets'.prekeys = Tail(secrets.prekeys)
        /\ secrets'.search = secrets.search
    BY <1>1, <1>3, <1>4, SecretsUpdate
  <1>6. file' \in Secrets
    BY <1>1, <1>4, <1>5
  <1>7. handed' \in Seq(Nat)
    BY <1>1, <1>3, <1>4
  <1> QED BY <1>1, <1>2, <1>4, <1>5, <1>6, <1>7, Zenon

\* publishOneTimePrekeys appends new keys to the queue and leaves the other secret.
LEMMA PublishStep ==
  ASSUME TypeOK, NEW saved \in BOOLEAN, NEW count \in 1..MaxPrekeys, Publish(count, saved)
  PROVE  /\ secrets' \in Secrets /\ file' \in Secrets /\ lost' = lost
         /\ secrets.prekeys \in Seq(Nat) /\ published \in Nat /\ count \in Nat
         /\ secrets'.prekeys = secrets.prekeys \o Numbered(published, published + count)
         /\ secrets'.search = secrets.search
         /\ handed' = handed /\ published' = published + count /\ published' \in 0..MaxPrekeys
  <1>1. /\ secrets \in Secrets /\ file \in Secrets /\ secrets.prekeys \in Seq(Nat)
        /\ published \in Nat /\ count \in Nat
    BY ConstantsType DEF TypeOK, Secrets
  <1> DEFINE queue == secrets.prekeys \o Numbered(published, published + count)
  <1>2. Numbered(published, published + count) \in Seq(Nat)
    <2>1. (published + count) - published = count
      BY <1>1
    <2>2. Numbered(published, published + count) = [i \in 1..count |-> published + i]
      BY <2>1, Zenon DEF Numbered
    <2>3. [i \in 1..count |-> published + i] \in Seq(Nat)
      BY <1>1
    <2> QED BY <2>2, <2>3
  <1>3. queue \in Seq(Nat)
    BY <1>1, <1>2
  <1>4. /\ secrets' = [secrets EXCEPT !.prekeys = queue]
        /\ file' = secrets' \/ file' = file
        /\ lost' = lost /\ handed' = handed /\ published' = published + count
        /\ published + count <= MaxPrekeys
    BY DEF Publish, StoreSecret
  <1> HIDE DEF queue
  <1>5. secrets' \in Secrets /\ secrets'.prekeys = queue /\ secrets'.search = secrets.search
    BY <1>1, <1>3, <1>4, SecretsUpdate
  <1>6. published' \in 0..MaxPrekeys
    BY <1>1, <1>4, ConstantsType
  <1> QED BY <1>1, <1>4, <1>5, <1>6 DEF queue

\* The start of the services leaves the queue alone, and a search key that is there.
LEMMA StartedStep ==
  ASSUME TypeOK, NEW saved \in BOOLEAN, Started(saved)
  PROVE  /\ secrets' \in Secrets /\ file' \in Secrets /\ lost' = lost
         /\ secrets'.prekeys = secrets.prekeys /\ secrets'.search # NoKey
         /\ secrets.search # NoKey => secrets'.search = secrets.search
         /\ made' \in 0..MaxKeys
  <1>1. secrets \in Secrets /\ file \in Secrets /\ secrets.search \in Nat /\ made \in 0..MaxKeys
    BY DEF TypeOK, Secrets
  <1>2. made + 1 \in Nat /\ made + 1 # NoKey
    BY <1>1, ConstantsType DEF NoKey
  <1>3. CASE secrets.search # NoKey
    <2>1. secrets' = secrets /\ file' = file /\ lost' = lost /\ made' = made
      BY <1>3 DEF Started, LoadSearchKey, vault
    <2> QED BY <1>1, <1>3, <2>1
  <1>4. CASE secrets.search = NoKey
    <2>1. /\ secrets' = [secrets EXCEPT !.search = made + 1]
          /\ file' = secrets' \/ file' = file
          /\ lost' = lost /\ made' = made + 1 /\ made < MaxKeys
      BY <1>4 DEF Started, LoadSearchKey, StoreSecret
    <2>2. \A k \in Nat : /\ [secrets EXCEPT !.search = k] \in Secrets
                         /\ [secrets EXCEPT !.search = k].search = k
                         /\ [secrets EXCEPT !.search = k].prekeys = secrets.prekeys
      BY <1>1 DEF Secrets
    <2>4. secrets' \in Secrets /\ secrets'.search = made + 1 /\ secrets'.prekeys = secrets.prekeys
      BY <1>2, <2>1, <2>2, Zenon
    <2>3. made' \in 0..MaxKeys
      BY <1>1, <2>1, ConstantsType
    <2> QED BY <1>1, <1>2, <1>4, <2>1, <2>4, <2>3
  <1> QED BY <1>3, <1>4

(***************************************************************************)
(* The start                                                               *)
(***************************************************************************)

\* Inside a migration nothing is committed yet, and the statements executed are
\* those before the next one.
StartupOK == /\ phase \in Phases /\ at \in 1..(Version + 1) /\ work \subseteq Statement
             /\ SchemaWhole
             /\ phase = "migrating" => schema = {} /\ work = 1..(at - 1)

\* The version is set by a statement of its own, which is not the first.
LEMMA VersionType == Version \in Nat /\ Version \in Statement /\ Version >= 2
  BY ConstantsType DEF Version, Statement

\* No step of initialize commits a part of the schema, or loses track of what is
\* in the transaction.
LEMMA StartupStep ==
  ASSUME StartupOK,
         \/ Unlock \/ OpenDatabase \/ Execute \/ Commit \/ StepFails
         \/ StartupEnds \/ BuildServices \/ UNCHANGED startup
  PROVE  StartupOK'
  <1> USE VersionType
  <1>1. CASE Unlock
    BY <1>1 DEF Unlock, StartupOK, SchemaWhole, Phases
  <1>2. CASE OpenDatabase
    <2>1. schema \in {{}, Statement} /\ schema' = schema /\ work' = schema /\ at' = 1
          /\ at' \in 1..(Version + 1)
      BY <1>2 DEF OpenDatabase, StartupOK, SchemaWhole
    <2>2. CASE Version \in schema
      <3>1. phase' = "migrated" /\ schema = Statement
        BY <1>2, <2>1, <2>2 DEF OpenDatabase
      <3> QED BY <2>1, <3>1 DEF StartupOK, SchemaWhole, Phases
    <2>3. CASE Version \notin schema
      <3>1. phase' = "migrating" /\ schema = {} /\ 1..(at' - 1) = {}
        BY <1>2, <2>1, <2>3 DEF OpenDatabase
      <3> QED BY <2>1, <3>1 DEF StartupOK, SchemaWhole, Phases
    <2> QED BY <2>2, <2>3
  <1>3. CASE Execute
    <2>1. /\ phase = "migrating" /\ phase' = phase /\ schema = {} /\ schema' = {}
          /\ at \in Statement /\ at' = at + 1 /\ work = 1..(at - 1) /\ work' = work \cup {at}
      BY <1>3 DEF Execute, StartupOK
    <2>2. at' \in 1..(Version + 1) /\ work' = 1..(at' - 1) /\ work' \subseteq Statement
      BY <2>1 DEF Statement
    <2> QED BY <2>1, <2>2 DEF StartupOK, SchemaWhole, Phases
  <1>4. CASE Commit
    <2>1. /\ phase' = "migrated" /\ schema' = work /\ work' = work /\ at' = at
          /\ work = 1..(at - 1) /\ at = Version + 1 /\ at \in 1..(Version + 1)
      BY <1>4 DEF Commit, StartupOK
    <2>2. work = Statement
      BY <2>1 DEF Statement
    <2> QED BY <2>1, <2>2 DEF StartupOK, SchemaWhole, Phases
  <1>5. CASE StepFails \/ StartupEnds
    <2>1. phase' = "off" /\ work' = {} /\ at' = 1 /\ schema' = schema
      BY <1>5 DEF StepFails, StartupEnds
    <2> QED BY <2>1 DEF StartupOK, SchemaWhole, Phases
  <1>6. CASE BuildServices
    BY <1>6 DEF BuildServices, StartupOK, SchemaWhole, Phases
  <1>7. CASE UNCHANGED startup
    BY <1>7 DEF startup, StartupOK, SchemaWhole
  <1> QED BY <1>1, <1>2, <1>3, <1>4, <1>5, <1>6, <1>7

\* Every step of the installation is one of the start, or none of its.
LEMMA StartupSteps ==
  ASSUME [Next]_vars
  PROVE  \/ Unlock \/ OpenDatabase \/ Execute \/ Commit \/ StepFails
         \/ StartupEnds \/ BuildServices \/ UNCHANGED startup
  BY DEF Next, vars, Starting, Started, Die, UsePrekeys, UseSearch, UseSenderKeys

\* What is committed is all or nothing, and inside the migration work is exactly
\* the statements that have been executed.
LEMMA StartupInvariant == Spec => []StartupOK
  <1>1. Init => StartupOK
    BY VersionType DEF Init, StartupInit, StartupOK, SchemaWhole, Phases
  <1>2. StartupOK /\ [Next]_vars => StartupOK'
    BY StartupSteps, StartupStep
  <1> QED BY <1>1, <1>2, PTL DEF Spec

\* SchemaWhole: the tables and the version are all there or none is, however
\* many tables the migration makes and wherever it is broken off.
THEOREM MigrationAllOrNothing == Spec => []SchemaWhole
  <1>1. StartupOK => SchemaWhole
    BY DEF StartupOK
  <1> QED BY <1>1, StartupInvariant, PTL

\* The migration happens once: in one step, from nothing to all of it, and no
\* later run, however it fails, takes anything of it back.
COROLLARY MigratesOnce == Spec => [][schema' # schema => schema = {} /\ schema' = Statement]_vars
<1>1. SchemaWhole /\ SchemaWhole' /\ [Next]_vars
        => [schema' # schema => schema = {} /\ schema' = Statement]_vars
  <2> SUFFICES ASSUME SchemaWhole, SchemaWhole', Next, schema' # schema
               PROVE  schema = {} /\ schema' = Statement
    OBVIOUS
  <2>1. Commit
    BY DEF Next, Starting, Unlock, OpenDatabase, Execute, StepFails, Started, BuildServices, Die,
           StartupEnds, UsePrekeys, UseSearch, UseSenderKeys, startup
  <2> QED BY <2>1 DEF Commit, SchemaWhole
<1> QED BY <1>1, MigrationAllOrNothing, PTL DEF Spec

(***************************************************************************)
(* The invariant                                                           *)
(***************************************************************************)

\* The key of the index is there in every run, and whenever a message has been
\* indexed and no run lost it; the rows of that message are under it.
IndexOK == /\ phase = "ready" => secrets.search # NoKey
           /\ "search" \notin lost =>
                /\ indexed # {} => secrets.search # NoKey
                /\ \A m \in indexed : \A i \in 1..Len(Text[m]) : <<m, Digest(Text[m][i])>> \in index

\* An epoch after the current one has no key.
EpochOK == \A e \in 1..MaxEpoch : e > epoch => keys[e] = "none"

IInv == StartupOK /\ TypeOK /\ PrekeysKept /\ IndexOK /\ EpochOK

\* What the parts speak of, and that a step leaves alone.
LEMMA PrekeysFrame ==
  ASSUME PrekeysKept, "prekeys" \notin lost' => "prekeys" \notin lost /\ secrets'.prekeys = secrets.prekeys,
         UNCHANGED prekeyHistory
  PROVE  PrekeysKept'
  BY DEF PrekeysKept, prekeyHistory

\* What was indexed stays valid as long as the key does.
LEMMA IndexFrame ==
  ASSUME IndexOK, "search" \notin lost' => "search" \notin lost /\ secrets'.search = secrets.search,
         UNCHANGED search, phase' = "ready" => secrets'.search # NoKey
  PROVE  IndexOK'
  BY DEF IndexOK, search, Digest

\* No key is above the current epoch after a step that leaves the sender keys alone.
LEMMA EpochFrame ==
  ASSUME EpochOK, UNCHANGED senderKeys
  PROVE  EpochOK'
  BY DEF EpochOK, senderKeys

\* The types of the index after a step that leaves it alone.
LEMMA SearchTypeFrame ==
  ASSUME TypeOK, UNCHANGED search
  PROVE  (index \subseteq Message \X (Nat \X Word) /\ indexed \subseteq Message)'
  BY DEF TypeOK, search

\* The types of the sender keys after a step that leaves them alone.
LEMMA SenderTypeFrame ==
  ASSUME TypeOK, UNCHANGED senderKeys
  PROVE  (epoch \in 0..MaxEpoch /\ keys \in [1..MaxEpoch -> {"none", "own", "imported"}])'
  BY DEF TypeOK, senderKeys

\* The types of what was published and handed out after a step that leaves it alone.
LEMMA PrekeyTypeFrame ==
  ASSUME TypeOK, UNCHANGED prekeyHistory
  PROVE  (published \in 0..MaxPrekeys /\ handed \in Seq(Nat))'
  BY DEF TypeOK, prekeyHistory

\* The types of the vault after a step that leaves it alone.
LEMMA VaultTypeFrame ==
  ASSUME TypeOK, UNCHANGED vault
  PROVE  (secrets \in Secrets /\ file \in Secrets /\ lost \subseteq {"prekeys", "search"})'
  BY DEF TypeOK, vault

\* A step that leaves the vault alone leaves both secrets and what has been lost.
LEMMA VaultFrame ==
  ASSUME IInv, UNCHANGED vault
  PROVE  /\ lost' = lost /\ secrets'.prekeys = secrets.prekeys
         /\ secrets'.search = secrets.search
  BY DEF vault

\* A run begins.
LEMMA StartingKeeps ==
  ASSUME IInv, Starting, StartupOK'
  PROVE  IInv'
  <1>1. /\ UNCHANGED vault /\ UNCHANGED prekeyHistory /\ UNCHANGED search
        /\ UNCHANGED senderKeys /\ made' = made
    BY DEF Starting
  <1>2. phase' # "ready"
    BY DEF Starting, IInv, StartupOK, Unlock, OpenDatabase, Execute, Commit, StepFails, StartupEnds
  <1>3. TypeOK'
    BY <1>1, SearchTypeFrame, SenderTypeFrame, PrekeyTypeFrame, VaultTypeFrame
       DEF IInv, TypeOK, StartupOK, SchemaWhole
  <1>4. PrekeysKept' /\ IndexOK' /\ EpochOK'
    BY <1>1, <1>2, PrekeysFrame, IndexFrame, EpochFrame, VaultFrame DEF IInv
  <1> QED BY <1>3, <1>4 DEF IInv

\* The start of the services preserves the invariant.
LEMMA StartedKeeps ==
  ASSUME IInv, NEW saved \in BOOLEAN, Started(saved), StartupOK'
  PROVE  IInv'
  <1>1. /\ UNCHANGED prekeyHistory /\ UNCHANGED search /\ UNCHANGED senderKeys
        /\ phase' = "ready" /\ phase = "migrated"
    BY DEF Started, BuildServices
  <1>2. /\ secrets' \in Secrets /\ file' \in Secrets /\ lost' = lost
        /\ secrets'.prekeys = secrets.prekeys /\ secrets'.search # NoKey
        /\ secrets.search # NoKey => secrets'.search = secrets.search
        /\ made' \in 0..MaxKeys
    BY StartedStep DEF IInv
  <1>3. TypeOK'
    BY <1>1, <1>2, SearchTypeFrame, SenderTypeFrame, PrekeyTypeFrame
       DEF IInv, TypeOK, StartupOK, SchemaWhole
  <1>4. IndexOK'
    <2>1. CASE secrets.search # NoKey
      BY <1>1, <1>2, <2>1, IndexFrame DEF IInv
    <2>2. CASE secrets.search = NoKey
      <3>1. "search" \notin lost => indexed = {}
        BY <2>2 DEF IInv, IndexOK
      <3>2. indexed' = indexed
        BY <1>1 DEF search
      <3> QED BY <1>2, <3>1, <3>2 DEF IndexOK
    <2> QED BY <2>1, <2>2
  <1>5. PrekeysKept' /\ EpochOK'
    BY <1>1, <1>2, PrekeysFrame, EpochFrame DEF IInv
  <1> QED BY <1>3, <1>4, <1>5 DEF IInv

\* A run ends: what was not saved is put down as lost.
LEMMA DieKeeps ==
  ASSUME IInv, Die, StartupOK'
  PROVE  IInv'
  <1>1. /\ UNCHANGED prekeyHistory /\ UNCHANGED search /\ phase' = "off" /\ made' = made
        /\ epoch' = 0 /\ keys' = [e \in 1..MaxEpoch |-> "none"]
        /\ secrets' = file /\ file' = file
        /\ lost' = lost \cup {name \in {"prekeys", "search"} : secrets[name] # file[name]}
    BY DEF Die, StartupEnds, Forget
  <1>2. /\ lost' \subseteq {"prekeys", "search"}
        /\ "prekeys" \notin lost' => "prekeys" \notin lost /\ secrets'.prekeys = secrets.prekeys
        /\ "search" \notin lost' => "search" \notin lost /\ secrets'.search = secrets.search
    BY <1>1 DEF IInv, TypeOK
  <1>3. TypeOK'
    <2>1. (secrets \in Secrets /\ file \in Secrets)'
      BY <1>1 DEF IInv, TypeOK
    <2>2. (epoch \in 0..MaxEpoch /\ keys \in [1..MaxEpoch -> {"none", "own", "imported"}])'
      BY <1>1, ConstantsType
    <2>3. made' \in 0..MaxKeys
      BY <1>1 DEF IInv, TypeOK
    <2> QED BY <1>1, <1>2, <2>1, <2>2, <2>3, SearchTypeFrame, PrekeyTypeFrame
            DEF IInv, TypeOK, StartupOK, SchemaWhole
  <1>4. EpochOK'
    BY <1>1 DEF EpochOK
  <1>5. PrekeysKept' /\ IndexOK'
    BY <1>1, <1>2, PrekeysFrame, IndexFrame DEF IInv
  <1> QED BY <1>3, <1>4, <1>5 DEF IInv

\* Calls of a run.  A key handed out moves from the front of the queue to the
\* end of those handed out; keys made go to the end of the queue.
LEMMA UsePrekeysKeeps ==
  ASSUME IInv, phase = "ready", UsePrekeys, StartupOK'
  PROVE  IInv'
  <1>1. /\ UNCHANGED startup /\ UNCHANGED search /\ UNCHANGED senderKeys /\ made' = made
    BY DEF UsePrekeys
  <1>2. ASSUME /\ secrets' \in Secrets /\ file' \in Secrets /\ lost' = lost
               /\ secrets'.search = secrets.search
               /\ published' \in 0..MaxPrekeys /\ handed' \in Seq(Nat)
               /\ PrekeysKept'
        PROVE  IInv'
    <2>1. TypeOK'
      BY <1>1, <1>2, SearchTypeFrame, SenderTypeFrame DEF IInv, TypeOK, StartupOK, SchemaWhole
    <2>2. phase' = "ready" => secrets'.search # NoKey
      BY <1>2 DEF IInv, IndexOK
    <2>3. IndexOK' /\ EpochOK'
      BY <1>1, <1>2, <2>2, IndexFrame, EpochFrame DEF IInv
    <2> QED BY <1>2, <2>1, <2>3 DEF IInv
  <1>3. ASSUME NEW saved \in BOOLEAN, Consume(saved)
        PROVE  IInv'
    <2>1. /\ secrets' \in Secrets /\ file' \in Secrets /\ lost' = lost
          /\ secrets.prekeys \in Seq(Nat) /\ secrets.prekeys # <<>>
          /\ secrets'.prekeys = Tail(secrets.prekeys) /\ secrets'.search = secrets.search
          /\ handed' = Append(handed, Head(secrets.prekeys)) /\ handed' \in Seq(Nat)
          /\ published' = published
      BY <1>3, ConsumeStep DEF IInv
    <2>2. handed \in Seq(Nat) /\ published \in 0..MaxPrekeys
      BY DEF IInv, TypeOK
    <2>3. handed' \o secrets'.prekeys = handed \o secrets.prekeys
      BY <2>1, <2>2, TakeFirst
    <2>4. PrekeysKept'
      BY <2>1, <2>3 DEF IInv, PrekeysKept
    <2> QED BY <1>2, <2>1, <2>2, <2>4
  <1>4. ASSUME NEW saved \in BOOLEAN, NEW count \in 1..MaxPrekeys, Publish(count, saved)
        PROVE  IInv'
    <2>1. /\ secrets' \in Secrets /\ file' \in Secrets /\ lost' = lost
          /\ secrets.prekeys \in Seq(Nat) /\ published \in Nat /\ count \in Nat
          /\ secrets'.prekeys = secrets.prekeys \o Numbered(published, published + count)
          /\ secrets'.search = secrets.search
          /\ handed' = handed /\ published' = published + count /\ published' \in 0..MaxPrekeys
      BY <1>4, PublishStep DEF IInv
    <2>2. handed \in Seq(Nat) /\ handed' \in Seq(Nat)
      BY <2>1 DEF IInv, TypeOK
    <2>3. PrekeysKept'
      <3>1. SUFFICES ASSUME "prekeys" \notin lost'
                     PROVE  handed' \o secrets'.prekeys = [i \in 1..published' |-> i]
        BY DEF PrekeysKept
      <3>2. handed \o secrets.prekeys = [i \in 1..published |-> i]
        BY <2>1, <3>1 DEF IInv, PrekeysKept
      <3>3. handed \o (secrets.prekeys \o Numbered(published, published + count))
              = [i \in 1..(published + count) |-> i]
        <4>1. handed \in Seq(Nat) /\ secrets.prekeys \in Seq(Nat)
              /\ published \in Nat /\ count \in Nat /\ handed \o secrets.prekeys = First(published)
          BY <2>1, <2>2, <3>2 DEF First
        <4>2. handed \o (secrets.prekeys \o Numbered(published, published + count))
                = First(published + count)
          BY <4>1, AddKeys
        <4> QED BY <4>2 DEF First
      <3> QED BY <2>1, <3>3, Zenon
    <2> QED BY <1>2, <2>1, <2>2, <2>3
  <1> QED BY <1>3, <1>4 DEF UsePrekeys

\* indexMessage, cut short at any word, preserves the invariant.
LEMMA UseSearchKeeps ==
  ASSUME IInv, phase = "ready", UseSearch, StartupOK'
  PROVE  IInv'
  <1>1. PICK m \in Message : \E inserted \in 0..Len(Text[m]) : IndexMessage(m, inserted)
    BY DEF UseSearch
  <1>2. PICK inserted \in 0..Len(Text[m]) : IndexMessage(m, inserted)
    BY <1>1
  <1>3. /\ UNCHANGED startup /\ UNCHANGED prekeyHistory /\ UNCHANGED senderKeys /\ made' = made
        /\ UNCHANGED vault
    BY <1>2 DEF UseSearch, IndexMessage
  <1>4. /\ index' = index \cup {<<m, Digest(Text[m][i])>> : i \in 1..inserted}
        /\ indexed' = IF inserted = Len(Text[m]) THEN indexed \cup {m} ELSE indexed
    BY <1>2 DEF IndexMessage, TokenRows
  <1>5. Text[m] \in Seq(Word) /\ \A i \in 1..Len(Text[m]) : Text[m][i] \in Word
    BY ConstantsType
  <1>6. secrets.search \in Nat /\ index \subseteq Message \X (Nat \X Word) /\ indexed \subseteq Message
    BY DEF IInv, TypeOK, Secrets
  <1>7. \A i \in 1..inserted : i \in 1..Len(Text[m])
    BY <1>5
  <1>8. TypeOK'
    <2>1. index' \subseteq Message \X (Nat \X Word) /\ indexed' \subseteq Message
      BY <1>4, <1>5, <1>6, <1>7 DEF Digest
    <2> QED BY <1>3, <2>1, SenderTypeFrame, PrekeyTypeFrame, VaultTypeFrame
            DEF IInv, TypeOK, StartupOK, SchemaWhole
  <1>9. IndexOK'
    <2>1. secrets' = secrets /\ lost' = lost /\ secrets.search # NoKey
      BY <1>3 DEF vault, IInv, IndexOK
    <2>2. ASSUME "search" \notin lost, NEW n \in indexed', NEW i \in 1..Len(Text[n])
          PROVE  <<n, Digest(Text[n][i])>> \in index'
      <3>1. CASE n \in indexed
        BY <1>4, <2>2, <3>1 DEF IInv, IndexOK
      <3>2. CASE n \notin indexed
        <4>1. n = m /\ inserted = Len(Text[m])
          BY <1>4, <2>2, <3>2
        <4> QED BY <1>4, <2>2, <4>1
      <3> QED BY <3>1, <3>2
    <2>3. \A n \in indexed' : \A i \in 1..Len(Text[n]) :
            "search" \notin lost => <<n, Digest(Text[n][i])>> \in index'
      BY <2>2
    <2> QED BY <2>1, <2>3 DEF IndexOK, Digest
  <1>10. PrekeysKept' /\ EpochOK'
    BY <1>3, PrekeysFrame, EpochFrame, VaultFrame DEF IInv
  <1> QED BY <1>8, <1>9, <1>10 DEF IInv

\* Rotations and imports of epochs preserve the invariant.
LEMMA UseSenderKeysKeeps ==
  ASSUME IInv, phase = "ready", UseSenderKeys, StartupOK'
  PROVE  IInv'
  <1>1. /\ UNCHANGED startup /\ UNCHANGED prekeyHistory /\ UNCHANGED search /\ made' = made
        /\ UNCHANGED vault
    BY DEF UseSenderKeys
  <1>2. epoch \in 0..MaxEpoch /\ keys \in [1..MaxEpoch -> {"none", "own", "imported"}]
        /\ MaxEpoch \in Nat /\ EpochOK
    BY ConstantsType DEF IInv, TypeOK
  <1>3. /\ epoch' \in 0..MaxEpoch /\ keys' \in [1..MaxEpoch -> {"none", "own", "imported"}]
        /\ EpochOK'
    <2>1. CASE RotateEpoch
      <3>1. /\ epoch' = epoch + 1 /\ epoch < MaxEpoch
            /\ keys' = [keys EXCEPT ![epoch + 1] = "own"]
        BY <2>1 DEF RotateEpoch
      <3> QED BY <1>2, <3>1 DEF EpochOK
    <2>2. ASSUME NEW e \in 1..MaxEpoch, ImportEpochKey(e)
          PROVE  /\ epoch' \in 0..MaxEpoch /\ keys' \in [1..MaxEpoch -> {"none", "own", "imported"}]
                 /\ EpochOK'
      <3>1. /\ epoch' = (IF e > epoch THEN e ELSE epoch)
            /\ keys' = [keys EXCEPT ![e] = "imported"]
        BY <2>2 DEF ImportEpochKey, CurrentEpoch
      <3>2. epoch' \in 0..MaxEpoch /\ epoch' >= e /\ epoch' >= epoch
        BY <1>2, <3>1
      <3> QED BY <1>2, <3>1, <3>2 DEF EpochOK
    <2> QED BY <2>1, <2>2 DEF UseSenderKeys
  <1>4. TypeOK'
    BY <1>1, <1>3, SearchTypeFrame, PrekeyTypeFrame, VaultTypeFrame
       DEF IInv, TypeOK, StartupOK, SchemaWhole
  <1>5. phase' = "ready" => secrets'.search # NoKey
    BY <1>1 DEF vault, IInv, IndexOK
  <1>6. PrekeysKept' /\ IndexOK'
    BY <1>1, <1>5, PrekeysFrame, IndexFrame, VaultFrame DEF IInv
  <1> QED BY <1>3, <1>4, <1>6 DEF IInv

\* Types, start, queue, index and epochs together are inductive.
LEMMA Invariant == Spec => []IInv
  <1>1. Init => IInv
    <2>1. ASSUME Init
          PROVE  StartupOK /\ TypeOK
      BY <2>1, VersionType, ConstantsType
         DEF Init, StartupInit, VaultInit, PrekeysInit, SearchInit, SenderKeysInit,
             StartupOK, SchemaWhole, Phases, TypeOK, Secrets, NoKey
    <2>2. ASSUME Init
          PROVE  PrekeysKept /\ IndexOK /\ EpochOK
      <3>1. handed \o secrets.prekeys = <<>> /\ [i \in 1..published |-> i] = <<>>
        BY <2>2 DEF Init, VaultInit, PrekeysInit
      <3> QED BY <2>2, <3>1
              DEF Init, StartupInit, SearchInit, SenderKeysInit, PrekeysKept, IndexOK, EpochOK
    <2> QED BY <2>1, <2>2 DEF IInv
  <1>2. IInv /\ [Next]_vars => IInv'
    <2> SUFFICES ASSUME IInv, [Next]_vars
                 PROVE  IInv'
      OBVIOUS
    <2>1. StartupOK'
      BY StartupSteps, StartupStep DEF IInv
    <2>2. CASE Starting
      BY <2>1, <2>2, StartingKeeps
    <2>3. CASE \E saved \in BOOLEAN : Started(saved)
      BY <2>1, <2>3, StartedKeeps
    <2>4. CASE Die
      BY <2>1, <2>4, DieKeeps
    <2>5. CASE phase = "ready" /\ (UsePrekeys \/ UseSearch \/ UseSenderKeys)
      BY <2>1, <2>5, UsePrekeysKeeps, UseSearchKeeps, UseSenderKeysKeeps
    <2>6. CASE UNCHANGED vars
      <3>1. /\ UNCHANGED startup /\ UNCHANGED vault /\ UNCHANGED prekeyHistory
            /\ UNCHANGED search /\ UNCHANGED senderKeys /\ made' = made
        BY <2>6 DEF vars
      <3>2. TypeOK'
        BY <2>1, <3>1, SearchTypeFrame, SenderTypeFrame, PrekeyTypeFrame, VaultTypeFrame
           DEF IInv, TypeOK, StartupOK, SchemaWhole
      <3>3. phase' = "ready" => secrets'.search # NoKey
        BY <3>1 DEF startup, vault, IInv, IndexOK
      <3>4. PrekeysKept' /\ IndexOK' /\ EpochOK'
        BY <3>1, <3>3, PrekeysFrame, IndexFrame, EpochFrame, VaultFrame DEF IInv
      <3> QED BY <2>1, <3>2, <3>4 DEF IInv
    <2> QED BY <2>2, <2>3, <2>4, <2>5, <2>6 DEF Next
  <1> QED BY <1>1, <1>2, PTL DEF Spec

(***************************************************************************)
(* The properties                                                          *)
(***************************************************************************)

\* TypeOK: type correctness, over every run of the application.
THEOREM TypeCorrect == Spec => []TypeOK
  <1>1. IInv => TypeOK
    BY DEF IInv
  <1> QED BY <1>1, Invariant, PTL

\* PrekeysKept: unless a run ends with the queue unsaved, the one-time prekeys
\* handed out and those that wait are the ones published, each once, in order,
\* for any number of keys and runs.
THEOREM PrekeysConserved == Spec => []PrekeysKept
  <1>1. IInv => PrekeysKept
    BY DEF IInv
  <1> QED BY <1>1, Invariant, PTL

\* A sequence is the beginning of its concatenation with another.
LEMMA ConcatBegins ==
  ASSUME NEW a \in Seq(Nat), NEW b \in Seq(Nat)
  PROVE  Len(a \o b) >= Len(a) /\ \A k \in 1..Len(a) : (a \o b)[k] = a[k]
  BY ConcatProperties

\* No peer's message finds a one-time prekey that was used before, over any
\* number of runs none of which ended with the queue unsaved.
COROLLARY PrekeysHandedOnce == Spec => []HandedOnce
  <1>1. TypeOK /\ PrekeysKept => HandedOnce
    <2> SUFFICES ASSUME TypeOK, handed \o secrets.prekeys = [i \in 1..published |-> i],
                        NEW i \in 1..Len(handed), NEW j \in 1..Len(handed), handed[i] = handed[j]
                 PROVE  i = j
      BY DEF PrekeysKept, HandedOnce
    <2>1. /\ handed \in Seq(Nat) /\ secrets.prekeys \in Seq(Nat)
          /\ Len(handed) \in Nat /\ published \in Nat
      BY ConstantsType DEF TypeOK, Secrets
    <2> DEFINE all == [k \in 1..published |-> k]
    <2>2. Len(all) >= Len(handed) /\ \A k \in 1..Len(handed) : all[k] = handed[k]
      <3>1. /\ Len(handed \o secrets.prekeys) >= Len(handed)
            /\ \A k \in 1..Len(handed) : (handed \o secrets.prekeys)[k] = handed[k]
        BY <2>1, ConcatBegins
      <3>2. handed \o secrets.prekeys = all
        OBVIOUS
      <3> HIDE DEF all
      <3> QED BY <3>1, <3>2, Zenon
    <2>3. Len(all) = published
      BY <2>1
    <2>4. \A k \in 1..Len(handed) : k \in 1..published
      BY <2>1, <2>2, <2>3
    <2>5. \A k \in 1..Len(handed) : handed[k] = k
      BY <2>2, <2>4
    <2> QED BY <2>5
  <1> QED BY <1>1, TypeCorrect, PrekeysConserved, PTL

\* IndexedIsFound: unless a run ends with the key of the index unsaved, what
\* one run indexed every later one finds, for any texts.
THEOREM IndexOutlivesRuns == Spec => []IndexedIsFound
  <1>1. ASSUME IInv
        PROVE  IndexedIsFound
    <2>1. SUFFICES ASSUME "search" \notin lost, NEW m \in indexed, NEW i \in 1..Len(Text[m])
                   PROVE  m \in FindMessageIds(<<Text[m][i]>>)
      BY DEF IndexedIsFound
    <2>2. m \in Message /\ <<m, Digest(Text[m][i])>> \in index
      BY <1>1, <2>1 DEF IInv, TypeOK, IndexOK
    <2>3. <<Text[m][i]>> # <<>> /\ Head(<<Text[m][i]>>) = Text[m][i]
      OBVIOUS
    <2> QED BY <2>2, <2>3 DEF FindMessageIds, FindMessagesByToken
  <1> QED BY <1>1, Invariant, PTL

\* NewEpochIsNew: however sender keys are made and imported, an epoch that
\* becomes the current one had no key, and no other key is touched.
THEOREM EpochsAreFresh == Spec => NewEpochIsNew
  <1>1. ASSUME IInv, [Next]_vars, epoch' > epoch
        PROVE  /\ keys[epoch'] = "none"
               /\ \A e \in 1..MaxEpoch : e # epoch' => keys'[e] = keys[e]
    <2>1. epoch \in 0..MaxEpoch /\ MaxEpoch \in Nat /\ EpochOK
          /\ keys \in [1..MaxEpoch -> {"none", "own", "imported"}]
      BY <1>1, ConstantsType DEF IInv, TypeOK
    <2>2. RotateEpoch \/ \E e \in 1..MaxEpoch : ImportEpochKey(e)
      <3>1. epoch' # epoch /\ epoch' # 0
        BY <1>1, <2>1
      <3> QED BY <1>1, <3>1
              DEF Next, vars, senderKeys, Starting, Started, Die, UsePrekeys, UseSearch, UseSenderKeys
    <2>3. CASE RotateEpoch
      <3>1. epoch' = epoch + 1 /\ epoch < MaxEpoch /\ keys' = [keys EXCEPT ![epoch + 1] = "own"]
        BY <2>3 DEF RotateEpoch
      <3> QED BY <2>1, <3>1 DEF EpochOK
    <2>4. CASE \E e \in 1..MaxEpoch : ImportEpochKey(e)
      <3>1. PICK e \in 1..MaxEpoch : ImportEpochKey(e)
        BY <2>4
      <3>2. /\ epoch' = (IF e > epoch THEN e ELSE epoch)
            /\ keys' = [keys EXCEPT ![e] = "imported"]
        BY <3>1 DEF ImportEpochKey, CurrentEpoch
      <3>3. epoch' = e /\ e > epoch
        BY <1>1, <2>1, <3>2
      <3> QED BY <2>1, <3>2, <3>3 DEF EpochOK
    <2> QED BY <2>2, <2>3, <2>4
  <1>2. IInv /\ [Next]_vars => [epoch' > epoch =>
                                  /\ keys[epoch'] = "none"
                                  /\ \A e \in 1..MaxEpoch : e # epoch' => keys'[e] = keys[e]]_vars
    BY <1>1
  <1> QED BY <1>2, Invariant, PTL DEF Spec, NewEpochIsNew
=============================================================================
