------------------------- MODULE AuthServiceProofs -------------------------
(***************************************************************************)
(* What holds of AuthService for any set of users and any bounds: types,   *)
(* the integrity of the identity and of the session, and the refinement of *)
(* DeviceIdentity.                                                         *)
(***************************************************************************)
EXTENDS AuthService, TLAPS

(***************************************************************************)
(* Type correctness                                                        *)
(***************************************************************************)

\* A save leaves two vaults where there were two vaults.
LEMMA SetVaultTyped ==
  ASSUME TypeOK, NEW v \in Vault, NEW saved, SetVault(v, saved)
  PROVE  mem' \in Vault /\ disk' \in Vault
BY DEF SetVault, TypeOK

\* The vaults the calls store are vaults.
LEMMA VaultUpdates ==
  ASSUME TypeOK
  PROVE  /\ WithIdentityPart \in Vault
         /\ WithPrekeyPart \in Vault
         /\ WithToken \in Vault
         /\ [mem EXCEPT !.token[who] = 0] \in Vault
<1> USE DEF TypeOK, Vault
<1>1. WithIdentityPart \in Vault
  BY DEF WithIdentityPart
<1>2. WithPrekeyPart \in Vault
  <2>1. (IF part = 1 THEN keyId - 1 ELSE gen) \in Nat
    OBVIOUS
  <2> QED BY <2>1 DEF WithPrekeyPart
<1>3. WithToken \in Vault
  BY DEF WithToken
<1>4. [mem EXCEPT !.token[who] = 0] \in Vault
  OBVIOUS
<1> QED BY <1>1, <1>2, <1>3, <1>4

\* The newest row, where there is one, is a user's.
LEMMA ActiveIsUser == TypeOK /\ rows # <<>> => ActiveAccount \in Users
BY DEF TypeOK, ActiveAccount

\* A vault that has been locked, or never filled, is a vault.
LEMMA EmptyVaultTyped == EmptyVault \in Vault
BY DEF EmptyVault, Vault

\* A call that gives up its keys goes on without them or ends.
LEMMA GiveUpKeysTyped ==
  ASSUME TypeOK, GiveUpKeys, pc # "idle"
  PROVE  /\ pc' \in Step /\ part' \in Part /\ call' = call
         /\ who' = who /\ who \in Users /\ offered' = offered
BY DEF GiveUpKeys, Goto, TypeOK, Step, Part, Idle

\* The keys of a request are a bundle.
LEMMA RequestBundleTyped ==
  ASSUME mem \in Vault, offered \in Nat
  PROVE  RequestBundle \in Bundle
<1>1. mem.identity[3] \in Nat /\ mem.identity[2] \in Nat
  BY DEF Vault, Part
<1> QED BY <1>1 DEF RequestBundle, Bundle

\* Every state of every behaviour is well typed.
THEOREM TypeCorrect == Spec => []TypeOK
<1>1. Init => TypeOK
  BY DEF Init, TypeOK, EmptyVault, Vault, NoCtx, Ctx, Step, Part, NoBundle, Bundle, Idle
<1>2. TypeOK /\ [Next]_vars => TypeOK'
  <2> SUFFICES ASSUME TypeOK, [Next]_vars PROVE TypeOK'
    OBVIOUS
  <2> USE DEF Idle, Goto, Begin, NoCall
  <2>1. CASE Boot
    BY <2>1, ActiveIsUser DEF Boot, TypeOK, Step, Part
  <2>2. CASE Crash
    BY <2>2, EmptyVaultTyped DEF Crash, TypeOK, Step, Part, NoCtx, Ctx
  <2>3. ASSUME NEW c \in {"register", "login"}, NEW u \in Users, Submit(c, u)
        PROVE TypeOK'
    <3>1. session' \in {"off", "out", "kept", "in"}
      BY <2>3 DEF Submit, TypeOK
    <3>2. fresh' \in [identity : Nat, prekey : Nat, token : Nat]
      <4>1. /\ fresh \in [identity : Nat, prekey : Nat, token : Nat]
            /\ fresh.prekey + 1 \in Nat /\ fresh.identity + 1 \in Nat
        BY DEF TypeOK
      <4>2. \/ fresh' = [fresh EXCEPT !.prekey = fresh.prekey + 1]
            \/ fresh' = [fresh EXCEPT !.identity = fresh.identity + 1]
        BY <2>3 DEF Submit, NewPrekey, NewIdentity
      <4> QED BY <4>1, <4>2
    <3>3. gen' \in Nat /\ keyId' \in Nat \ {0}
      BY <2>3 DEF Submit, NewPrekey, NewIdentity, TypeOK
    <3>4. /\ pc' \in Step /\ part' \in Part /\ offered' \in Nat /\ issued' \in Nat
          /\ who' \in Users /\ call' \in {"register", "login"}
      BY <2>3 DEF Submit, Step, Part
    <3> QED BY <2>3, <3>1, <3>2, <3>3, <3>4 DEF Submit, TypeOK
  <2>4. CASE StoreIdentityPart
    <3>1. mem' \in Vault /\ disk' \in Vault
      BY <2>4, VaultUpdates, SetVaultTyped DEF StoreIdentityPart
    <3>2. CASE MoreParts
      BY <2>4, <3>1, <3>2 DEF StoreIdentityPart, MoreParts, TypeOK, Part
    <3>3. CASE ~MoreParts
      BY <2>4, <3>1, <3>3 DEF StoreIdentityPart, NewPrekey, TypeOK, Step, Part
    <3> QED BY <3>2, <3>3
  <2>5. CASE StorePrekeyPart
    <3>1. mem' \in Vault /\ disk' \in Vault
      BY <2>5, VaultUpdates, SetVaultTyped DEF StorePrekeyPart
    <3>2. CASE MoreParts
      BY <2>5, <3>1, <3>2 DEF StorePrekeyPart, MoreParts, TypeOK, Part
    <3>3. CASE ~MoreParts
      BY <2>5, <3>1, <3>3 DEF StorePrekeyPart, TypeOK, Step, Part
    <3> QED BY <3>2, <3>3
  <2>15. CASE IdentitySaveFails \/ PrekeySaveFails
    <3>1. mem' \in Vault /\ disk' \in Vault
      BY <2>15, VaultUpdates, SetVaultTyped DEF IdentitySaveFails, PrekeySaveFails
    <3> QED BY <2>15, <3>1, GiveUpKeysTyped DEF IdentitySaveFails, PrekeySaveFails, TypeOK
  <2>6. CASE RequestFails \/ RefreshFails
    BY <2>6 DEF RequestFails, RefreshFails, TypeOK, Step, Part
  <2>7. ASSUME NEW ok \in BOOLEAN, ServerAccepts(ok)
        PROVE TypeOK'
    <3>1. RequestBundle \in Bundle
      BY RequestBundleTyped DEF TypeOK
    <3>2. server' \in [known  : SUBSET Users, bundle : [Users -> Bundle],
                       tokens : [Users -> SUBSET Nat]]
      BY <2>7, <3>1 DEF ServerAccepts, TypeOK
    <3> QED BY <2>7, <3>2 DEF ServerAccepts, TypeOK, Step, Part
  <2>8. ASSUME NEW ok \in BOOLEAN, PersistToken(ok) \/ RestoreToken(ok)
        PROVE TypeOK'
    <3>1. mem' \in Vault /\ disk' \in Vault
      BY <2>8, VaultUpdates, SetVaultTyped DEF PersistToken, RestoreToken
    <3> QED BY <2>8, <3>1 DEF PersistToken, RestoreToken, TypeOK, Step, Part, Ctx
  <2>9. ASSUME NEW ok \in BOOLEAN, PersistRow(ok) \/ RestoreRow(ok)
        PROVE TypeOK'
    <3>1. who \in Users /\ rows \in Seq(Users)
      BY <2>9 DEF PersistRow, RestoreRow, TypeOK
    <3>3. rows' \in Seq(Users)
      BY <2>9, <3>1 DEF PersistRow, RestoreRow
    <3>2. session' \in {"off", "out", "kept", "in"}
      BY <2>9 DEF PersistRow, RestoreRow, TypeOK
    <3> QED BY <2>9, <3>1, <3>2, <3>3 DEF PersistRow, RestoreRow, TypeOK, Step, Part
  <2>10. ASSUME NEW ok \in BOOLEAN, Logout(ok)
         PROVE TypeOK'
    <3>1. server' \in [known  : SUBSET Users, bundle : [Users -> Bundle],
                       tokens : [Users -> SUBSET Nat]]
      BY <2>10 DEF Logout, TypeOK
    <3>2. ctx' \in Ctx /\ session' \in {"off", "out", "kept", "in"}
      BY <2>10 DEF Logout, TypeOK, NoCtx, Ctx
    <3>3. /\ pc' \in Step /\ part' \in Part /\ offered' \in Nat /\ issued' \in Nat
          /\ who' \in Users \cup {NoUser} /\ (pc' # "idle" => who' \in Users)
          /\ call' \in {"none", "logout"} /\ gen' \in Nat
      BY <2>10, ActiveIsUser DEF Logout, Step, Part
    <3> QED BY <2>10, <3>1, <3>2, <3>3 DEF Logout, TypeOK
  <2>11. ASSUME NEW ok \in BOOLEAN, ForgetToken(ok)
         PROVE TypeOK'
    <3>1. mem' \in Vault /\ disk' \in Vault
      BY <2>11, VaultUpdates, SetVaultTyped DEF ForgetToken
    <3> QED BY <2>11, <3>1 DEF ForgetToken, TypeOK, Step, Part
  <2>12. ASSUME NEW ok \in BOOLEAN, DropRow(ok)
         PROVE TypeOK'
    BY <2>12 DEF DropRow, TypeOK, Step, Part, NoCtx, Ctx
  <2>13. ASSUME NEW retired \in BOOLEAN, NEW delivered \in BOOLEAN,
                RefreshAccepted(retired, delivered)
         PROVE TypeOK'
    <3>1. /\ who \in Users /\ fresh.token \in Nat
          /\ fresh' \in [identity : Nat, prekey : Nat, token : Nat]
      BY <2>13 DEF RefreshAccepted, TypeOK
    <3>2. server' \in [known  : SUBSET Users, bundle : [Users -> Bundle],
                       tokens : [Users -> SUBSET Nat]]
      BY <2>13, <3>1 DEF RefreshAccepted, TypeOK
    <3>3. ctx' \in Ctx /\ issued' \in Nat /\ pc' \in Step /\ part' \in Part
      BY <2>13, <3>1 DEF RefreshAccepted, TypeOK, Step, Part, Ctx
    <3> QED BY <2>13, <3>1, <3>2, <3>3 DEF RefreshAccepted, TypeOK
  <2>14. CASE UNCHANGED vars
    BY <2>14 DEF vars, job, TypeOK
  <2> QED BY <2>1, <2>2, <2>3, <2>4, <2>5, <2>6, <2>7, <2>8, <2>9, <2>10, <2>11,
             <2>12, <2>13, <2>14, <2>15 DEF Next
<1> QED BY <1>1, <1>2, PTL DEF Spec

(***************************************************************************)
(* The integrity of the identity                                           *)
(***************************************************************************)

\* Under the invariant, a whole identity is one whose last part is there.
LEMMA WholeIdentity ==
  ASSUME TypeOK, WholeWhenLastIsThere
  PROVE  \A v \in {mem, disk} : HasIdentity(v) <=> v.identity[4] # 0
BY DEF WholeWhenLastIsThere, HasIdentity, Part

\* A step that writes the vault anywhere but in the identity, saved or not,
\* keeps what the invariant says of memory and disk.
LEMMA OtherSecretSaved ==
  ASSUME TypeOK, IInv, session # "off", session' # "off",
         NEW v, v.identity = mem.identity, NEW saved, SetVault(v, saved)
  PROVE  /\ mem'.identity = mem.identity
         /\ WholeWhenLastIsThere' /\ MemoryHasKept'
         /\ disk.identity[4] # 0 => disk'.identity = disk.identity
         /\ saved => disk'.identity = mem.identity
<1>1. mem'.identity = mem.identity
  BY DEF SetVault
<1>2. disk'.identity \in {mem.identity, disk.identity} /\ (saved => disk'.identity = mem.identity)
  BY DEF SetVault
<1> QED BY <1>1, <1>2 DEF IInv, WholeWhenLastIsThere, MemoryHasKept

\* IInv is inductive.
THEOREM IdentityInvariant == Spec => []IInv
<1>1. Init => IInv
  BY DEF Init, IInv, WholeWhenLastIsThere, MemoryHasKept, WritingIdentity,
         KeptBeforePublished, PublishedIsKept, EmptyVault, NoBundle, Part, Idle
<1>2. TypeOK /\ IInv /\ [Next]_vars => IInv'
  <2> SUFFICES ASSUME TypeOK, IInv, [Next]_vars PROVE IInv'
    OBVIOUS
  <2> USE DEF Idle
  <2>1. CASE Boot
    BY <2>1 DEF Boot, Begin, NoCall, IInv, WholeWhenLastIsThere, MemoryHasKept,
                WritingIdentity, KeptBeforePublished, PublishedIsKept
  <2>2. CASE Crash
    BY <2>2 DEF Crash, NoCall, Begin, IInv, WholeWhenLastIsThere, MemoryHasKept,
                WritingIdentity, KeptBeforePublished, PublishedIsKept, EmptyVault, Part
  <2>3. ASSUME NEW c \in {"register", "login"}, NEW u \in Users, Submit(c, u)
        PROVE IInv'
    <3>1. HasIdentity(mem) <=> mem.identity[4] # 0
      BY WholeIdentity DEF IInv
    <3>2. UNCHANGED <<mem, disk, server>> /\ session # "off" /\ session' # "off"
      BY <2>3 DEF Submit
    <3>3. fresh'.identity # 0 /\ part' = 1 /\ offered' = 0
      BY <2>3 DEF Submit, Begin, NewPrekey, NewIdentity, IInv, TypeOK
    <3>4. \/ pc' = "prekey" /\ mem.identity[4] # 0
          \/ pc' = "identity" /\ mem.identity[4] = 0 /\ gen' = fresh.identity
      BY <2>3, <3>1 DEF Submit, Begin, NewPrekey, NewIdentity
    <3>5. fresh.identity # 0
      BY DEF IInv
    <3> QED BY <3>2, <3>3, <3>4, <3>5 DEF IInv, WholeWhenLastIsThere, MemoryHasKept,
               WritingIdentity, KeptBeforePublished, PublishedIsKept, Part
  <2>4. CASE StoreIdentityPart \/ IdentitySaveFails
    <3>1. /\ pc = "identity" /\ session # "off" /\ session' = session /\ server' = server
          /\ gen # 0 /\ offered = 0 /\ mem.identity[4] = 0
          /\ \A p \in Part : p < part => mem.identity[p] = gen
      BY <2>4 DEF StoreIdentityPart, IdentitySaveFails, IInv, WritingIdentity, KeptBeforePublished
    <3>2. disk.identity[4] = 0
      BY <3>1 DEF IInv, MemoryHasKept
    <3>3. \A u \in Users : server.bundle[u].identity = 0
      BY <3>2 DEF IInv, PublishedIsKept
    <3>4. /\ mem' = WithIdentityPart
          /\ disk' = mem' \/ disk' = disk
          /\ StoreIdentityPart => disk' = mem'
      BY <2>4 DEF StoreIdentityPart, IdentitySaveFails, SetVault
    <3>5. mem'.identity = [mem.identity EXCEPT ![part] = gen] /\ mem.identity \in [Part -> Nat]
      BY <3>4 DEF WithIdentityPart, TypeOK, Vault
    <3>6. part \in Part /\ (part # 4 => mem'.identity[4] = 0)
      BY <3>1, <3>5 DEF TypeOK, Part
    <3>7. \A p \in Part : p <= part => mem'.identity[p] = gen
      BY <3>1, <3>5, <3>6 DEF Part
    <3>8. WholeWhenLastIsThere' /\ MemoryHasKept'
      BY <3>2, <3>4, <3>6, <3>7 DEF WholeWhenLastIsThere, MemoryHasKept, Part
    <3>9. PublishedIsKept'
      BY <3>1, <3>3 DEF PublishedIsKept
    <3>10. CASE StoreIdentityPart /\ MoreParts
      <4>1. /\ pc' = "identity" /\ gen' = gen /\ part' = part + 1 /\ fresh' = fresh
            /\ part # 4 /\ offered' = 0
        BY <3>10, <3>1 DEF StoreIdentityPart, MoreParts
      <4>2. WritingIdentity'
        BY <4>1, <3>1, <3>6, <3>7 DEF WritingIdentity, Part
      <4> QED BY <3>1, <3>8, <3>9, <4>1, <4>2 DEF IInv, KeptBeforePublished
    <3>11. CASE StoreIdentityPart /\ ~MoreParts
      <4>1. pc' = "prekey" /\ part' = 1 /\ part = 4 /\ fresh'.identity = fresh.identity
            /\ offered' = 0
        BY <3>11, <3>1, <3>6 DEF StoreIdentityPart, MoreParts, Goto, NewPrekey, TypeOK, Part
      <4>2. mem'.identity[4] # 0
        BY <4>1, <3>1, <3>7 DEF Part
      <4> QED BY <3>1, <3>8, <3>9, <4>1, <4>2 DEF IInv, WritingIdentity, KeptBeforePublished
    <3>12. CASE IdentitySaveFails
      <4>1. /\ pc' \in {"request", "idle"} /\ offered' = 0 /\ fresh' = fresh
        BY <3>12, <3>1 DEF IdentitySaveFails, GiveUpKeys, Goto
      <4> QED BY <3>1, <3>8, <3>9, <4>1 DEF IInv, WritingIdentity, KeptBeforePublished
    <3> QED BY <2>4, <3>10, <3>11, <3>12
  <2>5. CASE StorePrekeyPart \/ PrekeySaveFails
    <3>1. /\ pc = "prekey" /\ session # "off" /\ session' = session
          /\ server' = server /\ fresh' = fresh /\ mem.identity[4] # 0
      BY <2>5 DEF StorePrekeyPart, PrekeySaveFails, IInv, KeptBeforePublished
    <3>2. WithPrekeyPart.identity = mem.identity
      BY DEF WithPrekeyPart, TypeOK, Vault
    <3>3. /\ mem'.identity = mem.identity
          /\ WholeWhenLastIsThere' /\ MemoryHasKept'
          /\ disk.identity[4] # 0 => disk'.identity = disk.identity
          /\ StorePrekeyPart => disk'.identity = mem.identity
      BY <2>5, <3>1, <3>2, OtherSecretSaved DEF StorePrekeyPart, PrekeySaveFails
    <3>4. PublishedIsKept'
      BY <3>1, <3>3 DEF IInv, PublishedIsKept
    <3>5. offered = 0
      BY <3>1 DEF IInv, KeptBeforePublished
    <3>6. CASE StorePrekeyPart
      <4>1. disk'.identity = mem.identity
        BY <3>3, <3>6
      <4>2. \/ pc' = "prekey" /\ offered' = 0
            \/ pc' = "request"
        BY <3>1, <3>5, <3>6 DEF StorePrekeyPart, Goto
      <4> QED BY <3>1, <3>3, <3>4, <4>1, <4>2 DEF IInv, WritingIdentity, KeptBeforePublished
    <3>7. CASE PrekeySaveFails
      <4>1. pc' \in {"request", "idle"} /\ offered' = 0
        BY <3>5, <3>7 DEF PrekeySaveFails, GiveUpKeys, Goto
      <4> QED BY <3>1, <3>3, <3>4, <4>1 DEF IInv, WritingIdentity, KeptBeforePublished
    <3> QED BY <2>5, <3>6, <3>7
  <2>6. ASSUME NEW ok \in BOOLEAN, ServerAccepts(ok)
        PROVE IInv'
    <3>1. /\ pc = "request" /\ session # "off" /\ pc' \in {"token", "idle"}
          /\ UNCHANGED <<session, mem, disk>>
          /\ fresh'.identity = fresh.identity
      BY <2>6 DEF ServerAccepts, Goto, IInv, TypeOK
    <3>2. \A u \in Users : \/ server'.bundle[u] = server.bundle[u]
                           \/ offered # 0 /\ server'.bundle[u] = RequestBundle
      <4>1. server'.bundle = [server.bundle EXCEPT
                                ![who] = IF offered # 0 THEN RequestBundle ELSE @]
        BY <2>6 DEF ServerAccepts
      <4>2. server.bundle \in [Users -> Bundle]
        BY DEF TypeOK
      <4> QED BY <4>1, <4>2
    <3>3. ASSUME offered # 0
          PROVE  /\ RequestBundle.identity = disk.identity[4]
                 /\ RequestBundle.signer = disk.identity[4]
      <4>1. mem.identity[4] # 0 /\ disk.identity = mem.identity
        BY <3>1, <3>3 DEF IInv, KeptBeforePublished
      <4>2. mem.identity[2] = mem.identity[4] /\ mem.identity[3] = mem.identity[4]
        BY <4>1 DEF IInv, WholeWhenLastIsThere, Part
      <4> QED BY <4>1, <4>2 DEF RequestBundle
    <3>4. PublishedIsKept'
      BY <3>1, <3>2, <3>3 DEF IInv, PublishedIsKept
    <3> QED BY <3>1, <3>4 DEF IInv, WholeWhenLastIsThere, MemoryHasKept, WritingIdentity,
                              KeptBeforePublished
  <2>7. ASSUME NEW ok \in BOOLEAN, PersistToken(ok) \/ RestoreToken(ok) \/ ForgetToken(ok)
        PROVE IInv'
    <3>1. /\ session # "off" /\ session' # "off" /\ server' = server /\ fresh' = fresh
          /\ pc' \in {"row", "idle", "rerow", "drop"}
      BY <2>7 DEF PersistToken, RestoreToken, ForgetToken, Goto, IInv
    <3>2. /\ WithToken.identity = mem.identity
          /\ [mem EXCEPT !.token[who] = 0].identity = mem.identity
      BY DEF WithToken, TypeOK, Vault
    <3>3. /\ WholeWhenLastIsThere' /\ MemoryHasKept'
          /\ disk.identity[4] # 0 => disk'.identity = disk.identity
      BY <2>7, <3>1, <3>2, OtherSecretSaved DEF PersistToken, RestoreToken, ForgetToken
    <3> QED BY <3>1, <3>3 DEF IInv, WritingIdentity, KeptBeforePublished, PublishedIsKept
  <2>8. ASSUME NEW ok \in BOOLEAN, NEW other \in BOOLEAN,
               \/ RequestFails \/ RefreshFails \/ RefreshAccepted(ok, other)
               \/ PersistRow(ok) \/ RestoreRow(ok) \/ Logout(ok) \/ DropRow(ok)
        PROVE IInv'
    <3>1. /\ UNCHANGED <<mem, disk>> /\ session # "off" /\ session' # "off"
          /\ pc' \in {"retoken", "forget", "idle"}
      BY <2>8 DEF RequestFails, RefreshFails, RefreshAccepted, PersistRow, RestoreRow,
                  Logout, DropRow, NoCall, Begin, Goto, IInv
    <3>2. server'.bundle = server.bundle /\ fresh'.identity = fresh.identity
      BY <2>8 DEF RequestFails, RefreshFails, RefreshAccepted, PersistRow, RestoreRow,
                  Logout, DropRow, TypeOK
    <3> QED BY <3>1, <3>2 DEF IInv, WholeWhenLastIsThere, MemoryHasKept, WritingIdentity,
                              KeptBeforePublished, PublishedIsKept
  <2>9. CASE UNCHANGED vars
    BY <2>9 DEF vars, job, IInv, WholeWhenLastIsThere, MemoryHasKept, WritingIdentity,
                KeptBeforePublished, PublishedIsKept
  <2> QED BY <2>1, <2>2, <2>3, <2>4, <2>5, <2>6, <2>7, <2>8, <2>9 DEF Next
<1> QED BY <1>1, <1>2, TypeCorrect, PTL DEF Spec

\* No half of an abandoned identity survives in a whole one.
THEOREM IdentityIsWhole == Spec => []IdentityWhole
<1>1. IInv => IdentityWhole
  BY DEF IInv, WholeWhenLastIsThere, IdentityWhole, HasIdentity, Part
<1> QED BY <1>1, IdentityInvariant, PTL

\* What is published is whole in the vault file, however saves fail and the
\* process dies.
THEOREM PublishedIsDurable == Spec => []PublishedIdentityDurable
<1>1. IInv => PublishedIdentityDurable
  BY DEF IInv, PublishedIsKept, WholeWhenLastIsThere, PublishedIdentityDurable, Part
<1> QED BY <1>1, IdentityInvariant, PTL

(***************************************************************************)
(* The session                                                             *)
(***************************************************************************)

\* A step leads to a step of the same call.
LEMMA CallInProgressStep ==
  ASSUME TypeOK, SInv, [Next]_vars
  PROVE  CallInProgress'
<1> USE DEF CallInProgress, LoginSteps, RestoreSteps, LogoutSteps, Idle
<1>0. CallInProgress /\ SessionStaysBacked
  BY DEF SInv
<1>1. CASE Boot
  BY <1>1, <1>0 DEF Boot, Begin, NoCall
<1>2. CASE Crash
  BY <1>2, <1>0 DEF Crash, Begin, NoCall
<1>3. ASSUME NEW c \in {"register", "login"}, NEW u \in Users, Submit(c, u)
      PROVE  CallInProgress'
  BY <1>3, <1>0 DEF Submit, Begin, NewPrekey, NewIdentity, TypeOK
<1>4. CASE StoreIdentityPart \/ IdentitySaveFails
  BY <1>4, <1>0 DEF StoreIdentityPart, IdentitySaveFails, Goto, GiveUpKeys
<1>5. CASE StorePrekeyPart \/ PrekeySaveFails
  BY <1>5, <1>0 DEF StorePrekeyPart, PrekeySaveFails, Goto, GiveUpKeys
<1>6. ASSUME NEW ok \in BOOLEAN, ServerAccepts(ok) \/ PersistToken(ok) \/ PersistRow(ok)
      PROVE  CallInProgress'
  BY <1>6, <1>0 DEF ServerAccepts, PersistToken, PersistRow, Goto
<1>7. ASSUME NEW ok \in BOOLEAN, NEW other \in BOOLEAN,
             \/ RefreshAccepted(ok, other) \/ RestoreToken(ok) \/ RestoreRow(ok)
             \/ RequestFails \/ RefreshFails
      PROVE  CallInProgress'
  BY <1>7, <1>0 DEF RefreshAccepted, RestoreToken, RestoreRow, RequestFails, RefreshFails, Goto
<1>8. ASSUME NEW ok \in BOOLEAN, Logout(ok) \/ ForgetToken(ok) \/ DropRow(ok)
      PROVE  CallInProgress'
  BY <1>8, <1>0 DEF Logout, ForgetToken, DropRow, NoCall, Begin, Goto
<1>9. CASE UNCHANGED vars
  BY <1>9, <1>0 DEF vars, job
<1> QED BY <1>1, <1>2, <1>3, <1>4, <1>5, <1>6, <1>7, <1>8, <1>9 DEF Next

\* The rows do not change between reading the newest and using it.
LEMMA CallOfNewestAccountStep ==
  ASSUME TypeOK, SInv, [Next]_vars
  PROVE  CallOfNewestAccount'
<1> USE DEF CallOfNewestAccount, RestoreSteps, LogoutSteps, ActiveAccount, Idle
<1>0. CallOfNewestAccount
  BY DEF SInv
<1>1. CASE Boot
  BY <1>1 DEF Boot, Begin, NoCall
<1>2. CASE Crash
  BY <1>2 DEF Crash, Begin, NoCall
<1>3. ASSUME NEW c \in {"register", "login"}, NEW u \in Users, Submit(c, u)
      PROVE  CallOfNewestAccount'
  BY <1>3 DEF Submit, Begin
<1>4. CASE StoreIdentityPart \/ IdentitySaveFails
  BY <1>4 DEF StoreIdentityPart, IdentitySaveFails, Goto, GiveUpKeys
<1>5. CASE StorePrekeyPart \/ PrekeySaveFails
  BY <1>5 DEF StorePrekeyPart, PrekeySaveFails, Goto, GiveUpKeys
<1>6. ASSUME NEW ok \in BOOLEAN, ServerAccepts(ok) \/ PersistToken(ok) \/ PersistRow(ok)
      PROVE  CallOfNewestAccount'
  BY <1>6 DEF ServerAccepts, PersistToken, PersistRow, Goto
<1>7. ASSUME NEW ok \in BOOLEAN, NEW other \in BOOLEAN,
             \/ RefreshAccepted(ok, other) \/ RestoreToken(ok) \/ RestoreRow(ok)
             \/ RequestFails \/ RefreshFails
      PROVE  CallOfNewestAccount'
  BY <1>7, <1>0 DEF RefreshAccepted, RestoreToken, RestoreRow, RequestFails, RefreshFails, Goto
<1>8. ASSUME NEW ok \in BOOLEAN, Logout(ok) \/ ForgetToken(ok) \/ DropRow(ok)
      PROVE  CallOfNewestAccount'
  BY <1>8, <1>0 DEF Logout, ForgetToken, DropRow, NoCall, Begin, Goto
<1>9. CASE UNCHANGED vars
  BY <1>9, <1>0 DEF vars, job
<1> QED BY <1>1, <1>2, <1>3, <1>4, <1>5, <1>6, <1>7, <1>8, <1>9 DEF Next

\* A save changes the secret it is for and no other.
LEMMA TokenUpdates ==
  ASSUME TypeOK
  PROVE  /\ WithIdentityPart.token = mem.token /\ WithPrekeyPart.token = mem.token
         /\ WithIdentityPart.prekey = mem.prekey
         /\ WithToken.prekey = mem.prekey /\ [mem EXCEPT !.token[who] = 0].prekey = mem.prekey
         /\ ~Idle => WithToken.token[who] = issued /\ [mem EXCEPT !.token[who] = 0].token[who] = 0
  BY DEF TypeOK, Vault, WithIdentityPart, WithPrekeyPart, WithToken

\* The context and the token in memory go together.
LEMMA ContextIsIssuedStep ==
  ASSUME TypeOK, SInv, [Next]_vars
  PROVE  ContextIsIssued'
<1> USE DEF ContextIsIssued, Idle
<1>0. ContextIsIssued
  BY DEF SInv
<1>a. fresh \in [identity : Nat, prekey : Nat, token : Nat]
  BY DEF TypeOK
<1>b. fresh'.token = fresh.token \/ fresh' = [fresh EXCEPT !.token = @ + 1]
  BY <1>a DEF Next, Boot, Crash, Submit, StoreIdentityPart, IdentitySaveFails, StorePrekeyPart,
     PrekeySaveFails, RequestFails, RefreshFails, ServerAccepts, PersistToken, PersistRow,
     RestoreToken, RestoreRow, Logout, ForgetToken, DropRow, RefreshAccepted, NewPrekey,
     NewIdentity, vars
<1>c. fresh'.token # 0
  BY <1>0, <1>a, <1>b
<1>1. CASE Boot
  BY <1>1, <1>c DEF Boot, Begin, NoCall
<1>2. CASE Crash
  BY <1>2, <1>c DEF Crash, Begin, NoCall
<1>3. ASSUME NEW c \in {"register", "login"}, NEW u \in Users, Submit(c, u)
      PROVE  ContextIsIssued'
  BY <1>3, <1>c DEF Submit, Begin
<1>4. CASE StoreIdentityPart \/ IdentitySaveFails
  BY <1>4, <1>c DEF StoreIdentityPart, IdentitySaveFails, Goto, GiveUpKeys
<1>5. CASE StorePrekeyPart \/ PrekeySaveFails
  BY <1>5, <1>c DEF StorePrekeyPart, PrekeySaveFails, Goto, GiveUpKeys
<1>6. ASSUME NEW ok \in BOOLEAN, ServerAccepts(ok)
      PROVE  ContextIsIssued'
  BY <1>6, <1>0, <1>c DEF ServerAccepts, Goto
<1>7. ASSUME NEW ok \in BOOLEAN, NEW other \in BOOLEAN, RefreshAccepted(ok, other)
      PROVE  ContextIsIssued'
  BY <1>7, <1>0, <1>c DEF RefreshAccepted, Goto
<1>8. ASSUME NEW ok \in BOOLEAN, PersistToken(ok) \/ RestoreToken(ok)
      PROVE  ContextIsIssued'
  <2>1. mem'.token[who] = issued
    BY <1>8, TokenUpdates DEF PersistToken, RestoreToken, SetVault
  <2> QED BY <1>8, <1>0, <1>c, <2>1 DEF PersistToken, RestoreToken, Goto
<1>9. ASSUME NEW ok \in BOOLEAN, ForgetToken(ok)
      PROVE  ContextIsIssued'
  <2>1. mem'.token[who] = 0
    BY <1>9, TokenUpdates DEF ForgetToken, SetVault
  <2> QED BY <1>9, <1>c, <2>1 DEF ForgetToken, Goto
<1>10. ASSUME NEW ok \in BOOLEAN,
              \/ PersistRow(ok) \/ RestoreRow(ok) \/ Logout(ok) \/ DropRow(ok)
              \/ RequestFails \/ RefreshFails
       PROVE  ContextIsIssued'
  BY <1>10, <1>c DEF PersistRow, RestoreRow, Logout, DropRow, RequestFails, RefreshFails, Goto,
     Begin, NoCall
<1>11. CASE UNCHANGED vars
  BY <1>11, <1>0 DEF vars, job
<1> QED BY <1>1, <1>2, <1>3, <1>4, <1>5, <1>6, <1>7, <1>8, <1>9, <1>10, <1>11 DEF Next

\* A context, of a call that fails later too, is of a token that is accepted and in memory.
LEMMA ContextStaysLiveStep ==
  ASSUME TypeOK, SInv, [Next]_vars
  PROVE  ContextStaysLive'
<1> USE DEF ContextStaysLive, LogoutSteps, Ctx, NoCtx
<1>0. ContextStaysLive /\ ContextIsIssued /\ CallInProgress /\ CallOfNewestAccount /\ LoginIsSaved
  BY DEF SInv
<1>a. /\ server \in [known : SUBSET Users, bundle : [Users -> Bundle], tokens : [Users -> SUBSET Nat]]
      /\ ctx \in Ctx /\ (~Idle => who \in Users) /\ fresh.token \in Nat /\ NoUser \notin Users
  BY NoUserAssumption DEF TypeOK
<1>b. session' = "off" => ctx' = NoCtx
  <2>1. Crash \/ UNCHANGED vars \/ session' # "off"
    BY <1>0 DEF Next, Boot, Submit, StoreIdentityPart, IdentitySaveFails, StorePrekeyPart,
       PrekeySaveFails, RequestFails, RefreshFails, ServerAccepts, PersistToken, PersistRow,
       RestoreToken, RestoreRow, Logout, ForgetToken, DropRow, RefreshAccepted, CallInProgress, Idle
  <2> QED BY <1>0, <2>1 DEF Crash, vars
<1>1. CASE Boot
  BY <1>1, <1>0 DEF Boot, Begin, NoCall
<1>2. CASE Crash
  BY <1>2, <1>b DEF Crash, Begin, NoCall
<1>3. ASSUME NEW c \in {"register", "login"}, NEW u \in Users, Submit(c, u)
      PROVE  ContextStaysLive'
  BY <1>3, <1>0, <1>b DEF Submit, Begin, Idle
<1>4. CASE StoreIdentityPart \/ IdentitySaveFails \/ StorePrekeyPart \/ PrekeySaveFails
  <2>1. mem'.token = mem.token
    BY <1>4, TokenUpdates DEF StoreIdentityPart, IdentitySaveFails, StorePrekeyPart, PrekeySaveFails,
       SetVault
  <2>2. UNCHANGED <<ctx, server>> /\ pc \in {"identity", "prekey"}
        /\ pc' \in {"identity", "prekey", "request", "idle"}
    BY <1>4 DEF StoreIdentityPart, IdentitySaveFails, StorePrekeyPart, PrekeySaveFails, Goto, GiveUpKeys
  <2> QED BY <1>0, <1>b, <2>1, <2>2
<1>5. ASSUME NEW ok \in BOOLEAN, ServerAccepts(ok)
      PROVE  ContextStaysLive'
  <2>1. \A u \in Users : server.tokens[u] \subseteq server'.tokens[u]
    BY <1>5, <1>a DEF ServerAccepts
  <2>2. UNCHANGED <<ctx, mem>> /\ pc = "request" /\ pc' \in {"token", "idle"}
    BY <1>5 DEF ServerAccepts, Goto
  <2> QED BY <1>0, <1>b, <2>1, <2>2
<1>6. ASSUME NEW ok \in BOOLEAN, PersistToken(ok)
      PROVE  ContextStaysLive'
  <2>1. mem'.token[who] = issued /\ who \in Users /\ issued \in server.tokens[who]
    BY <1>6, <1>0, <1>a, TokenUpdates DEF PersistToken, SetVault, LoginIsSaved, Idle
  <2>2. ctx' = [user |-> who, token |-> issued] /\ server' = server /\ pc' \in {"row", "idle"}
    BY <1>6 DEF PersistToken, Goto
  <2> QED BY <1>b, <2>1, <2>2
<1>7. ASSUME NEW retired \in BOOLEAN, NEW delivered \in BOOLEAN, RefreshAccepted(retired, delivered)
      PROVE  ContextStaysLive'
  <2>1. who \in Users /\ ctx = NoCtx
    BY <1>7, <1>0, <1>a DEF RefreshAccepted, Idle
  <2>2. fresh.token \in server'.tokens[who]
    BY <1>7, <1>a, <2>1 DEF RefreshAccepted
  <2>3. \/ pc' = "retoken" /\ ctx' = [user |-> who, token |-> fresh.token]
        \/ pc' = "idle" /\ ctx' = ctx
    BY <1>7 DEF RefreshAccepted, Goto
  <2> QED BY <1>b, <2>1, <2>2, <2>3
<1>8. ASSUME NEW ok \in BOOLEAN, RestoreToken(ok)
      PROVE  ContextStaysLive'
  <2>1. mem'.token[who] = issued /\ ctx = [user |-> who, token |-> issued]
    BY <1>8, <1>0, TokenUpdates DEF RestoreToken, SetVault, ContextIsIssued, Idle
  <2>2. UNCHANGED <<ctx, server>> /\ pc = "retoken" /\ pc' = "rerow"
    BY <1>8 DEF RestoreToken, Goto
  <2> QED BY <1>0, <1>b, <2>1, <2>2
<1>9. ASSUME NEW ok \in BOOLEAN, PersistRow(ok) \/ RestoreRow(ok) \/ RequestFails \/ RefreshFails
      PROVE  ContextStaysLive'
  <2>1. UNCHANGED <<ctx, server, mem>> /\ pc \in {"row", "rerow", "request", "refresh"} /\ pc' = "idle"
    BY <1>9 DEF PersistRow, RestoreRow, RequestFails, RefreshFails, Goto
  <2> QED BY <1>0, <1>b, <2>1
<1>10. ASSUME NEW ok \in BOOLEAN, Logout(ok) \/ ForgetToken(ok) \/ DropRow(ok)
       PROVE  ContextStaysLive'
  <2>1. CASE Logout(ok)
    BY <2>1, <1>0, <1>b DEF Logout, Begin, NoCall, Idle
  <2>2. CASE ForgetToken(ok)
    BY <2>2, <1>0, <1>b DEF ForgetToken, Goto
  <2>3. CASE DropRow(ok)
    BY <2>3, <1>b DEF DropRow, Goto
  <2> QED BY <1>10, <2>1, <2>2, <2>3
<1>11. CASE UNCHANGED vars
  BY <1>11, <1>0 DEF vars, job
<1> QED BY <1>1, <1>2, <1>3, <1>4, <1>5, <1>6, <1>7, <1>8, <1>9, <1>10, <1>11 DEF Next

\* A call that fails before it comes to the context leaves the session as it was.
LEMMA SessionStaysBackedStep ==
  ASSUME TypeOK, SInv, [Next]_vars
  PROVE  SessionStaysBacked'
<1> USE DEF SessionStaysBacked, Entered, ActiveAccount, Idle
<1>0. SessionStaysBacked /\ CallInProgress /\ CallOfNewestAccount /\ ContextIsIssued
  BY DEF SInv
<1>1. CASE Boot \/ Crash
  BY <1>1 DEF Boot, Crash
<1>2. ASSUME NEW c \in {"register", "login"}, NEW u \in Users, Submit(c, u)
      PROVE  SessionStaysBacked'
  BY <1>2, <1>0 DEF Submit, Begin
<1>3. CASE StoreIdentityPart \/ IdentitySaveFails \/ StorePrekeyPart \/ PrekeySaveFails
  <2>1. mem'.token = mem.token
    BY <1>3, TokenUpdates DEF StoreIdentityPart, IdentitySaveFails, StorePrekeyPart,
       PrekeySaveFails, SetVault
  <2> QED BY <1>3, <1>0, <2>1 DEF StoreIdentityPart, IdentitySaveFails, StorePrekeyPart,
       PrekeySaveFails
<1>4. ASSUME NEW ok \in BOOLEAN, NEW other \in BOOLEAN,
             ServerAccepts(ok) \/ RequestFails \/ RefreshFails
      PROVE  SessionStaysBacked'
  BY <1>4, <1>0 DEF ServerAccepts, RequestFails, RefreshFails
<1>5. ASSUME NEW ok \in BOOLEAN, NEW other \in BOOLEAN,
             PersistToken(ok) \/ RestoreToken(ok) \/ RefreshAccepted(ok, other) \/ DropRow(ok)
      PROVE  SessionStaysBacked'
  <2>1. session' = "out"
    BY <1>5, <1>0 DEF PersistToken, RestoreToken, RefreshAccepted, DropRow, CallInProgress,
       RestoreSteps
  <2> QED BY <2>1
<1>6. ASSUME NEW ok \in BOOLEAN, PersistRow(ok)
      PROVE  SessionStaysBacked'
  <2>1. ctx' = [user |-> who, token |-> issued] /\ issued # 0 /\ mem'.token[who] = issued
    BY <1>6, <1>0 DEF PersistRow, ContextIsIssued
  <2>2. ok => rows' # <<>> /\ rows'[Len(rows')] = who
    <3>1. rows \in Seq(Users) /\ who \in Users
      BY <1>6 DEF PersistRow, TypeOK
    <3> QED BY <1>6, <3>1 DEF PersistRow
  <2>3. ok \/ session' = "out"
    BY <1>6, <1>0 DEF PersistRow, CallInProgress
  <2> QED BY <2>1, <2>2, <2>3
<1>7. ASSUME NEW ok \in BOOLEAN, RestoreRow(ok)
      PROVE  SessionStaysBacked'
  BY <1>7, <1>0 DEF RestoreRow, ContextIsIssued, CallOfNewestAccount, RestoreSteps
<1>8. ASSUME NEW ok \in BOOLEAN, Logout(ok) \/ ForgetToken(ok)
      PROVE  SessionStaysBacked'
  BY <1>8, <1>0 DEF Logout, ForgetToken, Begin, NoCall, Goto
<1>9. CASE UNCHANGED vars
  BY <1>9, <1>0 DEF vars, job
<1> QED BY <1>1, <1>2, <1>3, <1>4, <1>5, <1>6, <1>7, <1>8, <1>9 DEF Next

\* The token of a login is in the file before its row is.
LEMMA LoginIsSavedStep ==
  ASSUME TypeOK, SInv, [Next]_vars
  PROVE  LoginIsSaved'
<1> USE DEF LoginIsSaved, FreshLoginSurvivesRestart, ActiveAccount, Idle
<1>0. LoginIsSaved /\ CallInProgress /\ ContextIsIssued /\ SessionStaysBacked
  BY DEF SInv
<1>1. CASE Boot \/ Crash
  BY <1>1 DEF Boot, Crash, Begin, NoCall
<1>2. ASSUME NEW c \in {"register", "login"}, NEW u \in Users, Submit(c, u)
      PROVE  LoginIsSaved'
  BY <1>2 DEF Submit, Begin
<1>3. CASE StoreIdentityPart \/ IdentitySaveFails \/ StorePrekeyPart \/ PrekeySaveFails
  <2>1. session' = session /\ session # "in"
    BY <1>3, <1>0 DEF StoreIdentityPart, IdentitySaveFails, StorePrekeyPart, PrekeySaveFails,
       CallInProgress, LogoutSteps
  <2>2. pc' \in {"identity", "prekey", "request", "idle"}
    BY <1>3 DEF StoreIdentityPart, IdentitySaveFails, StorePrekeyPart, PrekeySaveFails, Goto, GiveUpKeys
  <2> QED BY <2>1, <2>2
<1>4. ASSUME NEW ok \in BOOLEAN, ServerAccepts(ok)
      PROVE  LoginIsSaved'
  <2>1. session' # "in" /\ pc' \in {"token", "idle"} /\ who' = who
    BY <1>4, <1>0 DEF ServerAccepts, CallInProgress, LogoutSteps, Goto
  <2>2. pc' = "token" => issued' = fresh.token
    BY <1>4 DEF ServerAccepts, Goto
  <2>3. fresh.token \in server'.tokens[who]
    <3>1. who \in Users /\ server.tokens \in [Users -> SUBSET Nat]
      BY <1>4 DEF ServerAccepts, TypeOK
    <3>2. server'.tokens = [server.tokens EXCEPT ![who] = @ \cup {fresh.token}]
      BY <1>4 DEF ServerAccepts
    <3> QED BY <3>1, <3>2
  <2> QED BY <2>1, <2>2, <2>3
<1>5. ASSUME NEW ok \in BOOLEAN, PersistToken(ok)
      PROVE  LoginIsSaved'
  <2>1. mem'.token[who] = issued /\ (ok => disk' = mem')
    BY <1>5, TokenUpdates DEF PersistToken, SetVault
  <2>2. session' = "out" /\ server' = server /\ pc = "token"
    BY <1>5 DEF PersistToken
  <2>3. pc' = (IF ok THEN "row" ELSE "idle") /\ who' = who /\ issued' = issued
    BY <1>5 DEF PersistToken, Goto
  <2> QED BY <1>0, <2>1, <2>2, <2>3
<1>6. ASSUME NEW ok \in BOOLEAN, PersistRow(ok)
      PROVE  LoginIsSaved'
  <2>1. ctx' = [user |-> who, token |-> issued] /\ UNCHANGED <<disk, server>>
    BY <1>6, <1>0 DEF PersistRow, ContextIsIssued
  <2>2. ok => rows' # <<>> /\ rows'[Len(rows')] = who
    <3>1. rows \in Seq(Users) /\ who \in Users
      BY <1>6 DEF PersistRow, TypeOK
    <3> QED BY <1>6, <3>1 DEF PersistRow
  <2>3. (ok \/ session' = "out") /\ pc' = "idle"
    BY <1>6, <1>0 DEF PersistRow, CallInProgress, Goto
  <2> QED BY <1>0, <1>6, <2>1, <2>2, <2>3 DEF PersistRow
<1>7. ASSUME NEW ok \in BOOLEAN, NEW other \in BOOLEAN,
             \/ RefreshAccepted(ok, other) \/ RestoreToken(ok) \/ RestoreRow(ok)
             \/ Logout(ok) \/ ForgetToken(ok) \/ DropRow(ok) \/ RequestFails \/ RefreshFails
      PROVE  LoginIsSaved'
  <2>1. pc' \notin {"token", "row"}
    BY <1>7 DEF RefreshAccepted, RestoreToken, RestoreRow, Logout, ForgetToken, DropRow,
       RequestFails, RefreshFails, Begin, NoCall, Goto
  <2>2. session' = "in" /\ pc' = "idle" => call' \notin {"register", "login"}
    BY <1>7, <1>0 DEF RefreshAccepted, RestoreToken, RestoreRow, Logout, ForgetToken, DropRow,
       RequestFails, RefreshFails, Begin, NoCall, Goto, CallInProgress, RestoreSteps, LogoutSteps
  <2> QED BY <2>1, <2>2
<1>8. CASE UNCHANGED vars
  BY <1>8, <1>0 DEF vars, job
<1> QED BY <1>1, <1>2, <1>3, <1>4, <1>5, <1>6, <1>7, <1>8 DEF Next

\* The last save of the rotation has written all of the prekey before it is sent.
LEMMA PrekeyIsSavedStep ==
  ASSUME TypeOK, IInv, SInv, [Next]_vars
  PROVE  PrekeyIsSaved'
<1> USE DEF PrekeyIsSaved, KeyedSessionUsable, HasPrekey, Idle
<1>0. /\ PrekeyIsSaved /\ CallInProgress /\ CallOfNewestAccount /\ ContextIsIssued
      /\ KeptBeforePublished
  BY DEF SInv, IInv
<1>1. CASE Boot \/ Crash
  BY <1>1 DEF Boot, Crash, Begin, NoCall
<1>2. ASSUME NEW c \in {"register", "login"}, NEW u \in Users, Submit(c, u)
      PROVE  PrekeyIsSaved'
  <2>1. pc' \in {"identity", "prekey"} /\ part' = 1
    BY <1>2 DEF Submit, Begin
  <2> QED BY <2>1
<1>3. CASE StoreIdentityPart \/ IdentitySaveFails \/ PrekeySaveFails
  <2>1. session' # "in" /\ offered' = 0
    BY <1>3, <1>0 DEF StoreIdentityPart, IdentitySaveFails, PrekeySaveFails, Goto, GiveUpKeys,
       CallInProgress, LogoutSteps, KeptBeforePublished
  <2>2. pc' = "prekey" => part' = 1
    BY <1>3 DEF StoreIdentityPart, IdentitySaveFails, PrekeySaveFails, Goto, GiveUpKeys
  <2> QED BY <2>1, <2>2
<1>4. CASE StorePrekeyPart
  <2>1. session' # "in" /\ part \in 1..4
    BY <1>4, <1>0 DEF StorePrekeyPart, CallInProgress, LogoutSteps, TypeOK, Part
  <2>2. /\ mem' = WithPrekeyPart /\ disk' = mem' /\ gen' = gen
        /\ \A p \in 2..4 : p < part => mem.prekey[p] = gen
    BY <1>4, <1>0 DEF StorePrekeyPart, SetVault
  <2>3. \A p \in 2..4 : p <= part => mem'.prekey[p] = gen
    <3>1. mem'.prekey = [mem.prekey EXCEPT ![part] = IF part = 1 THEN keyId - 1 ELSE gen]
      BY <2>2 DEF WithPrekeyPart, TypeOK, Vault
    <3>2. mem.prekey \in [Part -> Nat]
      BY DEF TypeOK, Vault
    <3> QED BY <2>1, <2>2, <3>1, <3>2 DEF Part
  <2>4. CASE MoreParts
    <3>1. pc' = "prekey" /\ part' = part + 1
      BY <1>4, <2>4 DEF StorePrekeyPart
    <3> QED BY <2>1, <2>2, <2>3, <3>1
  <2>5. CASE ~MoreParts
    <3>1. pc' = "request" /\ offered' = gen /\ part = 4
      BY <1>4, <2>1, <2>5 DEF StorePrekeyPart, Goto, MoreParts
    <3> QED BY <2>1, <2>2, <2>3, <3>1
  <2> QED BY <2>4, <2>5
<1>5. ASSUME NEW ok \in BOOLEAN, ServerAccepts(ok)
      PROVE  PrekeyIsSaved'
  <2>1. /\ session' # "in" /\ pc' \in {"token", "idle"} /\ who' = who
        /\ UNCHANGED <<mem, disk, offered>> /\ pc = "request"
    BY <1>5, <1>0 DEF ServerAccepts, CallInProgress, LogoutSteps, Goto
  <2>2. offered # 0 => server'.bundle[who].prekey = offered
    <3>1. who \in Users /\ server.bundle \in [Users -> Bundle]
      BY <1>5 DEF ServerAccepts, TypeOK
    <3>2. server'.bundle = [server.bundle EXCEPT ![who] = IF offered # 0 THEN RequestBundle ELSE @]
      BY <1>5 DEF ServerAccepts
    <3> QED BY <3>1, <3>2 DEF RequestBundle
  <2> QED BY <1>0, <2>1, <2>2
<1>6. ASSUME NEW ok \in BOOLEAN, PersistToken(ok)
      PROVE  PrekeyIsSaved'
  <2>1. mem'.prekey = mem.prekey /\ disk'.prekey \in {mem.prekey, disk.prekey}
    BY <1>6, TokenUpdates DEF PersistToken, SetVault
  <2>2. /\ session' = "out" /\ pc = "token" /\ pc' \in {"row", "idle"}
        /\ UNCHANGED <<server, offered, who>>
    BY <1>6 DEF PersistToken, Goto
  <2> QED BY <1>0, <2>1, <2>2
<1>7. ASSUME NEW ok \in BOOLEAN, PersistRow(ok)
      PROVE  PrekeyIsSaved'
  <2>1. ctx'.user = who
    BY <1>7, <1>0 DEF PersistRow, ContextIsIssued
  <2>2. pc = "row" /\ pc' = "idle" /\ UNCHANGED <<mem, disk, server, offered>>
    BY <1>7 DEF PersistRow, Goto
  <2> QED BY <1>0, <2>1, <2>2
<1>8. ASSUME NEW ok \in BOOLEAN, NEW other \in BOOLEAN,
             \/ RefreshAccepted(ok, other) \/ RestoreToken(ok) \/ RestoreRow(ok)
             \/ Logout(ok) \/ ForgetToken(ok) \/ DropRow(ok) \/ RequestFails \/ RefreshFails
      PROVE  PrekeyIsSaved'
  <2>1. pc' \notin {"prekey", "request", "token", "row"}
    BY <1>8 DEF RefreshAccepted, RestoreToken, RestoreRow, Logout, ForgetToken, DropRow,
       RequestFails, RefreshFails, Begin, NoCall, Goto
  <2>2. session' = "in" => offered' = 0
    BY <1>8, <1>0 DEF RefreshAccepted, RestoreToken, RestoreRow, Logout, ForgetToken, DropRow,
       RequestFails, RefreshFails, Begin, NoCall, CallInProgress, CallOfNewestAccount, RestoreSteps,
       LogoutSteps
  <2> QED BY <2>1, <2>2
<1>9. CASE UNCHANGED vars
  BY <1>9, <1>0 DEF vars, job
<1> QED BY <1>1, <1>2, <1>3, <1>4, <1>5, <1>6, <1>7, <1>8, <1>9 DEF Next

\* SInv is inductive, with what IInv says of a prekey that is being stored.
THEOREM SessionInvariant == Spec => []SInv
<1>1. Init => SInv
  BY DEF Init, SInv, CallInProgress, LoginSteps, RestoreSteps, LogoutSteps, CallOfNewestAccount,
         ContextIsIssued, ContextStaysLive, SessionStaysBacked, Entered, LoginIsSaved,
         FreshLoginSurvivesRestart, PrekeyIsSaved, KeyedSessionUsable, Idle
<1>2. TypeOK /\ IInv /\ SInv /\ [Next]_vars => SInv'
  BY CallInProgressStep, CallOfNewestAccountStep, ContextIsIssuedStep, ContextStaysLiveStep,
     SessionStaysBackedStep, LoginIsSavedStep, PrekeyIsSavedStep DEF SInv
<1> QED BY <1>1, <1>2, TypeCorrect, IdentityInvariant, PTL DEF Spec

\* Context, vault and newest row name one session, whatever failed in between.
THEOREM SessionIsBacked == Spec => []SessionBacked
<1>1. SInv => SessionBacked
  BY DEF SInv, SessionStaysBacked, SessionBacked, ActiveAccount, Idle
<1> QED BY <1>1, SessionInvariant, PTL

\* A context that a failed call has left is of a token in memory and at the server.
THEOREM ContextIsBacked == Spec => []ContextIsLive
<1>1. SInv => ContextIsLive
  BY DEF SInv, ContextStaysLive, ContextIsLive, LogoutSteps, Idle
<1> QED BY <1>1, SessionInvariant, PTL

\* A session entered by a form can be restored after a restart.
THEOREM FreshLoginIsDurable == Spec => []FreshLoginSurvivesRestart
<1>1. SInv => FreshLoginSurvivesRestart
  BY DEF SInv, LoginIsSaved
<1> QED BY <1>1, SessionInvariant, PTL

\* The prekey the server hands out for a session is whole in the file.
THEOREM KeyedSessionIsUsable == Spec => []KeyedSessionUsable
<1>1. SInv => KeyedSessionUsable
  BY DEF SInv, PrekeyIsSaved
<1> QED BY <1>1, SessionInvariant, PTL

\* The session is forgotten, whatever the server, the vault and the table answer.
THEOREM LogoutIsComplete == Spec => LogoutForgets
<1>1. TypeOK /\ SInv /\ [Next]_vars =>
        (Entered /\ session' = "out" /\ call' \in {"logout", "none"} =>
           ctx' = NoCtx /\ mem'.token[ctx.user] = 0)
  <2> SUFFICES ASSUME TypeOK, SInv, [Next]_vars, Entered, session' = "out",
                      call' \in {"logout", "none"}
               PROVE  ctx' = NoCtx /\ mem'.token[ctx.user] = 0
    OBVIOUS
  <2>0. CallInProgress /\ CallOfNewestAccount /\ ContextIsIssued /\ SessionStaysBacked
    BY DEF SInv
  <2>1. session \in {"in", "kept"}
    BY DEF Entered
  <2>2. \E ok \in BOOLEAN : DropRow(ok)
    BY <2>0, <2>1 DEF Next, Boot, Crash, Submit, StoreIdentityPart, IdentitySaveFails,
       StorePrekeyPart, PrekeySaveFails, RequestFails, RefreshFails, ServerAccepts, PersistToken,
       PersistRow, RestoreToken, RestoreRow, Logout, ForgetToken, RefreshAccepted, vars,
       Begin, Goto, CallInProgress, LoginSteps, RestoreSteps, SessionStaysBacked, Entered
  <2>3. pc = "drop" /\ ctx' = NoCtx /\ mem' = mem
    BY <2>2 DEF DropRow
  <2> QED BY <2>0, <2>3 DEF ContextIsIssued, SessionStaysBacked, CallOfNewestAccount, LogoutSteps
<1> QED BY <1>1, SessionInvariant, TypeCorrect, PTL DEF Spec, LogoutForgets

(***************************************************************************)
(* Refinement of DeviceIdentity                                            *)
(***************************************************************************)

\* The kept identity is the last part of the one on disk.
LEMMA KeptIsLastPart == TypeOK /\ IInv => Kept = disk.identity[4]
<1> SUFFICES ASSUME TypeOK, IInv PROVE Kept = disk.identity[4]
  OBVIOUS
<1>1. HasIdentity(disk) <=> disk.identity[4] # 0
  BY WholeIdentity DEF IInv
<1>2. disk.identity[4] # 0 => disk.identity[1] = disk.identity[4]
  BY DEF IInv, WholeWhenLastIsThere, Part
<1> QED BY <1>1, <1>2 DEF Kept

\* No step replaces the identity on disk once its last part is there.
LEMMA IdentityKeptByStep ==
  ASSUME TypeOK, IInv, [Next]_vars, disk.identity[4] # 0
  PROVE  disk'.identity = disk.identity
<1>1. CASE StoreIdentityPart \/ IdentitySaveFails
  <2>1. pc = "identity" /\ session # "off"
    BY <1>1 DEF StoreIdentityPart, IdentitySaveFails, IInv, Idle
  <2> QED BY <2>1 DEF IInv, WritingIdentity, MemoryHasKept
<1>2. CASE StorePrekeyPart \/ PrekeySaveFails
  <2>1. session # "off" /\ session' = session
    BY <1>2 DEF StorePrekeyPart, PrekeySaveFails, IInv, Idle
  <2>2. WithPrekeyPart.identity = mem.identity
    BY DEF WithPrekeyPart, TypeOK, Vault
  <2> QED BY <1>2, <2>1, <2>2, OtherSecretSaved DEF StorePrekeyPart, PrekeySaveFails
<1>3. ASSUME NEW ok \in BOOLEAN, PersistToken(ok) \/ RestoreToken(ok) \/ ForgetToken(ok)
      PROVE  disk'.identity = disk.identity
  <2>1. session # "off" /\ session' # "off"
    BY <1>3 DEF PersistToken, RestoreToken, ForgetToken, IInv, Idle
  <2>2. /\ WithToken.identity = mem.identity
        /\ [mem EXCEPT !.token[who] = 0].identity = mem.identity
    BY DEF WithToken, TypeOK, Vault
  <2> QED BY <1>3, <2>1, <2>2, OtherSecretSaved DEF PersistToken, RestoreToken, ForgetToken
<1>4. ASSUME disk' = disk
      PROVE  disk'.identity = disk.identity
  BY <1>4
<1> QED BY <1>1, <1>2, <1>3, <1>4 DEF Next, Boot, Crash, Submit, RequestFails, RefreshFails,
           ServerAccepts, PersistRow, RestoreRow, Logout, DropRow, RefreshAccepted, vars

\* The identity promise is kept by the detailed module: an identity that has
\* reached the file is never replaced, and nothing else is ever published.
THEOREM ImplementsDeviceIdentity == Spec => KeepsDeviceIdentity
<1>1. Init => Device!Init
  BY DEF Init, Device!Init, Kept, Published, HasIdentity, EmptyVault, Part, NoBundle
<1>2. /\ TypeOK /\ IInv /\ TypeOK' /\ IInv' /\ [Next]_vars
      => [Device!Next]_Device!vars
  <2> SUFFICES ASSUME TypeOK, IInv, TypeOK', IInv', [Next]_vars
               PROVE  [Device!Next]_Device!vars
    OBVIOUS
  <2>1. Kept = disk.identity[4] /\ Kept' = disk'.identity[4]
    <3>1. Kept = disk.identity[4]
      BY KeptIsLastPart
    <3>2. TypeOK' /\ IInv' => (Kept = disk.identity[4])'
      BY KeptIsLastPart, PTL
    <3> QED BY <3>1, <3>2
  <2>2. CASE \E ok \in BOOLEAN : ServerAccepts(ok)
    <3>1. /\ disk' = disk /\ pc = "request" /\ who \in Users
          /\ server'.bundle = [server.bundle EXCEPT
                                ![who] = IF offered # 0 THEN RequestBundle ELSE @]
      BY <2>2 DEF ServerAccepts, TypeOK, Idle
    <3>2. server.bundle \in [Users -> Bundle]
      BY DEF TypeOK
    <3>3. CASE offered # 0
      <4>1. mem.identity[4] # 0 /\ disk.identity = mem.identity
        BY <3>1, <3>3 DEF IInv, KeptBeforePublished
      <4>2. mem.identity[3] = mem.identity[4]
        BY <4>1 DEF IInv, WholeWhenLastIsThere, Part
      <4>3. RequestBundle.identity = Kept /\ Kept # 0
        BY <2>1, <4>1, <4>2 DEF RequestBundle
      <4>4. Published' = [Published EXCEPT ![who] = Kept]
        BY <3>1, <3>2, <3>3, <4>3 DEF Published
      <4> QED BY <2>1, <3>1, <4>3, <4>4 DEF Device!Next, Device!Publish
    <3>4. CASE offered = 0
      <4>1. server'.bundle = server.bundle
        BY <3>1, <3>2, <3>4
      <4> QED BY <2>1, <3>1, <4>1 DEF Published, Device!vars
    <3> QED BY <3>3, <3>4 DEF TypeOK
  <2>3. CASE ~\E ok \in BOOLEAN : ServerAccepts(ok)
    <3>1. server'.bundle = server.bundle
      BY <2>3 DEF Next, Boot, Crash, Submit, StoreIdentityPart, IdentitySaveFails,
         StorePrekeyPart, PrekeySaveFails, RequestFails, RefreshFails, PersistToken, PersistRow,
         RestoreToken, RestoreRow, Logout, ForgetToken, DropRow, RefreshAccepted, vars, TypeOK
    <3>2. disk.identity[4] # 0 => disk'.identity = disk.identity
      BY <2>3, IdentityKeptByStep
    <3>3. Published' = Published
      BY <3>1 DEF Published
    <3>4. disk'.identity[4] \in Nat
      BY DEF TypeOK, Vault, Part
    <3> QED BY <2>1, <3>2, <3>3, <3>4 DEF Device!Next, Device!Keep, Device!vars
  <2> QED BY <2>2, <2>3
<1> QED BY <1>1, <1>2, TypeCorrect, IdentityInvariant, PTL
       DEF Spec, KeepsDeviceIdentity, Device!Spec
=============================================================================
