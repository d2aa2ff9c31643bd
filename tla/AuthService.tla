---------------------------- MODULE AuthService ----------------------------
(***************************************************************************)
(* The session and key life cycle of one device: AuthService on top of the *)
(* vault (VaultService), the identity keys (IdentityKeyStore), the signed  *)
(* prekey (PrekeyManager) and the accounts table, against the server.      *)
(*                                                                         *)
(* The service thread runs one call at a time and the UI thread waits for  *)
(* it (RunOnServiceThread), so a call is a sequence of steps that only a   *)
(* crash of the process can cut short.  Each step is one durable effect: a *)
(* vault save, an HTTP exchange or an SQL statement; each may fail.        *)
(*                                                                         *)
(* Key pairs, prekeys and refresh tokens are fresh numbers; 0 is "absent". *)
(***************************************************************************)
EXTENDS Naturals, Sequences

CONSTANTS Users,        \* the user names typed into the login form
          NoUser,       \* not a user
          MaxIdentity,  \* bound: identity key pairs ever generated
          MaxPrekey,    \* bound: signed prekeys ever generated
          MaxToken      \* bound: refresh tokens the server ever issues

ASSUME NoUserAssumption == NoUser \notin Users
ASSUME BoundsAssumption == {MaxIdentity, MaxPrekey, MaxToken} \subseteq Nat

VARIABLES session, \* "off" (no process), "out", "in" (the last call answered true)
                   \* or "kept" (an earlier one did, and its context is still there)
          mem,     \* VaultService::m_secrets
          disk,    \* the vault file
          keyId,   \* PrekeyManager::m_nextSignedPrekeyId
          rows,    \* accounts table, oldest last_login_ms first
          ctx,     \* AuthService::m_context (and the bearer token, set with it)
          server,  \* what the server holds for this device
          fresh    \* the next unused key pair, prekey and token

\* The service call in progress, or the last one when pc is "idle".
VARIABLES call,     \* which call
          pc, part, \* its next step, and the vault entry that step is at
          who,      \* the user it is for
          gen,      \* the key pair it is storing
          offered,  \* the signed prekey in its request, 0 for a request without keys
          issued    \* the refresh token it was answered

job  == <<call, pc, part, who, gen, offered, issued>>
vars == <<session, mem, disk, keyId, rows, ctx, server, fresh, job>>

Part == 1..4   \* a secret is stored as four vault entries, in this order:
               \* sign_pub, sign_priv, dh_pub, dh_priv of the identity;
               \* id, pub, priv, sig of the signed prekey

Vault == [identity : [Part -> Nat], prekey : [Part -> Nat], token : [Users -> Nat]]

EmptyVault == [identity |-> [p \in Part |-> 0],
               prekey   |-> [p \in Part |-> 0],
               token    |-> [u \in Users |-> 0]]

NoBundle == [identity |-> 0, signer |-> 0, prekey |-> 0]
Bundle   == [identity : Nat, signer : Nat, prekey : Nat]
NoCtx    == [user |-> NoUser, token |-> 0]
Ctx      == [user : Users \cup {NoUser}, token : Nat]

Step == {"idle", "identity", "prekey", "request", "token", "row",
         "refresh", "retoken", "rerow", "forget", "drop"}

Idle == pc = "idle"

\* Mutant: the oldest row instead of the newest.
OldestAccount == rows[1]

\* activeAccount(): ORDER BY last_login_ms DESC LIMIT 1.  Logins are later than
\* the ones before (the wall clock is not set back), so this is the last row.
ActiveAccount == rows[Len(rows)]

(***************************************************************************)
(* VaultService                                                            *)
(***************************************************************************)

\* Mutant: the file is truncated before it is written (QFile, not QSaveFile).
SetVaultInPlace(v, saved) == mem' = v /\ disk' = (IF saved THEN v ELSE EmptyVault)

\* Mutant: a failed save takes the change of the map back.
SetVaultOrNothing(v, saved) == IF saved THEN mem' = v /\ disk' = v ELSE UNCHANGED <<mem, disk>>

\* storeSecret and removeSecret change the map and then save all of it; a
\* failed save leaves the map changed and the file as it was (QSaveFile).
SetVault(v, saved) == mem' = v /\ disk' = (IF saved THEN v ELSE disk)

\* identityKeys(): all four entries are present.
HasIdentity(v) == \A p \in Part : v.identity[p] # 0

Begin(c, u, step) == /\ call' = c /\ who' = u /\ pc' = step
                     /\ part' = 1 /\ offered' = 0 /\ issued' = 0

Goto(step) == pc' = step /\ part' = 1 /\ UNCHANGED <<call, who>>

NoCall == Begin("none", NoUser, "idle") /\ gen' = 0

(***************************************************************************)
(* Start-up and the end of the process                                     *)
(***************************************************************************)

Init == /\ session = "off"
        /\ mem = EmptyVault /\ disk = EmptyVault
        /\ keyId = 1
        /\ rows = <<>>
        /\ ctx = NoCtx
        /\ \E known \in SUBSET Users :
             server = [known  |-> known,
                       bundle |-> [u \in Users |-> NoBundle],
                       tokens |-> [u \in Users |-> {}]]
        /\ fresh = [identity |-> 1, prekey |-> 1, token |-> 1]
        /\ call = "none" /\ pc = "idle" /\ part = 1 /\ who = NoUser
        /\ gen = 0 /\ offered = 0 /\ issued = 0

\* ServiceLocator::initialize unlocks the vault, and the handler goes on with
\* restoreSession, which gives up without an account row or its token.
Boot == /\ session = "off"
        /\ session' = "out"
        /\ mem' = disk
        /\ IF rows # <<>> /\ disk.token[ActiveAccount] # 0
           THEN Begin("restore", ActiveAccount, "refresh") /\ gen' = 0
           ELSE NoCall
        /\ UNCHANGED <<disk, keyId, rows, ctx, server, fresh>>

\* The window is closed between two calls, or the process dies within one.
Crash == /\ session # "off"
         /\ session' = "off"
         /\ mem' = EmptyVault /\ keyId' = 1
         /\ ctx' = NoCtx
         /\ NoCall
         /\ UNCHANGED <<disk, rows, server, fresh>>

(***************************************************************************)
(* registerUser and login                                                  *)
(***************************************************************************)

\* What rotateSignedPrekey does before its first save.
NewPrekey == /\ gen' = fresh.prekey
             /\ fresh' = [fresh EXCEPT !.prekey = @ + 1]
             /\ keyId' = keyId + 1

NewIdentity == /\ gen' = fresh.identity
               /\ fresh' = [fresh EXCEPT !.identity = @ + 1]
               /\ UNCHANGED keyId

\* The Session menu leads to the forms from every page, in a session too.
\* ensureIdentityKeys generates a new identity unless there is a whole one.
Submit(c, u) ==
  /\ session # "off" /\ Idle
  /\ fresh.prekey <= MaxPrekey /\ fresh.token <= MaxToken
  /\ \/ HasIdentity(mem) /\ Begin(c, u, "prekey") /\ NewPrekey
     \/ /\ ~HasIdentity(mem) /\ fresh.identity <= MaxIdentity
        /\ Begin(c, u, "identity") /\ NewIdentity
  /\ session' = IF session = "in" THEN "kept" ELSE session
  /\ UNCHANGED <<mem, disk, rows, ctx, server>>

\* Mutant: the result of a failed save is not looked at.
KeepKeys == Goto("request") /\ offered' = gen

\* registerUser needs its keys; login goes on without them.
GiveUpKeys == Goto(IF call = "login" THEN "request" ELSE "idle") /\ UNCHANGED offered

\* Mutant: entries that are already there are kept.
WithMissingPart == IF mem.identity[part] # 0 THEN mem
                   ELSE [mem EXCEPT !.identity[part] = gen]

WithIdentityPart == [mem EXCEPT !.identity[part] = gen]

\* Mutant: one part too many.
MorePartsInclusive == part <= 4

MoreParts == part < 4

StoreIdentityPart ==
  /\ pc = "identity"
  /\ SetVault(WithIdentityPart, TRUE)
  /\ \/ /\ MoreParts
        /\ part' = part + 1
        /\ UNCHANGED <<keyId, fresh, call, pc, who, gen>>
     \/ /\ ~MoreParts
        /\ Goto("prekey") /\ NewPrekey
  /\ UNCHANGED <<session, rows, ctx, server, offered, issued>>

IdentitySaveFails ==
  /\ pc = "identity"
  /\ SetVault(WithIdentityPart, FALSE)
  /\ GiveUpKeys
  /\ UNCHANGED <<session, keyId, rows, ctx, server, fresh, gen, issued>>

\* The four entries of the signed prekey; the id is the counter of this process.
WithPrekeyPart == [mem EXCEPT !.prekey[part] = IF part = 1 THEN keyId - 1 ELSE gen]

StorePrekeyPart ==
  /\ pc = "prekey"
  /\ SetVault(WithPrekeyPart, TRUE)
  /\ IF MoreParts THEN part' = part + 1 /\ UNCHANGED <<call, pc, who, offered>>
                  ELSE Goto("request") /\ offered' = gen
  /\ UNCHANGED <<session, keyId, rows, ctx, server, fresh, gen, issued>>

PrekeySaveFails ==
  /\ pc = "prekey"
  /\ SetVault(WithPrekeyPart, FALSE)
  /\ GiveUpKeys
  /\ UNCHANGED <<session, keyId, rows, ctx, server, fresh, gen, issued>>

\* The request is refused, lost or times out; the server has not acted on it.
RequestFails ==
  /\ pc = "request"
  /\ Goto("idle")
  /\ UNCHANGED <<session, mem, disk, keyId, rows, ctx, server, fresh, gen, offered, issued>>

\* The keys of the request: the DH identity key, and the prekey signed with
\* the signing identity key.
RequestBundle == [identity |-> mem.identity[3], signer |-> mem.identity[2],
                  prekey |-> offered]

\* The server creates or finds the user, takes the device keys if there are
\* any, and issues a token; the answer may still not arrive.
ServerAccepts(delivered) ==
  /\ pc = "request"
  /\ (who \in server.known) <=> (call = "login")
  /\ server' = [known  |-> server.known \cup {who},
                bundle |-> [server.bundle EXCEPT
                              ![who] = IF offered # 0 THEN RequestBundle ELSE @],
                tokens |-> [server.tokens EXCEPT ![who] = @ \cup {fresh.token}]]
  /\ fresh' = [fresh EXCEPT !.token = @ + 1]
  /\ IF delivered THEN Goto("token") /\ issued' = fresh.token
                  ELSE Goto("idle") /\ UNCHANGED issued
  /\ UNCHANGED <<session, mem, disk, keyId, rows, ctx, gen, offered>>

WithToken == [mem EXCEPT !.token[who] = issued]

\* Mutant: the result of storeSecret is ignored, as restoreSession does.
PersistTokenUnchecked(saved) ==
  /\ pc = "token"
  /\ ctx' = [user |-> who, token |-> issued]
  /\ SetVault(WithToken, saved)
  /\ Goto("row")
  /\ session' = "out"
  /\ UNCHANGED <<keyId, rows, server, fresh, gen, offered, issued>>

\* persistSession sets the context, then stores the token: a failed save ends
\* the call with the context set.
PersistToken(saved) ==
  /\ pc = "token"
  /\ ctx' = [user |-> who, token |-> issued]
  /\ SetVault(WithToken, saved)
  /\ Goto(IF saved THEN "row" ELSE "idle")
  /\ session' = "out"
  /\ UNCHANGED <<keyId, rows, server, fresh, gen, offered, issued>>

\* A new account row for every login; the main page is shown when it is stored.
PersistRow(stored) ==
  /\ pc = "row"
  /\ rows' = IF stored THEN Append(rows, who) ELSE rows
  /\ session' = IF stored THEN "in" ELSE session
  /\ Goto("idle")
  /\ UNCHANGED <<mem, disk, keyId, ctx, server, fresh, gen, offered, issued>>

(***************************************************************************)
(* restoreSession                                                          *)
(***************************************************************************)

RefreshFails ==
  /\ pc = "refresh"
  /\ Goto("idle")
  /\ UNCHANGED <<session, mem, disk, keyId, rows, ctx, server, fresh, gen, offered, issued>>

\* The server answers a valid token with a new one and may retire the old one.
RefreshAccepted(retired, delivered) ==
  LET u == who
      old == mem.token[u]
  IN /\ pc = "refresh"
     /\ fresh.token <= MaxToken
     /\ old \in server.tokens[u]
     /\ server' = [server EXCEPT !.tokens[u] =
                     (IF retired THEN @ \ {old} ELSE @) \cup {fresh.token}]
     /\ fresh' = [fresh EXCEPT !.token = @ + 1]
     /\ IF delivered
        THEN /\ Goto("retoken") /\ issued' = fresh.token
             /\ ctx' = [user |-> u, token |-> fresh.token]
        ELSE Goto("idle") /\ UNCHANGED <<ctx, issued>>
     /\ UNCHANGED <<session, mem, disk, keyId, rows, gen, offered>>

\* The result of storeSecret is ignored here.
RestoreToken(saved) ==
  /\ pc = "retoken"
  /\ SetVault(WithToken, saved)
  /\ Goto("rerow")
  /\ UNCHANGED <<session, keyId, rows, ctx, server, fresh, gen, offered, issued>>

\* The same row again with a later last_login_ms: it stays the newest.
RestoreRow(stored) ==
  /\ pc = "rerow"
  /\ session' = IF stored THEN "in" ELSE session
  /\ Goto("idle")
  /\ UNCHANGED <<mem, disk, keyId, rows, ctx, server, fresh, gen, offered, issued>>

(***************************************************************************)
(* logout                                                                  *)
(***************************************************************************)

\* The local session is dropped whatever the server answers; the account that
\* is forgotten is the active one, the newest row.  Nothing without a context.
Logout(revoked) ==
  /\ session # "off" /\ Idle /\ ctx # NoCtx
  /\ server' = [server EXCEPT !.tokens[ctx.user] = IF revoked THEN @ \ {ctx.token} ELSE @]
  /\ IF rows # <<>>
     THEN /\ Begin("logout", ActiveAccount, "forget") /\ gen' = 0
          /\ UNCHANGED <<ctx, session>>
     ELSE NoCall /\ ctx' = NoCtx /\ session' = "out"
  /\ UNCHANGED <<mem, disk, keyId, rows, fresh>>

\* removeSecret does not save when there is nothing to remove.
ForgetToken(saved) ==
  /\ pc = "forget"
  /\ SetVault([mem EXCEPT !.token[who] = 0], saved /\ mem.token[who] # 0)
  /\ Goto("drop")
  /\ UNCHANGED <<session, keyId, rows, ctx, server, fresh, gen, offered, issued>>

DropRow(deleted) ==
  /\ pc = "drop"
  /\ rows' = IF deleted THEN SubSeq(rows, 1, Len(rows) - 1) ELSE rows
  /\ ctx' = NoCtx
  /\ session' = "out"
  /\ Goto("idle")
  /\ UNCHANGED <<mem, disk, keyId, server, fresh, gen, offered, issued>>

Next == \/ Boot
        \/ Crash
        \/ \E c \in {"register", "login"}, u \in Users : Submit(c, u)
        \/ StoreIdentityPart
        \/ IdentitySaveFails
        \/ StorePrekeyPart
        \/ PrekeySaveFails
        \/ RequestFails
        \/ RefreshFails
        \/ \E ok \in BOOLEAN : \/ ServerAccepts(ok)
                               \/ PersistToken(ok)
                               \/ PersistRow(ok)
                               \/ RestoreToken(ok)
                               \/ RestoreRow(ok)
                               \/ Logout(ok)
                               \/ ForgetToken(ok)
                               \/ DropRow(ok)
        \/ \E retired, delivered \in BOOLEAN : RefreshAccepted(retired, delivered)

Spec == Init /\ [][Next]_vars

(***************************************************************************)
(* Properties                                                              *)
(***************************************************************************)

\* The type invariant.
TypeOK == /\ session \in {"off", "out", "kept", "in"}
          /\ mem \in Vault /\ disk \in Vault
          /\ keyId \in Nat \ {0}
          /\ rows \in Seq(Users)
          /\ ctx \in Ctx
          /\ server \in [known  : SUBSET Users,
                        bundle : [Users -> Bundle],
                        tokens : [Users -> SUBSET Nat]]
          /\ fresh \in [identity : Nat, prekey : Nat, token : Nat]
          /\ call \in {"none", "register", "login", "restore", "logout"}
          /\ pc \in Step /\ part \in Part
          /\ who \in Users \cup {NoUser} /\ (~Idle => who \in Users)
          /\ gen \in Nat /\ offered \in Nat /\ issued \in Nat

\* However saves fail and crashes cut ensureIdentityKeys short, four present
\* entries are one identity: no half of an abandoned pair survives in a set
\* that identityKeys() takes for whole.
IdentityWhole == \A v \in {mem, disk} :
                   HasIdentity(v) => \A p \in Part : v.identity[p] = v.identity[1]

\* An identity key the server has published for this device is whole in the
\* vault file, so a crash right after can not leave the device without the
\* private half, and it signed the prekey published with it.  It takes both
\* call sites: ensureIdentityKeys may answer true on an identity that is only
\* in memory, and it is the saves of rotateSignedPrekey that close the gap.
PublishedIdentityDurable ==
  \A u \in Users : server.bundle[u].identity # 0 =>
    /\ \A p \in Part : disk.identity[p] = server.bundle[u].identity
    /\ server.bundle[u].signer = server.bundle[u].identity

\* After a registration or login that carried keys, the prekey the server
\* hands to peers is the one in the vault file, with all of its entries.
KeyedSessionUsable ==
  session = "in" /\ Idle /\ offered # 0 =>
    \A p \in 2..4 : disk.prekey[p] = server.bundle[ctx.user].prekey

\* A call that answered true has left a context.
Entered == session \in {"in", "kept"}

\* Between calls the context, the vault and the newest account row name the
\* same session, also after later calls that failed before they reached the
\* context: logout, which goes by the newest row, forgets the session it ends.
SessionBacked ==
  Entered /\ Idle => /\ rows # <<>> /\ ctx.user = rows[Len(rows)]
                     /\ ctx.token # 0 /\ mem.token[ctx.user] = ctx.token

\* Between calls a context, also one that a call has set before it answered false,
\* is backed by the token that memory has of its user, and the server accepts it.
\* That logout then forgets that token is not said: it goes by the newest row.
ContextIsLive ==
  Idle /\ ctx # NoCtx => /\ mem.token[ctx.user] = ctx.token
                         /\ ctx.token \in server.tokens[ctx.user]

\* A session entered by registerUser or login survives a restart: its token
\* is in the file, still valid, and its row is the one restoreSession takes.
FreshLoginSurvivesRestart ==
  session = "in" /\ Idle /\ call \in {"register", "login"} =>
    /\ disk.token[ctx.user] = ctx.token
    /\ ctx.token \in server.tokens[ctx.user]
    /\ ctx.user = ActiveAccount

\* logout leaves neither the context nor the user's refresh token in memory,
\* whatever the server, the save and the SQL delete answer.
LogoutForgets ==
  [][Entered /\ session' = "out" /\ call' \in {"logout", "none"} =>
       ctx' = NoCtx /\ mem'.token[ctx.user] = 0]_vars

(***************************************************************************)
(* The inductive invariant behind IdentityWhole, PublishedIdentityDurable  *)
(* and the refinement of DeviceIdentity.                                   *)
(***************************************************************************)

\* The DH private key is stored last, so where it is present all parts agree.
WholeWhenLastIsThere ==
  \A v \in {mem, disk} : v.identity[4] # 0 =>
    \A p \in Part : v.identity[p] = v.identity[4]

\* A running process has in memory the identity that is whole on disk.
MemoryHasKept == session # "off" /\ disk.identity[4] # 0 => mem.identity = disk.identity

\* Parts are written from the first to the last, over whatever was there.
WritingIdentity ==
  pc = "identity" => /\ gen # 0 /\ mem.identity[4] = 0
                         /\ \A p \in Part : p < part => mem.identity[p] = gen

\* The first save of the rotation writes the identity out with the prekey.
KeptBeforePublished ==
  /\ pc \in {"identity", "prekey"} => offered = 0
  /\ pc = "prekey" => /\ mem.identity[4] # 0
                      /\ part > 1 => disk.identity = mem.identity
  /\ pc = "request" /\ offered # 0 => /\ mem.identity[4] # 0
                                      /\ disk.identity = mem.identity

PublishedIsKept ==
  \A u \in Users : server.bundle[u].identity # 0 =>
    /\ server.bundle[u].identity = disk.identity[4]
    /\ server.bundle[u].signer = disk.identity[4]

IInv == /\ session = "off" => Idle
        /\ fresh.identity # 0
        /\ WholeWhenLastIsThere
        /\ MemoryHasKept
        /\ WritingIdentity
        /\ KeptBeforePublished
        /\ PublishedIsKept

(***************************************************************************)
(* The inductive invariant behind the properties of the session.           *)
(***************************************************************************)

LoginSteps   == {"identity", "prekey", "request", "token", "row"}
RestoreSteps == {"refresh", "retoken", "rerow"}
LogoutSteps  == {"forget", "drop"}

\* Which call a step belongs to, and what that call has made of the session: a
\* call that has come to the context has ended the session before it.
CallInProgress ==
  /\ pc \in LoginSteps => call \in {"register", "login"}
  /\ pc \in RestoreSteps => call = "restore" /\ session = "out"
  /\ pc \in LogoutSteps => call = "logout"
  /\ pc = "row" => session = "out"
  /\ session = "off" => Idle
  /\ session = "in" => pc \in LogoutSteps \cup {"idle"}

\* restoreSession and logout stay with the newest row they have read.
CallOfNewestAccount ==
  pc \in RestoreSteps \cup LogoutSteps => /\ rows # <<>> /\ who = ActiveAccount
                                         /\ offered = 0

\* A context that has been set is that of the token the server has issued, and
\* so is the entry in memory, until it is forgotten.
ContextIsIssued ==
  /\ fresh.token # 0
  /\ pc \in {"token", "row", "retoken", "rerow"} => issued # 0
  /\ pc \in {"row", "retoken", "rerow"} => ctx = [user |-> who, token |-> issued]
  /\ pc \in {"row", "rerow"} => mem.token[who] = issued
  /\ pc = "drop" => mem.token[who] = 0

\* A context is of a token that is valid up to logout, and in memory once the call
\* that has set it has come to store it.  A process and a restore start without one.
ContextStaysLive ==
  /\ session = "off" \/ pc = "refresh" => ctx = NoCtx
  /\ ctx # NoCtx => /\ ctx.user \in Users
                    /\ pc \notin LogoutSteps => ctx.token \in server.tokens[ctx.user]
                    /\ pc \notin LogoutSteps \cup {"retoken"} => mem.token[ctx.user] = ctx.token

\* A session is backed throughout the calls made in it, up to the step of
\* logout that forgets the token.
SessionStaysBacked ==
  Entered => /\ rows # <<>> /\ ctx.user = ActiveAccount
             /\ ctx.token # 0
             /\ pc # "drop" => mem.token[ctx.user] = ctx.token

\* What the server issued to a login is valid there and then saved, in this order.
LoginIsSaved ==
  /\ pc \in {"token", "row"} => issued \in server.tokens[who]
  /\ pc = "row" => disk.token[who] = issued
  /\ FreshLoginSurvivesRestart

\* The prekey of a request is in the file when it is sent and stays there; the
\* server has it from then on.
HasPrekey(v, prekey) == \A p \in 2..4 : v.prekey[p] = prekey

PrekeyIsSaved ==
  /\ pc = "prekey" => \A p \in 2..4 : p < part => mem.prekey[p] = gen
  /\ pc \in {"request", "token", "row"} /\ offered # 0 =>
       HasPrekey(mem, offered) /\ HasPrekey(disk, offered)
  /\ pc \in {"token", "row"} /\ offered # 0 => server.bundle[who].prekey = offered
  /\ KeyedSessionUsable

SInv == /\ CallInProgress /\ CallOfNewestAccount /\ ContextIsIssued /\ ContextStaysLive
        /\ SessionStaysBacked /\ LoginIsSaved /\ PrekeyIsSaved

(***************************************************************************)
(* The refinement mapping to DeviceIdentity                                *)
(***************************************************************************)

Kept      == IF HasIdentity(disk) THEN disk.identity[1] ELSE 0
Published == [u \in Users |-> server.bundle[u].identity]

Device == INSTANCE DeviceIdentity WITH Keys <- Nat \ {0}, NoKey <- 0,
                                         kept <- Kept, published <- Published

\* AuthService, IdentityKeyStore and VaultService keep the promise of
\* DeviceIdentity through failing saves and crashes: an identity that has
\* reached the file is never replaced, and nothing else is ever published.
KeepsDeviceIdentity == Device!Spec
=============================================================================
