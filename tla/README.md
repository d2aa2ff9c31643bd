# VoxDesktop: a TLA+ verification of the client

VoxDesktop is a Qt client of an end-to-end encrypted messenger. These modules
model the parts of it whose correctness depends on the order of events: what a
crash or a failed write leaves behind, what a lossy network does to a ratchet,
which connection belongs to which session, how messages reach the table and the
view, what a start that dies half way leaves of the database. The source is the
reference (`src/` below is the repository root, so the library is `src/src/...` and the
application `src/bin/Application.cpp`).

## 1. The system

### Threads

`bin/Application.cpp` runs the widgets, the `RealtimeSocket` and the poll timer on
the UI thread. Services, repositories and HTTP live on one service thread.
`RunOnServiceThread` posts a call there and *waits* for it, so the two threads
never run handlers of the program at the same time: a handler is one indivisible
sequence of calls, except that the process may die within it. Signals of the
`QWebSocket`, timer timeouts and clicks are handled between handlers, in whatever
order the event loop finds them. This is what decides the grain of the models:
in `AuthService` and `LocalStore` a step is one durable effect (a crash may come
between two), in `Realtime`, `Shell` and `Messages` a step is one handler. The health
check of the Welcome page runs on a thread of the pool; that it ends is a step of its own.

A message box runs the event loop inside a handler, modal to the user but not to
sockets and timers. Only `sendMessageSubmitted` has code after one: it reads the
table and the list again afterwards, for a selection that no push, poll or refresh
changes, so what is handled during the box might as well come before the handler. The
properties are about handlers as wholes: while that box is open the message sent is in the
table and not yet in the view, and `ViewIsCurrent` does not hold of that moment.

### Components, their state and operations

| Component (source) | State | Operations | What makes it correct |
|---|---|---|---|
| Session life cycle (`services/AuthService.cpp`) | context (user, tokens), bearer token | registerUser, login, restoreSession, logout | context, vault, accounts row name one session; a fresh login survives a restart; logout forgets |
| Vault (`crypto/VaultService.cpp`) | map of secrets, the encrypted file | unlock, lock, store, remove, load | a failed save leaves the file as it was |
| Identity keys (`crypto/IdentityKeyStore.cpp`) | four vault entries | ensureIdentityKeys, identityKeys | four present entries are one identity, which is never replaced |
| Prekeys (`crypto/PrekeyManager.cpp`) | signed prekey, one-time queue, id counter | rotate, publish, consume | what peers are handed is on disk here |
| Ratchet (`crypto/DoubleRatchetSession.cpp`) | two chain keys, two counters | encrypt, decrypt | in-order, at-most-once delivery of genuine texts |
| Sender keys (`crypto/SenderKeyManager.cpp`) | current epoch and keys per conversation | rotate, import | an epoch that becomes current never had a key before |
| Realtime socket (`network/RealtimeSocket.cpp`) | URL, token, socket, back-off timer | connect, close, reconnect | the connection is the session's and is never given up |
| Application handlers (`bin/Application.cpp`) | UiState: selection, DM flag, poll cursor, poll timer | connect, login, logout, refresh, open, create, subscribe, send, apply envelope, poll | polling passes over nothing it could have stored, view current, outgoing side right |
| Message sending (`services/MessageSendService.cpp`) | messages and jobs tables | sendMessage, sendCiphertext | what is refused is stored and queued |
| Conversations (`services/ConversationService.cpp`) | conversations table | refresh | a refresh that fails half way takes nothing from the list shown |
| Record sync (`services/SyncService.cpp`) | sync_records | pull, push | a pull that succeeds has missed nothing; a row never passes for what it is not |
| Attachments (`services/AttachmentService.cpp`, `storage/FileStore.cpp`) | files, server uploads | upload, download | an answered upload is sealed and kept; failed ones leave no copy; copies are for ever |
| Storage (`storage/Repositories.cpp`, `Migrations.cpp`, `Database.cpp`) | SQLite tables, schema version | upserts, lists, migrations | the schema is whole or absent |
| Start (`app/ServiceLocator.cpp`) | services, key of the search index | initialize | services only over a whole schema; the key is the one of the runs before |
| Search (`services/SearchService.cpp`) | tokens | index, search | what was indexed is found in later runs |
| HTTP (`network/*Api.cpp`, `NetworkAccess.cpp`) | bearer token | one request each | - |
| Primitives (`crypto/CryptoHelpers.cpp`, ...) | none | wrappers of libsodium | idealised |
| Pages (`ui/auth/WelcomePage.cpp`, `ui/shell/...`) | current page, URL, health check | connect, show, submit | credentials go to checked servers only |
| Other widgets (`ui/...`) | layout | signals | - |

`PROJECT.json` has the status of each under "components".

### How they interact

* Login: UI handler -> `AuthService::login` on the service thread -> identity and
  prekey saves in the vault -> HTTP -> token to the vault -> accounts row; then the
  UI thread connects the socket and refreshes the conversations.
* Push: `QWebSocket` signal -> `RealtimeSocket::onTextMessage` ->
  `envelopeReceived` -> `apply_envelope` -> messages table -> view.
* Poll: started by `socketError`, stopped by logout; a page of pending envelopes
  from `pending_cursor`, each through the same `apply_envelope`.
* Logout: server, vault and row on the service thread, then `RealtimeSocket::close`
  and the poll timer; the signals of the closing socket arrive afterwards.
* Connect: Welcome page -> health check on a thread -> `serverBaseUrlReady` ->
  `ServiceLocator::initialize` on the service thread (vault, database, services) ->
  `restoreSession`; a second connect finds the services running and does nothing.
* Conversations: every login, creation, subscription, sent message and change of
  members refreshes the table and, if the refresh succeeds, the list; some once or
  twice more, a few seconds later.
* Sync and attachments: one service call each, a sequence of requests with writes in
  between; nothing in the application calls them yet. Nor does anything call the
  one-time prekeys, the sender keys or the search.
* The Session menu of `MainWindow` leads to the login form and to logout from every
  page, so a login may start inside a session, and logout may find none.

### What is hard here

Four vault saves where one would do, each of which may fail or be the last before a
crash; memory that is ahead of the file after a failed save; a refresh token the
server has rotated and the client has not stored; signals of one session's socket
in the next session; state kept for a selection that has changed; an envelope that
arrives three ways, repeatedly and in any order; a ratchet that moves its chain
before it knows that the message is genuine; a collection that changes between two
pages of it; a download that breaks off half way and is kept; a migration that dies
between two statements; a queue of keys that is saved late or not at all. Each is listed under "hazards" in
`PROJECT.json` at its line.

## 2. The modules

| Module | Models | Checked by | Proved in |
|---|---|---|---|
| `DeviceIdentity` | abstract: one identity key per device, kept before published | | |
| `AuthService` | AuthService, VaultService, IdentityKeyStore, signed prekey, accounts table | `MCAuthService` | `AuthServiceProofs` |
| `InOrderDelivery` | abstract: in-order, at-most-once delivery | | |
| `Ratchet` | DoubleRatchetSession, both ends, and the network | `MCRatchet` | `RatchetProofs` |
| `Realtime` | RealtimeSocket, session handlers, poll timer | `MCRealtime` | `RealtimeProofs` |
| `Shell` | the pages, the health check, the start of the services and the Session menu, around `Realtime` | `MCRealtime` | `ShellProofs` |
| `Messages` | apply_envelope, poll, refresh, open, create, subscribe, send, restart; conversations, messages and jobs tables | `MCMessages` | `MessagesProofs` |
| `Replica` | abstract: a copy made of what the source has been, that only moves forward | | |
| `SyncPull` | SyncService, sync_records, the change feed of the server | `MCSyncPull` | `SyncPullProofs` |
| `SealedStore` | abstract: what is sealed once, and kept after that for ever | | |
| `Attachments` | AttachmentService, encrypted FileStore, the attachments of the server | `MCAttachments` | `AttachmentsProofs` |
| `Startup` | ServiceLocator::initialize, Database, Migrations | | |
| `VaultFile` | the vault as a map saved as a whole, for the two below | | |
| `OneTimePrekeys` | the queue of one-time prekeys of PrekeyManager | | |
| `SearchIndex` | SearchService, search_tokens, the key of the index | | |
| `SenderKeys` | SenderKeyManager | | |
| `LocalStore` | the composition of the last five over any number of runs | `MCLocalStore` | `LocalStoreProofs` |

### AuthService

The state is the vault map (`mem`) and its file (`disk`), the accounts rows, the
context, what the server holds, and the call in progress (`call`, `pc`, `part`...).
A secret of four entries is a function on `Part`; an entry holds the number of the
key pair it belongs to, so that a mix of two pairs is visible. `SetVault(v, saved)`
is `storeSecret`: memory changes whether or not the save succeeds.
`Submit` starts registerUser or login; `StoreIdentityPart` and `StorePrekeyPart` are
the saves; `ServerAccepts(delivered)` is the exchange with a lost answer when
`delivered` is false; `PersistToken`, `PersistRow` are persistSession;
`Boot` and the `Refresh...`/`Restore...` actions are initialize with restoreSession;
`Logout`, `ForgetToken`, `DropRow` are logout. `Crash` is enabled between any two.

`session` says what the calls have answered: "in" (the last one true), "kept" (an
earlier one, and its context is still there), "out", "off" (no process).
The wall clock is not set back, so rows are in order of `last_login_ms` and a
sequence. `IdentityWhole` and the two properties after it are about the identity
and prekeys, `SessionBacked`, `FreshLoginSurvivesRestart` and `LogoutForgets` about
the session, `KeyedSessionUsable` about both. `ContextIsLive` is about the context whatever
the calls have answered: persistSession sets it before its saves, and a login that answers
false leaves it in place of the one before. Such a context is of a token the server accepts
and memory holds, because a failed save leaves the map changed; a map that took the change
back would break it. The logout after it still goes by the newest row: it revokes the
session of the context and forgets the token of the row, which may be another user's.

### Ratchet

A chain key is the list of labels it was advanced with (HMAC injective), a message
key is the chain key with its label, and a message opens iff the keys agree. The
network is the set of all messages ever sent: anything in it may arrive at any
time, any number of times, or never, also with its header replaced by any 32-bit
value or with its body damaged. Counters are `int`: `ToInt` is the wrap.
`IntLimit` stands for 2^31. One direction is modelled; the other is the same code
with the labels swapped and shares no state with it.

### Realtime

`link` is the `QWebSocket`, `timer` the reconnect timer, `attempt` the part of
`m_reconnectAttempt` that the delay depends on. After `close()` the `disconnected`
signal may come at once or later, in the next session too; `open()` on a socket
drops its connection without a signal (the way a `QWebSocket` reused for a second
`open` behaves). A session is its access token; the server may stop accepting any
token and may come and go.

### Shell

`Shell` extends `Realtime` with the pages and says when a session may begin: after a
health check has answered, the services have started and the last session could be
restored, or from a login or registration page. `checking` is the URL of the check
that runs, `edit` the text of the field, from which the URL is read twice, `offered`
what the page offers a login for, `server` what the services were initialised with.
`EnterMain`, `Submit` and `LogoutRequested` contain the actions `Enter`, `EnterFails` and
`Logout` of `Realtime`; `Spec` of `Realtime` is a property of the run, and a theorem.

### Messages

One account and its server log. A message is its number; numbers are in order of
`client_created_at_ms`. A row keeps its conversation, who sent it, the side it is
shown on and its delivery state. `Apply(positions, inserted, answered)` is `apply_envelope`
for a batch, of which the envelopes at `inserted` get their row and the others do not:
`upsertMessage` may fail, nobody looks at what it answers, and the view and the list are read
again in any case. `answered` is whether the summary of another conversation could be had.
`OpenSize` and `ViewSize` are the two limits the code lists a conversation with, 100 when
it is opened and 200 when something has come or been sent.
`shown` is a history variable: the selection whose rows the view has been given.
`known` is the conversations table, `listed` what the pane shows. `Refresh(added, ok)` is
a refresh that upserts some conversations and then fails or not; what each handler
makes of that is `ShowList` and `SelectFirst`. `DelayedRefresh` is any of the timers that
repeat a refresh; that one is pending is not tracked, so it may come whenever a
refresh may. `PagesOf` lets the server answer an opened conversation with any of its
envelopes. `Restart` is the end of the process and the next start: the tables stay.
`ArriveUnreadable` gives the server an envelope that lacks a field. A push of one is dropped
(`Push` needs `Readable`), a page with one is no answer at all, and polling stands still at it.
After a logout, or with a group just created, the view keeps rows of what was selected before
(`ViewOfOther`): nothing reads them back, and the model forgets them.

`Poll` keeps the cursor before it applies the page, as the handler does, so an envelope whose
insert fails is passed over. `missed` is a history variable with these numbers, as long as no
push, opening or later page has brought the row after all; it is empty in a new process and
begins anew when polling starts from an empty cursor. `PassedUnlessFailed` says that this is
the only way to be passed over, and `EnvelopesArrive` that everything else arrives, as long as
every envelope can be read. An envelope that failed is lost to polling until the process
starts again or the server's cursor comes back empty after the last page; if it does, and
inserts succeed from then on, `missed` of the next pass is empty and `EnvelopesArrive` says
that all envelopes have their row.
The numbering takes it that the clocks of this device and of the server agree on the
order; the code stores its own milliseconds for a message sent, and the server's
seconds once it comes back.

`MessagesStay` says of every step that what is stored stays, in its conversation and
from its sender: an envelope is written over the row of its id each time it arrives, and
nothing in the handlers compares the two. `UnqueuedIsHeld` is a consequence that only a
theorem states: what is not marked as queued the server holds.

### SyncPull

The server keeps each record once, with the place of its last change in the feed;
`at` holds the places, `Between(cursor, to)` is a page. `Answered(to)` is a request
and its answer, for any page a server may cut within the limit; `Store` is one
upsert, `Continue` the end of the loop body. `started` is a history variable: the
records when the pull began, and `had` another: every record the server has had. With
`had`, the server is the source and `sync_records` the copy of `Replica`, which is
`FollowsServer`: a row is a record the server has had, and what replaces it is no
older. `pullCollection` upserts without a look at the version stored, so this is owed to the
order in which the pages come. That the pages come out of such a feed, with a cursor
that passes only what it has shown, is what the client relies on and the server is
assumed to do; nothing in the repository says more.

### Attachments

`pc` is the next step of the one call in progress; a request that is refused, one
whose answer is lost after the server has acted (`delivered` false) and a write that
fails all end it. `local` is the encrypted directory. `Received` is what
`NetworkAccess::execute` makes of a body that breaks off: `Cut`, an answer like any
other. The hash of `finalize` is injective and the server checks it. `KeepsWhatIsSealed`
is the refinement of `SealedStore`: an attachment is sealed when it is final, and a copy
is what has been sealed, or `Cut`, comes after the seal, and is never replaced.

### LocalStore

The tables and the vault over any number of starts. `phase` says how far
`initialize` has come; `schema` is what SQLite has committed, `work` the open
transaction, `at` the statement that is next, so that `StepFails` and `Die` come
between any two statements. An attempt that fails closes its connection before the next
(`Database::open`), which rolls back. In the phase "ready" the three services work:
`Publish` and `Consume` change the queue of prekeys in memory and save it or fail to;
`IndexMessage(m, inserted)` inserts a row for every word up to the one that fails;
`RotateEpoch` and `ImportEpochKey` keep sender keys, which are in memory only. `lost` is
a history variable: the secrets some run has ended with unsaved; the code ignores
failed saves of both, and the properties say what holds as long as none was the last.
`Tables` stands for the twelve tables of the migration; there is one version.

## 3. Runs

| Run | Instance | Distinct states | Shows |
|---|---|---|---|
| `auth` | 2 users (symmetric), 2 identities, 2 prekeys, 3 tokens | 920,031 | identity, prekey, session and context survive failed saves, lost answers and crashes at every step; `DeviceIdentity` is implemented |
| `ratchet` | 2 texts, 4 messages, IntLimit 6 (12 header values) | 1,099 | every order, loss, repeat and damage; `InOrderDelivery` is implemented |
| `realtime` | 3 sessions, 2 servers and a bad URL | 695,464 | token of the session, never stranded, reconnects, falls back to polling; only checked servers; the pages keep to `Realtime` |
| `messages` | 2 conversations, 2 messages, view of 1 when opened and of 2 later, page of 2 | 266,204 | side, cursor, list, view; what is stored stays; polling passes over failed inserts only, and the rest arrives |
| `sync` | 3 records, page of 1, 4 changes | 440,483 | a pull that succeeds has caught up; `Replica` is implemented; the loop ends |
| `attachments` | 2 ciphertexts (symmetric), 4 ids | 74,952 | an answered upload is sealed and kept; `SealedStore` is implemented |
| `local_store` | 3 tables, 3 prekeys, 2 messages of 2 words, 2 keys of the index, 2 epochs | 138,311 | schema whole or absent, prekeys kept, index usable, epochs fresh |
| `connected_server`, `outgoing_rule`, `queued_notice`, `sent_is_shown`, `downloaded_is_uploaded` | as above or smaller | | one disagreement each (section 6) |

Why the bounds are enough:

* `auth`: two users are what it takes for logins in turn on one device (the rows
  and the context disagree only then); two identities for an abandoned half of a
  pair; a third token for login, refresh, login. Identity, prekey and token counts
  are capped in `Submit` and `RefreshAccepted` only.
* `ratchet`: four messages allow skipping, late arrival and repeats on both sides
  of a skip; 2 * IntLimit header values include negative ones, those never sent,
  and the largest int.
* `realtime`: three sessions leave two generations of sockets and timers behind.
  `MaxAttempt` is the code's own 6. Two servers are what it takes to connect to another one.
* `messages`: a conversation of two messages is cut to one when it is opened and shown
  whole when the next arrives, as one of more than 100 is in the code; two conversations
  are the DM with oneself and any other. `sent_is_shown` has a view of one row throughout.
* `sync`: three records and pages of one make a pull of three pages; four changes
  allow a record that is already stored, one in hand and one still to come to move
  while the pull runs.
* `attachments`: four ids are a failed upload, a good one, one of another device and
  one unused; two ciphertexts tell a wrong one from a right one.
* `local_store`: three tables are a first, a middle and a last statement before the
  version; three prekeys (made, and handed out) are one handed out, one left and one
  published later; two messages share a word; the second key of the index is one that
  replaces a key that was lost; of two epochs the higher may be imported first.

### Fairness

Safety runs assume none. `Realtime` assumes that an attempt to connect ends, one way
or the other, and that a running timer fires: the event loop does both. Nothing is
assumed of an open connection, the user or the server; `Reconnects` and
`FallsBackToPolling` carry what they need of the world in their premises.
`Messages` assumes that polling is answered now and then while a session lasts and the next
page can be read (`Polling`), and nothing of the inserts; `Realtime!FallsBackToPolling` is why
the timer runs when push is lost.
`SyncPull` assumes that a request ends, with an answer or at its timeout, and that the
loop goes on (`PullStep`); changes at the server are bounded by `MaxChanges`, which
`PullEnds` needs: a collection that changes faster than it is read has no last page. It also
needs a server whose cursor goes on while there is more, which `Answered` takes for granted;
the loop has no defence against another one, so the property is about the client only.
`Shell` assumes nothing beyond `Realtime`: neither that the user does anything nor that a
health check ends. `AuthService`, `Ratchet`, `Attachments` and `LocalStore` have no liveness
properties: a call ends because the code is sequential, and a lossy network owes nothing.

## 4. Proofs

TLAPS proves the following for all values of the constants that satisfy the named
assumptions (`NoUserAssumption`, `BoundsAssumption`; `LimitsAssumption`;
`MaxSessionAssumption`, `UrlAssumption`; `ConvAssumption`, `SizeAssumption`; `SyncAssumption`;
`AttachmentAssumption`; those of the parts of `LocalStore`), which TLC evaluates on every run.

* **AuthServiceProofs.** `TypeCorrect` is `Spec => []TypeOK`, inductive as it stands.
  `IdentityWhole` and `PublishedIdentityDurable` are not inductive: a vault in which
  only `sign_pub` is old is one save away from a mixed set. The invariant `IInv`
  says why that never counts: `WholeWhenLastIsThere` (the DH private key is saved
  last, so where it is present all parts agree), `WritingIdentity` (a
  generation starts only when it is absent and overwrites from the first part on),
  `MemoryHasKept` (a whole identity on disk is the one in memory, so none is ever
  generated over it), `KeptBeforePublished` (the first save of the prekey
  rotation writes out an identity that was only in memory, before the request) and
  `PublishedIsKept`. From it follow `IdentityIsWhole`, `PublishedIsDurable` and
  `ImplementsDeviceIdentity`, the refinement: a step keeps the first identity,
  publishes the kept one, or leaves both alone.
  The session properties have an invariant of their own, `SInv`, on top of that one.
  `CallInProgress`: a call that has come to the context has ended the session before, so
  no property is owed while context, vault and row are set one after the other.
  `CallOfNewestAccount`: between reading the newest row and using what was read no row
  changes, which is why `logout` forgets the token of the session it ends.
  `ContextIsIssued`: the token in the context is the one the server has issued and memory
  holds. `ContextStaysLive`: and the server accepts it, up to logout, also when the call that
  has set it answers false. `SessionStaysBacked`: so it remains through later calls that fail, until the step
  of `logout` that forgets it. `LoginIsSaved`: the token is in the file before the row is
  written. `PrekeyIsSaved`: the prekey of a request is whole in the file before the request
  and no later save of the session replaces it; with `KeptBeforePublished` of `IInv`, which
  says that a request without a rotation offers no prekey. One lemma per part says that a
  step preserves it; `SessionIsBacked`, `ContextIsBacked`, `FreshLoginIsDurable`,
  `KeyedSessionIsUsable` and `LogoutIsComplete` follow.
* **RatchetProofs.** `Invariance` is `[](TypeOK /\ IInv)` with `ChainsFollowCounters`
  (each chain is the list 0..n-1 of its counter) and `WireIsGenuine` (a message on
  the wire was sealed with the key of its number); `OpenedIsGenuine` says that only
  an undamaged message under its own number opens. From them `FreshOpens`,
  `NoOverflow` and `ImplementsInOrderDelivery`. `HandsOutInOrder` is proved of the abstract
  channel (`ChannelOrder`) and carried over by the refinement: what has been handed out is
  in the order of sending, each text once.
* **RealtimeProofs.** `TypeCorrect`, `SessionsToken` and `ConnectionNotGivenUp`.
  The two safety properties are inductive by themselves: `connectAndAuthenticate` is
  the only place that sets the token, and every handler that takes the link down
  inside a session starts the timer.
* **SyncPullProofs.** `CatchesUp` rests on `StillToCome` (a record that is behind where
  the pull started is in the page in hand, or its last change lies after the cursor
  and the loop will ask for it) and `NothingOlder`. A change only moves a record
  towards the end of the feed, which is why it cannot slip behind the cursor.
  `ImplementsReplica` is the refinement of `Replica`; a `Store` maps to `Follow`, which
  needs that what is in hand is no older than the row it replaces. `PageWasServed` (what is in
  hand the server has had, and the row has nothing later), `OnceInPage` (a page names a record once,
  so storing one leaves the others as good) and `HadInOrder` (of the records the server has
  had, the present one is the last) say why. `RowsOnlyForward` and `RowsAgree` (no row is
  ahead of the server, and one that is not behind is the server's) follow.
* **AttachmentsProofs.** Only a call that has an id writes at it, so the types are
  proved together with the invariant (`Invariant`): `UploadProgress` and
  `DownloadProgress` say how far a call has come at the server and what it has in hand,
  `UnusedIds` that an id the server has not handed out is unknown to everyone.
  `UploadIsKept` follows from it, and `ImplementsSealedStore`: `AtWrite` says that a call comes to
  the write only for a final attachment without a copy, with its bytes or `Cut`, and
  `SealsOne` that finalising an attachment is `Seal` of the abstract store.
  `CopiesAreOfFinal` and `CopiesStay` say two of its consequences directly.
* **ShellProofs.** `DrivesRealtime` is the refinement `ShellSpec => Spec`: every step on the
  pages is a step of `Realtime` or leaves it alone, and the fairness is the same formula,
  so every theorem about `Realtime` holds of the application. `OnlyCheckedServers` needs
  `FieldIsChecked`: while a check runs the field holds the URL that is checked, which is
  why reading it a second time does no harm. `ApplicationKeepsChannel` carries `SocketIsTheSessions` and
  `NeverStranded` over to the application.
* **MessagesProofs.** `IInv` is `TableOK` (a row's number has been given out, its
  conversation is its envelope's, a peer's row is incoming), `LogOK` (numbers of the log are
  in the past and name one conversation each), `PassedUnlessFailed`, `ViewIsCurrent` and
  `listed \subseteq known`. That an envelope stored again keeps its
  conversation is what makes `ViewIsCurrent` inductive: a push for another conversation
  leaves the rows of the open one alone (`SameListed`), to whatever limit they are listed. `StoredKeeps` is the lemma about
  storing any set of envelopes; one lemma per handler cites it. `PollingPassesOnlyFailed` (`PassedUnlessFailed`) has a lemma
  for the handlers that do not poll (`PassedOn`: no row goes, and what is no longer missed has one),
  and for the page one argument: of the positions up to the new cursor each is in the page,
  and inserted or missed, or was passed before in the same pass. `PaneKeepsConversations`
  is the action property `ListNeverBlanks`, from `listed \subseteq known` and a table that
  only grows. `TableOK` and `LogOK` also keep the sender of a number, and `Held` that a row
  which is not queued is in the log; `TableStep` says that every handler either leaves the
  table or stores a set of envelopes of the log or a message just sent, under a number without
  a row. From it `TableKeepsMessages` (`MessagesStay`) and `ShownAsSentIsHeld`: what the view
  shows as sent is at the server.
* **LocalStoreProofs.** `SchemaWhole` needs `StartupOK`: inside the migration nothing is
  committed yet and `work` is exactly the statements before `at`, so that what is committed
  at the end is all of it. `PrekeysKept` is inductive as it stands, because `Forget` counts
  the queue as lost whenever a run ends with a difference between memory and file; the
  lemmas `AddKeys` and `TakeFirst` about sequences carry publication and use. `IndexOK`
  says that what was indexed was indexed under the key in memory unless the key was lost,
  and that a run that is ready has a key; `EpochOK` that no epoch above the current one
  has a key. `PrekeysHandedOnce` is what `PrekeysKept` means to a peer: no key is handed out
  twice. `MigratesOnce` is about steps: the committed schema changes once only, from nothing
  to all of it, so no later start takes anything back.

Model-checked only: liveness (`Reconnects`, `FallsBackToPolling`, `EnvelopesArrive`,
`PullEnds`), which is out of the reach of TLAPS. Every other property of a passing run is
stated by a theorem.

## 5. What is taken for granted, and what is not modelled

* The wall clock is not set back between logins; two logins are not in the same
  millisecond.
* The vault password does not change; the file is read as it was written
  (`QSaveFile` is atomic).
* Reads of the database succeed. Inserts of messages, received or sent, and of jobs, row
  inserts and deletes of accounts, and vault saves may fail.
* HMAC is injective, an AEAD tag fits one key.
* `Messages` has one account: the cursor and the tables of two accounts are not told
  apart, by the code neither. Its first run starts with empty tables.
* One instance of the application runs at a time; SQLite commits and rolls back a
  transaction as a whole, and closing a connection rolls back.
* One envelope that lacks a field stops polling at its page; that polling goes on is promised
  only while there is none.
* The server's change feed has a cursor that goes on as long as it says that there is more.
* After a run that ended with the queue of prekeys or the key of the index unsaved
  `PrekeysKept` and `IndexedIsFound` promise nothing: the code ignores the failed save.
* Prekey ids, texts, titles, author labels, the order of the list and wording are left out.
* Not modelled, because there is no state in them: HTTP and JSON (seen as an answer, a
  refusal, a lost or a broken-off answer), primitives, painting and dialogs, domain
  conversions. Not modelled, because nothing but a test calls them and each is one
  statement or one request: dueJobs and markAttempt, the devices and trust tables,
  listRecords, addMember, ackEnvelope, unsubscribe, changePassword, the sync key bundle.

## 6. Where code and comments disagree

1. `ConnectedServerIsUsed` (`setStatusOk("Connected")`): once the services run, connecting
   to another server reports it as connected, remembers it for the next start and offers
   a login, which goes to the first server.
2. `NormalConversationsRule` ("any message from my user -> right bubble"):
   `selectedConversationIsSelfDm` survives a selection whose summary fails, or a
   conversation just created.
3. `NoticeMeansQueued` ("Message queued for retry."): shown when an insert has failed, of the
   message or of its job, and not when a refused message has been stored and queued.
4. `SentIsShown` ("Immediate UI update"): the view is the oldest page.
5. `DownloadedIsUploaded` (a test expects the payload back): an error after the status
   has arrived is not looked at, and the part of the body that came is kept as the
   local copy, which by `KeepsWhatIsSealed` all later downloads answer.

Two things that may surprise are by the code's own design and no disagreement: polling
once started goes on until logout, and after a logout the closing socket schedules a
connection with the token of the session that has ended (`SocketIsTheSessions` is about
sessions only).

## 7. Plan

Done: every component that keeps state, except for what section 5 lists; the proofs of
section 4. Next:

1. `Messages` with two accounts, for the cursor and the rows that outlive a logout, and
   with the two clocks of `client_created_at_ms`.
2. `pushRecord` as a call of its own next to a pull (now one of the changes at the server).
