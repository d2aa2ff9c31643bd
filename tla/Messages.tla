------------------------------ MODULE Messages ------------------------------
(***************************************************************************)
(* The messages of one account: how envelopes reach the messages table and *)
(* the message view by push, by polling and by opening a conversation, and *)
(* how a message is sent (the handlers of Application.cpp with             *)
(* MessageSendService and the messages and jobs tables).                   *)
(*                                                                         *)
(* A handler runs to its end on the UI thread before the next one starts.  *)
(* A message is its number, and messages are numbered in the order of      *)
(* client_created_at_ms.  Texts, titles and author labels are left out.    *)
(***************************************************************************)
EXTENDS Naturals, Sequences, FiniteSets

CONSTANTS Conv,        \* conversations
          SelfDm,      \* the one that is the DM of the user with themselves
          NoConv,      \* no conversation: the empty id
          OpenSize,    \* messages listed when a conversation is opened (100 in the code)
          ViewSize,    \* messages listed when one has come or been sent (200)
          PollSize,    \* envelopes polled at once (100)
          MaxMessages  \* bound: messages ever sent by anyone

ASSUME ConvAssumption == SelfDm \in Conv /\ NoConv \notin Conv
ASSUME SizeAssumption == {OpenSize, ViewSize, PollSize} \subseteq Nat \ {0} /\ MaxMessages \in Nat

VARIABLES session,   \* AuthService::context has a value
          linked,    \* the push channel has been opened in this run
          log,       \* the envelopes the server holds for this device, oldest first
          rows,      \* the messages table, a row or NoRow for every number
          jobs,      \* numbers of the messages that have a row in the jobs table
          cursor,    \* pending_cursor: envelopes of log it has passed
          missed,    \* history: what polling has failed to insert since the cursor was empty
          selected,  \* selectedConversationId
          selfDm,    \* selectedConversationIsSelfDm
          known,     \* the conversations table
          listed,    \* the conversations the list pane shows
          view,      \* the rows the message view shows of the selection in shown
          shown,     \* history: the selection whose rows the view has been given
          next       \* the next unused number

poll == <<cursor, missed>>
pane == <<known, listed>>
ui   == <<selected, selfDm, view, shown>>
vars == <<session, linked, log, rows, jobs, poll, pane, ui, next>>

Id    == 1..MaxMessages
From  == {"this", "other", "peer"}  \* this device, another of the user's, someone else
NoRow == [state |-> "none"]

Init == /\ session = FALSE /\ linked = FALSE
        /\ log = <<>>
        /\ rows = [id \in Id |-> NoRow]
        /\ jobs = {}
        /\ cursor = 0 /\ missed = {}
        /\ selected = NoConv /\ selfDm = FALSE
        /\ known = {} /\ listed = {}
        /\ view = {} /\ shown = NoConv
        /\ next = 1

(***************************************************************************)
(* The messages table                                                      *)
(***************************************************************************)

RowsOf(table, conv) == {id \in Id : table[id] # NoRow /\ table[id].conv = conv}

\* ORDER BY client_created_at_ms ASC LIMIT ?: the oldest rows of a conversation.
OldestRows(ids, limit) == {id \in ids : Cardinality({other \in ids : other < id}) < limit}

\* listConversationMessages
Listed(table, conv, limit) == {<<id, table[id]>> : id \in OldestRows(RowsOf(table, conv), limit)}

(***************************************************************************)
(* Envelopes that arrive                                                   *)
(***************************************************************************)

\* The server is given an envelope for this device.
Deliver(conv, from) ==
  /\ next <= MaxMessages
  /\ log' = Append(log, [id |-> next, conv |-> conv, from |-> from])
  /\ next' = next + 1
  /\ UNCHANGED <<session, linked, rows, jobs, poll, pane, ui>>

\* Another device, of the user or of someone else, sends to a conversation.
Arrive(conv, from) == (conv = SelfDm => from = "other") /\ Deliver(conv, from)

\* An envelope that lacks a field reaches the server: nobody can read it, not even
\* for which conversation it is.
ArriveUnreadable == Deliver(NoConv, "peer")

\* parseEnvelopeDto
Readable(i) == log[i].conv # NoConv

\* Mutant: without a context nothing is known to be from someone else.
OutgoingUnlessPeer(from, self) ==
  IF self THEN from = "this" ELSE session => from # "peer"

\* The outgoing rule: by device in the DM with oneself, else by user.  Without
\* a context the user and the device are empty and match nothing.
Outgoing(from, self) ==
  /\ session
  /\ IF self THEN from = "this" ELSE from # "peer"

\* Whether the server's summary of a conversation says that it is the DM of the
\* user with themselves; no answer counts as no.
SummarySelfDm(conv, answered) == session /\ answered /\ conv = SelfDm

\* apply_envelope: the kind of the conversation is the one kept for the
\* selection, or else the server is asked.
IsSelfDm(conv, answered) == IF conv = selected THEN selfDm ELSE SummarySelfDm(conv, answered)

\* Mutant: an envelope is stored in the conversation that is open.
RowInOpen(e, self) == [conv |-> selected, from |-> e.from, outgoing |-> Outgoing(e.from, self),
                       state |-> "Draft"]

\* The row an envelope is stored as; it is written over the one there was,
\* and its delivery state is the default.
Row(e, self) == [conv |-> e.conv, from |-> e.from, outgoing |-> Outgoing(e.from, self),
                 state |-> "Draft"]

\* Mutant: the row of a message refers to a conversation of the table.
StoredOfKnown(positions, self) ==
  [id \in Id |-> IF \E i \in positions : log[i].id = id /\ log[i].conv \in known
                 THEN LET e == log[CHOOSE i \in positions : log[i].id = id]
                      IN Row(e, self[e.conv])
                 ELSE rows[id]]

\* The table once the envelopes at some positions of the log have been stored.
Stored(positions, self) ==
  [id \in Id |-> IF \E i \in positions : log[i].id = id
                 THEN LET e == log[CHOOSE i \in positions : log[i].id = id]
                      IN Row(e, self[e.conv])
                 ELSE rows[id]]

\* Mutant: the view is left alone when the row is there already.
ViewIfNew(positions) ==
  \E i \in positions : log[i].conv = selected /\ rows[log[i].id] = NoRow

\* The view is read again when an envelope is for the open conversation.
ViewConcerned(positions) == \E i \in positions : log[i].conv = selected

\* Each of the envelopes in turn.  inserted: those whose insert succeeds, which
\* nobody asks; the view and the list are read again in any case.
Apply(positions, inserted, answered) ==
  /\ rows' = Stored(inserted, [conv \in Conv |-> IsSelfDm(conv, answered)])
  /\ IF ViewConcerned(positions)
     THEN view' = Listed(rows', selected, ViewSize) /\ shown' = selected
     ELSE UNCHANGED <<view, shown>>
  /\ listed' = IF positions = {} THEN listed ELSE known
  /\ UNCHANGED <<session, linked, log, jobs, known, selected, selfDm, next>>

\* Of what has been missed, that which is not in the table by now.
StillMissed(ids) == missed' = {id \in ids : rows'[id] = NoRow}

\* An envelope is pushed: any that can be read, any number of times, in any order,
\* and out of a session on a connection that logout has left behind.
Push(i, ok, answered) ==
  /\ linked /\ i \in 1..Len(log) /\ Readable(i)
  /\ Apply({i}, IF ok THEN {i} ELSE {}, answered)
  /\ StillMissed(missed) /\ UNCHANGED cursor

\* Mutant: the answer's cursor is not kept.
KeepCursor(n) == cursor' = cursor

\* pending_cursor = nextCursor: the position of the last envelope of the page,
\* or empty (the start again) after the last page.
NextCursor(n) == \/ cursor' = cursor + n
                 \/ cursor + n = Len(log) /\ cursor' = 0

\* The positions of the next n envelopes.
Page(n) == (cursor + 1)..(cursor + n)

\* pendingEnvelopes: the next page, empty only at the end.  A page with an
\* envelope that cannot be read is no answer at all.
PendingPage(n) == /\ session
                  /\ n \in 0..PollSize /\ cursor + n <= Len(log)
                  /\ n = 0 => cursor = Len(log)
                  /\ \A i \in Page(n) : Readable(i)

\* The poll timer: the cursor is kept before the page is applied.
Poll(n, inserted, answered) ==
  /\ PendingPage(n) /\ inserted \subseteq Page(n)
  /\ NextCursor(n)
  /\ Apply(Page(n), inserted, answered)
  /\ StillMissed({log[i].id : i \in Page(n) \ inserted} \cup IF cursor = 0 THEN {} ELSE missed)

(***************************************************************************)
(* The list of conversations                                               *)
(***************************************************************************)

\* Mutant: the list is shown however the refresh ended.
ShowAnyList(ok) == listed' = IF ok THEN known' ELSE {}

\* What the handlers make of a refresh; one that failed has no list.
ShowList(ok) == listed' = IF ok THEN known' ELSE listed

\* upsertConversation, for those not in the table before; nothing removes one.
Upsert(added) == known' = known \cup added

\* ConversationService::refreshConversations: what the server lists is upserted
\* one by one, up to the first that fails.  Titles come from the server as well.
Refresh(added, ok) == Upsert(added) /\ ShowList(ok)

\* state->refreshConversations, for what is selected by then: with no selection
\* the first of the list is the new one, and nothing is loaded for it.
SelectFirst(conv, ok) ==
  IF conv = NoConv /\ ok /\ known' # {} THEN selected' \in known' ELSE selected' = conv

RefreshAndSelect(added, ok, conv) == Refresh(added, ok) /\ SelectFirst(conv, ok)

\* The server refuses a refresh out of a session.
Answered(added, ok) == session \/ (added = {} /\ ~ok)

\* The server reports a change of members: a refresh without a selection.
MembershipChanged(added, ok) ==
  /\ Answered(added, ok)
  /\ Refresh(added, ok)
  /\ UNCHANGED <<session, linked, log, rows, jobs, poll, ui, next>>

\* One of the timers that follow a conversation created or subscribed to, which
\* may fire as late as in the next session.
DelayedRefresh(added, ok) ==
  /\ Answered(added, ok)
  /\ RefreshAndSelect(added, ok, selected)
  /\ UNCHANGED <<session, linked, log, rows, jobs, poll, selfDm, view, shown, next>>

(***************************************************************************)
(* Sessions, conversations and sending                                     *)
(***************************************************************************)

\* Every login and restore is followed by a refresh.
Enter(added, ok) == /\ session' = TRUE /\ linked' = TRUE
                    /\ RefreshAndSelect(added, ok, selected)
                    /\ UNCHANGED <<log, rows, jobs, poll, selfDm, view, shown, next>>

\* The view keeps rows that are not of the selection; nothing reads them back, and
\* they are not tracked.
ViewOfOther == shown' = NoConv /\ view' = {}

\* Only the selection is cleared; the view and the list keep what they show.
Logout == /\ session' = FALSE
          /\ selected' = NoConv /\ ViewOfOther
          /\ UNCHANGED <<linked, log, rows, jobs, poll, pane, selfDm, next>>

\* The application ends, or dies, and is started again: the tables are all that
\* is left, and polling begins at the start.
Restart == /\ session' = FALSE /\ linked' = FALSE
           /\ cursor' = 0 /\ missed' = {}
           /\ selected' = NoConv /\ selfDm' = FALSE
           /\ listed' = {} /\ view' = {} /\ shown' = NoConv
           /\ UNCHANGED <<log, rows, jobs, known, next>>

\* conversationEnvelopes: the positions of those of a page that are inserted, or of
\* none.
PagesOf(conv) == {page \in SUBSET {i \in 1..Len(log) : log[i].conv = conv} :
                    Cardinality(page) <= PollSize}

\* conversationSelected, for one of the list: either request may fail, and
\* without a session both do.
Select(conv, summary, page) ==
  LET self == SummarySelfDm(conv, summary)
  IN /\ conv \in listed
     /\ summary \/ page # {} => session
     /\ selected' = conv
     /\ selfDm' = IF summary THEN self ELSE selfDm
     /\ rows' = Stored(page, [c \in Conv |-> self])
     /\ view' = Listed(rows', conv, OpenSize) /\ shown' = conv
     /\ StillMissed(missed)
     /\ UNCHANGED <<session, linked, log, jobs, cursor, pane, next>>

\* A DM is created, or found again: it is the selection, of whatever kind the
\* one before was, and its rows are read.
CreateDm(conv, added, ok) ==
  /\ session
  /\ RefreshAndSelect(added, ok, conv)
  /\ view' = Listed(rows, conv, OpenSize) /\ shown' = conv
  /\ UNCHANGED <<session, linked, log, rows, jobs, poll, selfDm, next>>

\* A group or a channel is the new selection: neither its kind nor its rows are
\* read.
Join(conv, added, ok) ==
  /\ session /\ conv # SelfDm
  /\ RefreshAndSelect(added, ok, conv)
  /\ ViewOfOther
  /\ UNCHANGED <<session, linked, log, rows, jobs, poll, selfDm, next>>

\* createGroupRequested and createChannelRequested: the server has made one.
Create(conv, added, ok) == conv \notin known /\ Join(conv, added, ok)

\* subscribeChannelRequested, for any channel, listed or not.
Subscribe(conv, added, ok) == Join(conv, added, ok)

\* sendEnvelope.  accepted: the server has the message; ok: its answer says so,
\* which may be lost or not understood.
SendEnvelope(accepted, ok) ==
  /\ ok => accepted
  /\ log' = IF accepted THEN Append(log, [id |-> next, conv |-> selected, from |-> "this"])
                        ELSE log

\* sendMessage: the row says whether the server has answered, and a message
\* it has not answered for goes to the jobs.  Either insert may fail.
SendMessage(ok, stored, queued) ==
  LET row == [conv |-> selected, from |-> "this", outgoing |-> TRUE,
              state |-> IF ok THEN "SentToServer" ELSE "Queued"]
  IN /\ rows' = IF stored THEN [rows EXCEPT ![next] = row] ELSE rows
     /\ queued => ~ok
     /\ jobs' = IF queued THEN jobs \cup {next} ELSE jobs

\* What sendMessage answers; if not, the user is told "Message queued for retry."
Kept(ok, stored, queued) == stored /\ (ok \/ queued)

\* Mutant: it is not asked whether a conversation is selected.
MaySendAnywhere == session

\* The handler returns early out of a session and without a selection.
MaySend == session /\ selected # NoConv

\* The handler, which refuses to post to a channel of others and then changes
\* nothing.  A refresh follows, and the list shows the table, however it ended.
Send(accepted, ok, stored, queued, added) ==
  /\ MaySend
  /\ next <= MaxMessages
  /\ SendEnvelope(accepted, ok)
  /\ SendMessage(ok, stored, queued)
  /\ view' = Listed(rows', selected, ViewSize) /\ shown' = selected
  /\ Upsert(added) /\ listed' = known'
  /\ next' = next + 1
  /\ UNCHANGED <<session, linked, poll, selected, selfDm>>

Next == \/ \E conv \in Conv, from \in {"other", "peer"} : Arrive(conv, from)
        \/ ArriveUnreadable
        \/ \E answered \in BOOLEAN :
             \/ \E i \in 1..MaxMessages, ok \in BOOLEAN : Push(i, ok, answered)
             \/ \E n \in 0..PollSize : \E inserted \in SUBSET Page(n) : Poll(n, inserted, answered)
        \/ \E added \in SUBSET (Conv \ known) :
             \/ \E ok \in BOOLEAN :
                  \/ MembershipChanged(added, ok)
                  \/ DelayedRefresh(added, ok)
                  \/ Enter(added, ok)
                  \/ \E conv \in Conv : \/ CreateDm(conv, added, ok)
                                        \/ Create(conv, added, ok)
                                        \/ Subscribe(conv, added, ok)
             \/ \E accepted, ok, stored, queued \in BOOLEAN :
                  Send(accepted, ok, stored, queued, added)
        \/ Logout
        \/ Restart
        \/ \E conv \in Conv : \E summary \in BOOLEAN, page \in PagesOf(conv) :
             Select(conv, summary, page)

\* The poll timer is running (the fallback of Realtime) and answered now and then.
Polling == WF_vars(\E n \in 0..PollSize, answered \in BOOLEAN :
                     \E inserted \in SUBSET Page(n) : Poll(n, inserted, answered))

Spec == Init /\ [][Next]_vars /\ Polling

(***************************************************************************)
(* Properties                                                              *)
(***************************************************************************)

Rows == {NoRow} \cup [conv : Conv, from : From, outgoing : BOOLEAN,
                      state : {"Draft", "SentToServer", "Queued"}]

\* The type invariant.
TypeOK == /\ session \in BOOLEAN /\ linked \in BOOLEAN
          /\ log \in Seq([id : Id, conv : Conv \cup {NoConv}, from : From])
          /\ rows \in [Id -> Rows]
          /\ jobs \subseteq Id
          /\ cursor \in 0..Len(log) /\ missed \subseteq Id
          /\ known \subseteq Conv /\ listed \subseteq Conv
          /\ {selected, shown} \subseteq Conv \cup {NoConv}
          /\ selfDm \in BOOLEAN
          /\ view \subseteq Id \X Rows
          /\ next \in 1..(MaxMessages + 1)

\* Whatever is known of the conversation and of the session when an envelope
\* is applied, and however often it is, what someone else has sent is never
\* shown as the user's own.
PeerNeverOutgoing ==
  \A id \in Id : rows[id] # NoRow /\ rows[id].from = "peer" => ~rows[id].outgoing

\* Polling passes over an envelope for one reason only: its insert has failed in
\* this run, and what upsertMessage answers is not looked at.  In particular none
\* that cannot be read is passed, with the page it is in.
PassedUnlessFailed ==
  \A i \in 1..cursor : rows[log[i].id] # NoRow \/ log[i].id \in missed

\* Once a conversation has been opened the view is what the table holds of it, up
\* to one limit or the other, through pushes, polls and messages sent, also of
\* rows written over.
ViewIsCurrent ==
  shown # NoConv => /\ shown = selected
                    /\ \E limit \in {OpenSize, ViewSize} : view = Listed(rows, selected, limit)

\* In a run, whatever fails of a refresh, half of it too, and whatever else lists
\* the conversations, none goes from the pane, and none is there that the table
\* does not hold.
ListNeverBlanks == [][Restart \/ (listed \subseteq listed' /\ listed' \subseteq known')]_vars

\* However often envelopes are written over rows, by push, poll or opening, and
\* through restarts: a message that is in the table stays there, in its
\* conversation and from its sender.
MessagesStay ==
  [][\A id \in Id : rows[id] # NoRow =>
       /\ rows'[id] # NoRow
       /\ rows'[id].conv = rows[id].conv /\ rows'[id].from = rows[id].from]_vars

\* A message of the table that is not marked as queued is held by the server:
\* what the view shows as sent or received is not on this device alone.
UnqueuedIsHeld ==
  \A id \in Id : rows[id] # NoRow /\ rows[id].state # "Queued" =>
    \E i \in 1..Len(log) : log[i].id = id

AllReadable == \A i \in 1..Len(log) : Readable(i)

\* With the poll timer running in a session that stays, and as long as every
\* envelope can be read, each one the server holds is stored in the end, pushed or
\* not, or its insert has failed: again and again (no row and no envelope goes,
\* and the last one has been sent some time) the table has all but those.
EnvelopesArrive ==
  <>[]session => []<>(AllReadable =>
    \A i \in 1..Len(log) : rows[log[i].id] # NoRow \/ log[i].id \in missed)

\* Application.cpp, the outgoing rule: "normal conversations: any message from
\* my user -> right bubble".
NormalConversationsRule ==
  [][session => \A id \in Id :
       rows'[id] # rows[id] /\ rows'[id].conv # SelfDm /\ rows'[id].from # "peer" =>
         rows'[id].outgoing]_vars

\* Application.cpp: "Message queued for retry.": what is said to be queued is.
NoticeMeansQueued ==
  [][\A accepted, ok, stored, queued \in BOOLEAN : \A added \in SUBSET (Conv \ known) :
       Send(accepted, ok, stored, queued, added) /\ ~Kept(ok, stored, queued) =>
         next \in jobs']_vars

\* Application.cpp: "Immediate UI update": the message just sent and stored is
\* in the view.
SentIsShown ==
  [][\A id \in Id : id = next /\ rows'[id] # rows[id] => \E entry \in view' : entry[1] = id]_vars
=============================================================================
