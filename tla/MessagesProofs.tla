--------------------------- MODULE MessagesProofs ---------------------------
(***************************************************************************)
(* The properties of Messages, for any conversations, page sizes and       *)
(* number of messages.  Every way in which envelopes reach the table is    *)
(* Stored, so the proofs rest on two lemmas about it; that the view stays  *)
(* what the table holds needs, besides, that an envelope and the row of    *)
(* its message name the same conversation.  That polling loses nothing but *)
(* what could not be inserted is kept apart: it is about the cursor.       *)
(***************************************************************************)
EXTENDS Messages, TLAPS

Positions == SUBSET {i \in 1..Len(log) : Readable(i)}
Entries   == [id : Id, conv : Conv \cup {NoConv}, from : From]
Envelopes == [id : Id, conv : Conv, from : From]

\* An entry of the log that can be read is an envelope.
LEMMA EntryType ==
  ASSUME TypeOK, NEW i \in 1..Len(log)
  PROVE  log[i].id \in Id /\ (Readable(i) => log[i] \in Envelopes)
  <1>1. log \in Seq(Entries)
    BY DEF TypeOK, Entries
  <1>2. log[i] \in Entries
    BY <1>1
  <1> QED BY <1>2 DEF Entries, Envelopes, Readable

(***************************************************************************)
(* What Stored does to a row                                               *)
(***************************************************************************)

\* The side a message is shown on is one of two.
LEMMA OutgoingIsBoolean ==
  ASSUME NEW from, NEW self
  PROVE  Outgoing(from, self) \in BOOLEAN
  BY Zenon DEF Outgoing

\* What someone else has sent is shown as incoming, in the DM with oneself too.
LEMMA PeerIsIncoming ==
  ASSUME NEW self
  PROVE  ~Outgoing("peer", self)
  BY Zenon DEF Outgoing

\* The row made of an envelope has its conversation and its sender.
LEMMA RowType ==
  ASSUME NEW e \in Envelopes, NEW self
  PROVE  /\ Row(e, self) \in Rows
         /\ Row(e, self) # NoRow
         /\ Row(e, self).conv = e.conv /\ Row(e, self).from = e.from
         /\ Row(e, self).from = "peer" => ~Row(e, self).outgoing
  <1> DEFINE out == Outgoing(e.from, self)
  <1>1. out \in BOOLEAN
    BY OutgoingIsBoolean
  <1>2. e.from = "peer" => ~out
    BY PeerIsIncoming, Zenon
  <1> HIDE DEF out
  <1>3. Row(e, self) = [conv |-> e.conv, from |-> e.from, outgoing |-> out, state |-> "Draft"]
    BY Zenon DEF Row, out
  <1>4. /\ Row(e, self) \in Rows /\ Row(e, self) # NoRow /\ Row(e, self).conv = e.conv
    BY <1>1, <1>3 DEF Rows, NoRow, Envelopes
  <1>5. Row(e, self).from = e.from /\ Row(e, self).outgoing = out
    BY <1>1, <1>3
  <1> QED BY <1>2, <1>4, <1>5, Zenon

\* After a batch is stored, a number has the row of one of the batch's envelopes, or
\* the row it had.
LEMMA StoredAt ==
  ASSUME NEW positions, NEW self, NEW id \in Id
  PROVE  \/ \E i \in positions : /\ log[i].id = id
                                 /\ Stored(positions, self)[id] = Row(log[i], self[log[i].conv])
         \/ /\ \A i \in positions : log[i].id # id
            /\ Stored(positions, self)[id] = rows[id]
  <1>1. CASE \A i \in positions : log[i].id # id
    BY <1>1, Zenon DEF Stored
  <1>2. CASE \E i \in positions : log[i].id = id
    <2> DEFINE k == CHOOSE i \in positions : log[i].id = id
    <2>1. k \in positions /\ log[k].id = id
      BY <1>2, Zenon
    <2>2. Stored(positions, self)[id] = Row(log[k], self[log[k].conv])
      BY <1>2, Zenon DEF Stored
    <2> QED BY <2>1, <2>2, Zenon
  <1> QED BY <1>1, <1>2, Zenon

\* Storing a batch leaves a table.
LEMMA StoredType ==
  ASSUME TypeOK, NEW positions \in Positions, NEW self
  PROVE  Stored(positions, self) \in [Id -> Rows]
  <1> DEFINE new == Stored(positions, self)
  <1>1. ASSUME NEW id \in Id PROVE new[id] \in Rows
    <2>1. rows[id] \in Rows
      BY DEF TypeOK
    <2>2. ASSUME NEW i \in positions PROVE Row(log[i], self[log[i].conv]) \in Rows
      <3>1. log[i] \in Envelopes
        BY EntryType DEF Positions
      <3> QED BY <3>1, RowType
    <2> HIDE DEF new
    <2> QED BY StoredAt, <2>1, <2>2 DEF new
  <1>2. new = [id \in Id |-> new[id]]
    BY Zenon DEF Stored
  <1> HIDE DEF new
  <1>3. new \in [Id -> Rows]
    BY <1>1, <1>2
  <1> QED BY <1>3 DEF new

(***************************************************************************)
(* The inductive invariant                                                 *)
(***************************************************************************)

\* What is known of a table: it holds numbers that are in use, nothing of a peer
\* as the user's own, and every message in the conversation and from the sender its
\* envelope names.
TableOK(table) ==
  /\ \A id \in Id : table[id] # NoRow =>
       id < next /\ (table[id].from = "peer" => ~table[id].outgoing)
  /\ \A i \in 1..Len(log) : table[log[i].id] # NoRow =>
       table[log[i].id].conv = log[i].conv /\ table[log[i].id].from = log[i].from

LogOK == /\ \A i \in 1..Len(log) : log[i].id < next
         /\ \A i, j \in 1..Len(log) : log[i].id = log[j].id =>
              log[i].conv = log[j].conv /\ log[i].from = log[j].from

\* UnqueuedIsHeld, of any table.
Held(table) ==
  \A id \in Id : table[id] # NoRow /\ table[id].state # "Queued" =>
    \E i \in 1..Len(log) : log[i].id = id

IInv == /\ TableOK(rows) /\ LogOK /\ Held(rows)
        /\ PassedUnlessFailed /\ ViewIsCurrent /\ listed \subseteq known

\* However often envelopes are stored, the table stays what it is known to be,
\* holds the ones just stored, and what it held.
LEMMA StoredKeeps ==
  ASSUME TypeOK, TableOK(rows), LogOK, NEW positions \in Positions, NEW self
  PROVE  /\ TableOK(Stored(positions, self))
         /\ \A i \in positions : Stored(positions, self)[log[i].id] # NoRow
         /\ \A id \in Id : rows[id] # NoRow => Stored(positions, self)[id] # NoRow
  <1> DEFINE new == Stored(positions, self)
  <1>1. ASSUME NEW id \in Id
        PROVE  \/ \E i \in positions : log[i].id = id /\ new[id] = Row(log[i], self[log[i].conv])
               \/ new[id] = rows[id] /\ \A i \in positions : log[i].id # id
    BY StoredAt
  <1> HIDE DEF new
  <1>2. \A i \in 1..Len(log) : log[i].id \in Id
    BY EntryType
  <1>3. ASSUME NEW i \in positions
        PROVE  LET r == Row(log[i], self[log[i].conv])
               IN /\ i \in 1..Len(log)
                  /\ r # NoRow /\ r.conv = log[i].conv /\ r.from = log[i].from
                  /\ r.from = "peer" => ~r.outgoing
    <2>1. i \in 1..Len(log) /\ log[i] \in Envelopes
      BY EntryType DEF Positions
    <2> QED BY <2>1, RowType, Zenon
  <1>4. ASSUME NEW id \in Id, new[id] # NoRow
        PROVE  id < next /\ (new[id].from = "peer" => ~new[id].outgoing)
    <2>1. CASE \E i \in positions : log[i].id = id /\ new[id] = Row(log[i], self[log[i].conv])
      <3>1. PICK i \in positions : log[i].id = id /\ new[id] = Row(log[i], self[log[i].conv])
        BY <2>1, Zenon
      <3>2. id < next
        BY <1>3, <3>1, Zenon DEF LogOK
      <3>3. new[id].from = "peer" => ~new[id].outgoing
        BY <1>3, <3>1, Zenon
      <3> QED BY <3>2, <3>3, Zenon
    <2>2. CASE new[id] = rows[id]
      BY <1>4, <2>2, Zenon DEF TableOK
    <2> QED BY <1>1, <2>1, <2>2, Zenon
  <1>5. ASSUME NEW i \in 1..Len(log), new[log[i].id] # NoRow
        PROVE  new[log[i].id].conv = log[i].conv /\ new[log[i].id].from = log[i].from
    <2> DEFINE id == log[i].id
    <2>1. CASE \E j \in positions : log[j].id = id /\ new[id] = Row(log[j], self[log[j].conv])
      <3>1. PICK j \in positions : log[j].id = id /\ new[id] = Row(log[j], self[log[j].conv])
        BY <2>1, Zenon
      <3>2. log[j].conv = log[i].conv /\ log[j].from = log[i].from
        BY <1>3, <3>1, Zenon DEF LogOK
      <3> QED BY <1>3, <3>1, <3>2, Zenon
    <2>2. CASE new[id] = rows[id]
      BY <1>5, <2>2, Zenon DEF TableOK
    <2> QED BY <1>1, <1>2, <2>1, <2>2, Zenon
  <1>6. ASSUME NEW id \in Id, rows[id] # NoRow
        PROVE  new[id] # NoRow
    <2>1. CASE \E i \in positions : log[i].id = id /\ new[id] = Row(log[i], self[log[i].conv])
      BY <1>3, <2>1, Zenon
    <2>2. CASE new[id] = rows[id]
      BY <1>6, <2>2, Zenon
    <2> QED BY <1>1, <2>1, <2>2, Zenon
  <1>7. ASSUME NEW i \in positions
        PROVE  new[log[i].id] # NoRow
    <2>1. log[i].id \in Id
      BY <1>2, <1>3, Zenon
    <2>2. PICK j \in positions : new[log[i].id] = Row(log[j], self[log[j].conv])
      BY <1>1, <2>1, Zenon
    <2> QED BY <1>3, <2>2, Zenon
  <1>8. TableOK(new)
    BY <1>4, <1>5, Zenon DEF TableOK
  <1> QED BY <1>6, <1>7, <1>8, Zenon DEF new

\* Two tables with the same rows of a conversation list the same of it.
LEMMA SameListed ==
  ASSUME NEW s, NEW t, NEW conv,
         \A id \in Id : \/ t[id] = s[id]
                        \/ id \notin RowsOf(s, conv) /\ id \notin RowsOf(t, conv)
  PROVE  \A limit : Listed(t, conv, limit) = Listed(s, conv, limit)
  <1>1. RowsOf(t, conv) = RowsOf(s, conv)
    <2>1. ASSUME NEW id \in Id PROVE id \in RowsOf(t, conv) <=> id \in RowsOf(s, conv)
      BY <2>1, Zenon DEF RowsOf
    <2>2. RowsOf(t, conv) \subseteq Id /\ RowsOf(s, conv) \subseteq Id
      BY Zenon DEF RowsOf
    <2> QED BY <2>1, <2>2, Zenon
  <1> SUFFICES ASSUME NEW limit PROVE Listed(t, conv, limit) = Listed(s, conv, limit)
    OBVIOUS
  <1> DEFINE old == OldestRows(RowsOf(s, conv), limit)
  <1>2. \A id \in old : t[id] = s[id]
    <2>1. \A id \in old : id \in RowsOf(s, conv) /\ id \in Id
      BY Zenon DEF OldestRows, RowsOf
    <2> QED BY <2>1, Zenon
  <1>3. /\ Listed(s, conv, limit) = {<<id, s[id]>> : id \in old}
        /\ Listed(t, conv, limit) = {<<id, t[id]>> : id \in old}
    BY <1>1, Zenon DEF Listed
  <1> HIDE DEF old
  <1> QED BY <1>2, <1>3

\* Envelopes of other conversations leave the view's rows alone.
LEMMA OthersKeepView ==
  ASSUME TypeOK, TableOK(rows), LogOK, NEW positions \in Positions, NEW self, NEW conv,
         \A i \in positions : log[i].conv # conv
  PROVE  \A limit : Listed(Stored(positions, self), conv, limit) = Listed(rows, conv, limit)
  <1> DEFINE new == Stored(positions, self)
  <1>0. ASSUME NEW id \in Id
        PROVE  \/ \E i \in positions : log[i].id = id /\ new[id] = Row(log[i], self[log[i].conv])
               \/ new[id] = rows[id]
    BY StoredAt
  <1> HIDE DEF new
  <1>1. ASSUME NEW id \in Id
        PROVE  \/ new[id] = rows[id]
               \/ id \notin RowsOf(rows, conv) /\ id \notin RowsOf(new, conv)
    <2>1. CASE \E i \in positions : log[i].id = id /\ new[id] = Row(log[i], self[log[i].conv])
      <3>1. PICK i \in positions : log[i].id = id /\ new[id] = Row(log[i], self[log[i].conv])
        BY <2>1, Zenon
      <3>2. i \in 1..Len(log) /\ log[i] \in Envelopes
        BY EntryType DEF Positions
      <3>3. new[id].conv = log[i].conv
        BY <3>1, <3>2, RowType, Zenon
      <3>4. rows[id] # NoRow => rows[id].conv = log[i].conv
        BY <3>1, <3>2, Zenon DEF TableOK
      <3> QED BY <3>1, <3>3, <3>4, Zenon DEF RowsOf
    <2> QED BY <1>0, <2>1, Zenon
  <1>2. \A limit : Listed(new, conv, limit) = Listed(rows, conv, limit)
    BY <1>1, SameListed
  <1> QED BY <1>2 DEF new

(***************************************************************************)
(* Types                                                                   *)
(***************************************************************************)

\* A list of a conversation is made of rows.
LEMMA ListedType ==
  ASSUME NEW table \in [Id -> Rows], NEW conv, NEW limit
  PROVE  Listed(table, conv, limit) \subseteq Id \X Rows
  <1>1. OldestRows(RowsOf(table, conv), limit) \subseteq Id
    BY Zenon DEF OldestRows, RowsOf
  <1> QED BY <1>1 DEF Listed

\* What of a step the list pane and the selection see.
LEMMA RefreshTypes ==
  ASSUME TypeOK, NEW added \in SUBSET (Conv \ known), NEW ok \in BOOLEAN,
         NEW conv \in Conv \cup {NoConv}, RefreshAndSelect(added, ok, conv)
  PROVE  known' \subseteq Conv /\ listed' \subseteq Conv /\ selected' \in Conv \cup {NoConv}
  <1>1. known' \subseteq Conv
    BY DEF TypeOK, RefreshAndSelect, Refresh, Upsert
  <1>2. listed' \subseteq Conv
    BY <1>1 DEF TypeOK, RefreshAndSelect, Refresh, Upsert, ShowList
  <1>3. selected' \in Conv \cup {NoConv}
    BY <1>1 DEF RefreshAndSelect, SelectFirst
  <1> QED BY <1>1, <1>2, <1>3

\* apply_envelope keeps the types and leaves the log and the selection alone.
LEMMA ApplyTypes ==
  ASSUME TypeOK, NEW positions, NEW inserted \in Positions, NEW answered,
         Apply(positions, inserted, answered)
  PROVE  /\ rows' \in [Id -> Rows] /\ view' \subseteq Id \X Rows
         /\ shown' \in Conv \cup {NoConv} /\ listed' \subseteq Conv
         /\ UNCHANGED <<session, linked, log, jobs, known, selected, selfDm, next>>
  <1>1. rows' \in [Id -> Rows]
    BY StoredType DEF Apply
  <1>2. Listed(rows', selected, ViewSize) \subseteq Id \X Rows
    BY <1>1, ListedType
  <1>3. view' \subseteq Id \X Rows /\ shown' \in Conv \cup {NoConv}
    BY <1>2 DEF Apply, TypeOK
  <1>4. listed' \subseteq Conv
    BY DEF Apply, TypeOK
  <1> QED BY <1>1, <1>3, <1>4 DEF Apply

\* What a push inserts can be read.
LEMMA OnePushed ==
  ASSUME NEW i, NEW ok, NEW answered, Push(i, ok, answered)
  PROVE  \E inserted \in Positions : Apply({i}, inserted, answered)
  <1>1. {i} \in Positions /\ {} \in Positions
    BY DEF Push, Positions
  <1> QED BY <1>1 DEF Push

\* What a poll inserts can be read, as its whole page can.
LEMMA PagePolled ==
  ASSUME TypeOK, NEW n \in 0..PollSize, NEW inserted, NEW answered, Poll(n, inserted, answered)
  PROVE  /\ n \in Nat /\ cursor + n <= Len(log)
         /\ Page(n) \in Positions /\ inserted \in Positions
  <1>1. n \in Nat /\ cursor \in Nat /\ Len(log) \in Nat /\ cursor + n <= Len(log)
    BY SizeAssumption DEF Poll, PendingPage, TypeOK
  <1>2. \A i \in Page(n) : i \in 1..Len(log) /\ Readable(i)
    BY <1>1 DEF Poll, PendingPage, Page
  <1> QED BY <1>1, <1>2 DEF Positions, Poll

\* What is fetched with a conversation can be read.
LEMMA PageFetched ==
  ASSUME NEW conv \in Conv, NEW page \in PagesOf(conv)
  PROVE  page \in Positions
  BY ConvAssumption DEF PagesOf, Positions, Readable

\* Every state of every behaviour is well typed.
LEMMA TypeStep == TypeOK /\ [Next]_vars => TypeOK'
<1> SUFFICES ASSUME TypeOK, [Next]_vars PROVE TypeOK'
  OBVIOUS
<1> USE DEF pane, ui, poll
<1>0. selected \in Conv \cup {NoConv} /\ MaxMessages \in Nat /\ NoConv \notin Conv
  BY ConvAssumption, SizeAssumption DEF TypeOK
<1>1. ASSUME NEW conv \in Conv \cup {NoConv}, NEW from \in From, Deliver(conv, from)
      PROVE  TypeOK'
  <2>1. next \in Id /\ next' \in 1..(MaxMessages + 1)
    BY <1>0, <1>1 DEF Deliver, TypeOK, Id
  <2>2. [id |-> next, conv |-> conv, from |-> from] \in Entries
    BY <2>1 DEF Entries
  <2>3. log \in Seq(Entries)
    BY DEF TypeOK, Entries
  <2>4. log' \in Seq(Entries) /\ Len(log') = Len(log) + 1 /\ Len(log) \in Nat
    BY <1>1, <2>2, <2>3 DEF Deliver
  <2>5. cursor' \in 0..Len(log')
    BY <1>1, <2>4 DEF Deliver, TypeOK
  <2> QED BY <1>1, <2>1, <2>4, <2>5 DEF Deliver, TypeOK, Entries
<1>2. ASSUME NEW i \in 1..MaxMessages, NEW ok \in BOOLEAN, NEW answered \in BOOLEAN,
             Push(i, ok, answered)
      PROVE  TypeOK'
  <2>1. PICK inserted \in Positions : Apply({i}, inserted, answered)
    BY <1>2, OnePushed
  <2>2. /\ rows' \in [Id -> Rows] /\ view' \subseteq Id \X Rows
        /\ shown' \in Conv \cup {NoConv} /\ listed' \subseteq Conv
        /\ UNCHANGED <<session, linked, log, jobs, known, selected, selfDm, next>>
    BY <2>1, ApplyTypes
  <2>3. UNCHANGED cursor /\ missed' \subseteq missed
    BY <1>2 DEF Push, StillMissed
  <2> QED BY <2>2, <2>3 DEF TypeOK
<1>3. ASSUME NEW n \in 0..PollSize, NEW answered \in BOOLEAN, NEW inserted \in SUBSET Page(n),
             Poll(n, inserted, answered)
      PROVE  TypeOK'
  <2>1. /\ n \in Nat /\ cursor \in Nat /\ Len(log) \in Nat /\ cursor + n <= Len(log)
        /\ Page(n) \in Positions /\ inserted \in Positions
    BY <1>3, PagePolled DEF TypeOK
  <2>2. /\ rows' \in [Id -> Rows] /\ view' \subseteq Id \X Rows
        /\ shown' \in Conv \cup {NoConv} /\ listed' \subseteq Conv
        /\ UNCHANGED <<session, linked, log, jobs, known, selected, selfDm, next>>
    BY <1>3, <2>1, ApplyTypes DEF Poll
  <2>3. cursor' \in 0..Len(log)
    BY <1>3, <2>1 DEF Poll, NextCursor
  <2>4. missed' \subseteq Id
    <3>1. \A i \in Page(n) : log[i].id \in Id
      BY <2>1, EntryType DEF Positions
    <3> QED BY <1>3, <3>1 DEF Poll, StillMissed, TypeOK
  <2> QED BY <2>2, <2>3, <2>4 DEF TypeOK
<1>4. ASSUME NEW added \in SUBSET (Conv \ known), NEW ok \in BOOLEAN,
             MembershipChanged(added, ok)
      PROVE  TypeOK'
  <2>1. known' \subseteq Conv
    BY <1>4 DEF MembershipChanged, Refresh, Upsert, TypeOK
  <2>2. listed' \subseteq Conv
    BY <1>4, <2>1 DEF MembershipChanged, Refresh, Upsert, ShowList, TypeOK
  <2> QED BY <1>4, <2>1, <2>2 DEF MembershipChanged, TypeOK
<1>5. ASSUME NEW added \in SUBSET (Conv \ known), NEW ok \in BOOLEAN, DelayedRefresh(added, ok)
      PROVE  TypeOK'
  <2>1. known' \subseteq Conv /\ listed' \subseteq Conv /\ selected' \in Conv \cup {NoConv}
    BY <1>0, <1>5, RefreshTypes DEF DelayedRefresh
  <2> QED BY <1>5, <2>1 DEF DelayedRefresh, TypeOK
<1>6. ASSUME NEW added \in SUBSET (Conv \ known), NEW ok \in BOOLEAN, Enter(added, ok)
      PROVE  TypeOK'
  <2>1. known' \subseteq Conv /\ listed' \subseteq Conv /\ selected' \in Conv \cup {NoConv}
    BY <1>0, <1>6, RefreshTypes DEF Enter
  <2>2. session' \in BOOLEAN /\ linked' \in BOOLEAN
    BY <1>6, Zenon DEF Enter
  <2> QED BY <1>6, <2>1, <2>2 DEF Enter, TypeOK
<1>7. ASSUME NEW conv \in Conv, NEW added \in SUBSET (Conv \ known), NEW ok \in BOOLEAN,
             CreateDm(conv, added, ok)
      PROVE  TypeOK'
  <2>1. known' \subseteq Conv /\ listed' \subseteq Conv /\ selected' \in Conv \cup {NoConv}
    BY <1>7, RefreshTypes DEF CreateDm
  <2>2. view' \subseteq Id \X Rows
    BY <1>7, ListedType DEF CreateDm, TypeOK
  <2> QED BY <1>7, <2>1, <2>2 DEF CreateDm, TypeOK
<1>8. ASSUME NEW conv \in Conv, NEW added \in SUBSET (Conv \ known), NEW ok \in BOOLEAN,
             Join(conv, added, ok)
      PROVE  TypeOK'
  <2>1. known' \subseteq Conv /\ listed' \subseteq Conv /\ selected' \in Conv \cup {NoConv}
    BY <1>8, RefreshTypes DEF Join
  <2> QED BY <1>8, <2>1 DEF Join, ViewOfOther, TypeOK
<1>9. CASE Logout
  <2>1. session' \in BOOLEAN
    BY <1>9, Zenon DEF Logout
  <2> QED BY <1>9, <2>1 DEF Logout, ViewOfOther, TypeOK
<1>10. ASSUME NEW conv \in Conv, NEW summary \in BOOLEAN, NEW page \in PagesOf(conv),
              Select(conv, summary, page)
       PROVE  TypeOK'
  <2>1. rows' \in [Id -> Rows]
    <3>1. page \in Positions
      BY PageFetched
    <3>2. \A self : Stored(page, self) \in [Id -> Rows]
      BY <3>1, StoredType
    <3> QED BY <1>10, <3>2, Zenon DEF Select
  <2>2. view' \subseteq Id \X Rows
    BY <1>10, <2>1, ListedType DEF Select
  <2>3. selfDm' \in BOOLEAN
    BY <1>10, Zenon DEF Select, SummarySelfDm, TypeOK
  <2>4. missed' \subseteq missed
    BY <1>10 DEF Select, StillMissed
  <2> QED BY <1>10, <2>1, <2>2, <2>3, <2>4 DEF Select, TypeOK
<1>11. ASSUME NEW accepted \in BOOLEAN, NEW ok \in BOOLEAN, NEW stored \in BOOLEAN,
              NEW queued \in BOOLEAN, NEW added \in SUBSET (Conv \ known),
              Send(accepted, ok, stored, queued, added)
       PROVE  TypeOK'
  <2>1. next \in Id /\ next' \in 1..(MaxMessages + 1) /\ selected \in Conv
    BY <1>0, <1>11 DEF Send, MaySend, TypeOK, Id
  <2>2. [id |-> next, conv |-> selected, from |-> "this"] \in Entries
    BY <2>1 DEF Entries, From
  <2>3. log \in Seq(Entries)
    BY DEF TypeOK, Entries
  <2>4. /\ log' \in Seq(Entries) /\ Len(log) \in Nat
        /\ Len(log') = Len(log) \/ Len(log') = Len(log) + 1
    BY <1>11, <2>2, <2>3 DEF Send, SendEnvelope
  <2>5. cursor' \in 0..Len(log')
    BY <1>11, <2>4 DEF Send, TypeOK
  <2>6. \A state \in {"SentToServer", "Queued"} :
          [conv |-> selected, from |-> "this", outgoing |-> TRUE, state |-> state] \in Rows
    BY <2>1 DEF Rows, From
  <2>7. rows' \in [Id -> Rows] /\ jobs' \subseteq Id
    BY <1>11, <2>1, <2>6 DEF Send, SendMessage, TypeOK
  <2>8. view' \subseteq Id \X Rows
    BY <1>11, <2>7, ListedType DEF Send
  <2> QED BY <1>11, <2>1, <2>4, <2>5, <2>7, <2>8 DEF Send, Upsert, TypeOK, Entries
<1>12. CASE Restart
  <2>1. session' \in BOOLEAN /\ linked' \in BOOLEAN /\ selfDm' \in BOOLEAN
    BY <1>12, Zenon DEF Restart
  <2>2. cursor' \in 0..Len(log') /\ log' \in Seq(Entries)
    BY <1>12 DEF Restart, TypeOK, Entries
  <2> QED BY <1>12, <2>1, <2>2 DEF Restart, TypeOK, Entries
<1>13. CASE UNCHANGED vars
  BY <1>13 DEF vars, TypeOK
<1>14. {"other", "peer"} \subseteq From
  BY DEF From
<1> QED
  BY <1>1, <1>14, <1>2, <1>3, <1>4, <1>5, <1>6, <1>7, <1>8, <1>9, <1>10, <1>11, <1>12, <1>13, Zenon
  DEF Next, Arrive, ArriveUnreadable, Create, Subscribe

\* The table, the log, the list and the view are well typed.
THEOREM TypeCorrect == Spec => []TypeOK
<1>1. Init => TypeOK
  <2> SUFFICES ASSUME Init PROVE TypeOK
    OBVIOUS
  <2>1. session \in BOOLEAN /\ linked \in BOOLEAN /\ selfDm \in BOOLEAN
    BY Zenon DEF Init
  <2>2. rows \in [Id -> Rows]
    BY DEF Init, Rows
  <2>3. next \in 1..(MaxMessages + 1)
    BY SizeAssumption DEF Init
  <2> QED BY <2>1, <2>2, <2>3 DEF Init, TypeOK
<1> QED BY <1>1, TypeStep, PTL DEF Spec

(***************************************************************************)
(* The invariant is inductive                                              *)
(***************************************************************************)

\* A step that leaves log, table and polling alone, and has the view follow.
LEMMA SameTable ==
  ASSUME IInv, UNCHANGED <<log, rows, poll, next>>, ViewIsCurrent', listed' \subseteq known'
  PROVE  IInv'
  <1>1. UNCHANGED <<cursor, missed>>
    BY DEF poll
  <1> QED BY <1>1 DEF IInv, TableOK, LogOK, Held, PassedUnlessFailed

\* A step that does not poll: what was passed is in the table or missed as before, or
\* is no longer missed because it is in the table now.
LEMMA PassedOn ==
  ASSUME TypeOK, PassedUnlessFailed, cursor' = cursor,
         \A i \in 1..Len(log) : log'[i] = log[i],
         \A id \in Id : rows[id] # NoRow => rows'[id] # NoRow,
         \A id \in missed : id \in missed' \/ rows'[id] # NoRow
  PROVE  PassedUnlessFailed'
  <1> SUFFICES ASSUME NEW i \in 1..cursor
               PROVE  rows'[log'[i].id] # NoRow \/ log'[i].id \in missed'
    BY DEF PassedUnlessFailed
  <1>1. i \in 1..Len(log)
    BY DEF TypeOK
  <1>2. log[i].id \in Id /\ log'[i] = log[i]
    BY <1>1, EntryType
  <1>3. rows[log[i].id] # NoRow \/ log[i].id \in missed
    BY DEF PassedUnlessFailed
  <1> QED BY <1>2, <1>3

\* A view stays current when neither it nor the table nor what it shows changes.
LEMMA ViewFrame ==
  ASSUME ViewIsCurrent, UNCHANGED <<rows, view, shown>>, shown # NoConv => selected' = selected
  PROVE  ViewIsCurrent'
  <1> SUFFICES ASSUME shown # NoConv PROVE ViewIsCurrent'
    BY DEF ViewIsCurrent
  <1>1. rows' = rows /\ selected' = selected /\ view' = view /\ shown' = shown /\ shown = selected
    BY DEF ViewIsCurrent
  <1>2. PICK limit \in {OpenSize, ViewSize} : view = Listed(rows, selected, limit)
    BY DEF ViewIsCurrent
  <1>3. Listed(rows', selected', limit) = Listed(rows, selected, limit)
    BY <1>1, Zenon
  <1>4. view' = Listed(rows', selected', limit)
    BY <1>1, <1>2, <1>3, Zenon
  <1> QED BY <1>1, <1>4, Zenon DEF ViewIsCurrent

\* A selection that is shown stays the selection through a refresh.
LEMMA RefreshKeepsView ==
  ASSUME IInv, NEW added, NEW ok, RefreshAndSelect(added, ok, selected),
         UNCHANGED <<rows, view, shown>>
  PROVE  ViewIsCurrent' /\ listed' \subseteq known'
  <1>1. shown # NoConv => selected' = selected
    BY DEF IInv, ViewIsCurrent, RefreshAndSelect, SelectFirst
  <1>2. ViewIsCurrent'
    BY <1>1, ViewFrame DEF IInv
  <1>3. listed' \subseteq known'
    BY DEF IInv, RefreshAndSelect, Refresh, Upsert, ShowList
  <1> QED BY <1>2, <1>3

\* A log that has been given an envelope with a number of its own.
LEMMA LogExtended ==
  ASSUME IInv, next \in Nat, next' = next + 1, NEW conv,
         NEW from,
         \A i \in 1..Len(log') :
           \/ i \in 1..Len(log) /\ log'[i] = log[i] /\ log[i].id \in Nat /\ log[i].id < next
           \/ log'[i].id = next /\ log'[i].conv = conv /\ log'[i].from = from
  PROVE  LogOK'
  <1>1. \A i \in 1..Len(log') : log'[i].id < next'
    OBVIOUS
  <1>2. ASSUME NEW i \in 1..Len(log'), NEW j \in 1..Len(log'), log'[i].id = log'[j].id
        PROVE  log'[i].conv = log'[j].conv /\ log'[i].from = log'[j].from
    <2>1. CASE log'[i].id = next
      <3>1. \A k \in 1..Len(log') : log'[k].id = next => log'[k].conv = conv /\ log'[k].from = from
        OBVIOUS
      <3> QED BY <1>2, <2>1, <3>1, Zenon
    <2>2. CASE log'[i].id # next
      <3>1. i \in 1..Len(log) /\ log'[i] = log[i] /\ j \in 1..Len(log) /\ log'[j] = log[j]
        BY <1>2, <2>2
      <3> QED BY <1>2, <3>1, Zenon DEF IInv, LogOK
    <2> QED BY <2>1, <2>2, Zenon
  <1> QED BY <1>1, <1>2, Zenon DEF LogOK

\* What the server holds it keeps holding.
LEMMA HeldLonger ==
  ASSUME Held(rows), rows' = rows, 1..Len(log) \subseteq 1..Len(log'),
         \A i \in 1..Len(log) : log'[i] = log[i]
  PROVE  Held(rows)'
  BY Zenon DEF Held

\* Envelopes that are stored are held.
LEMMA StoredHeld ==
  ASSUME Held(rows), NEW positions \in Positions, NEW self
  PROVE  Held(Stored(positions, self))
  <1> SUFFICES ASSUME NEW id \in Id, Stored(positions, self)[id] # NoRow,
                      Stored(positions, self)[id].state # "Queued"
               PROVE  \E i \in 1..Len(log) : log[i].id = id
    BY DEF Held
  <1>1. \A i \in positions : i \in 1..Len(log)
    BY DEF Positions
  <1>2. CASE \E i \in positions : log[i].id = id
    BY <1>1, <1>2
  <1>3. CASE Stored(positions, self)[id] = rows[id]
    BY <1>3 DEF Held
  <1> QED BY <1>2, <1>3, StoredAt

\* An envelope reaches the server, one that can be read or not.
LEMMA DeliverKeeps ==
  ASSUME TypeOK, IInv, NEW conv, NEW from, Deliver(conv, from)
  PROVE  IInv'
  <1>1. /\ log \in Seq(Entries) /\ Len(log) \in Nat /\ cursor \in 0..Len(log) /\ next \in Nat
        /\ log' = Append(log, [id |-> next, conv |-> conv, from |-> from]) /\ next' = next + 1
        /\ UNCHANGED <<rows, cursor, missed, selected, view, shown, listed, known>>
    BY SizeAssumption DEF Deliver, TypeOK, Entries, pane, ui, poll
  <1>2. \A i \in 1..Len(log) : log'[i] = log[i] /\ log[i].id \in Nat /\ log[i].id < next
    BY <1>1, EntryType DEF IInv, LogOK, Id
  <1>3. /\ 1..Len(log') = 1..Len(log) \cup {Len(log) + 1}
        /\ log'[Len(log) + 1] = [id |-> next, conv |-> conv, from |-> from]
    BY <1>1
  <1>4. next \in Id /\ rows[next] = NoRow
    BY <1>1 DEF Deliver, Id, IInv, TableOK, TypeOK
  <1>5. LogOK'
    <2>1. \A i \in 1..Len(log') :
            \/ i \in 1..Len(log) /\ log'[i] = log[i] /\ log[i].id \in Nat /\ log[i].id < next
            \/ log'[i].id = next /\ log'[i].conv = conv /\ log'[i].from = from
      BY <1>2, <1>3
    <2> QED BY <1>1, <2>1, LogExtended, Zenon
  <1>6. TableOK(rows)'
    <2>1. ASSUME NEW id \in Id, rows[id] # NoRow
          PROVE  id < next' /\ (rows[id].from = "peer" => ~rows[id].outgoing)
      <3>1. id < next /\ id \in Nat
        BY <2>1 DEF IInv, TableOK, Id
      <3>2. id < next'
        BY <1>1, <3>1
      <3>3. rows[id].from = "peer" => ~rows[id].outgoing
        BY <2>1, Zenon DEF IInv, TableOK
      <3> QED BY <3>2, <3>3, Zenon
    <2>2. ASSUME NEW i \in 1..Len(log'), rows[log'[i].id] # NoRow
          PROVE  rows[log'[i].id].conv = log'[i].conv /\ rows[log'[i].id].from = log'[i].from
      BY <1>2, <1>3, <1>4, <2>2 DEF IInv, TableOK
    <2> QED BY <1>1, <2>1, <2>2, Zenon DEF TableOK
  <1>7. ViewIsCurrent' /\ listed' \subseteq known'
    BY <1>1, ViewFrame DEF IInv
  <1>8. Held(rows)'
    BY <1>1, <1>2, <1>3, HeldLonger DEF IInv
  <1>9. PassedUnlessFailed'
    BY <1>1, <1>2, PassedOn DEF IInv
  <1> QED BY <1>5, <1>6, <1>7, <1>8, <1>9 DEF IInv

\* Envelopes pushed or polled, as far as the table and the view are concerned.
LEMMA ApplyKeeps ==
  ASSUME TypeOK, IInv, NEW positions, NEW inserted \in Positions, NEW answered,
         inserted \subseteq positions, Apply(positions, inserted, answered)
  PROVE  /\ TableOK(rows') /\ Held(rows)' /\ ViewIsCurrent' /\ listed' \subseteq known'
         /\ \A i \in inserted : rows'[log[i].id] # NoRow
         /\ \A id \in Id : rows[id] # NoRow => rows'[id] # NoRow
  <1>1. PICK self : rows' = Stored(inserted, self)
    BY Zenon DEF Apply
  <1>2. /\ TableOK(rows') /\ \A i \in inserted : rows'[log[i].id] # NoRow
        /\ \A id \in Id : rows[id] # NoRow => rows'[id] # NoRow
    BY <1>1, StoredKeeps DEF IInv
  <1>3. UNCHANGED <<selected, known>> /\ listed' \subseteq known'
    BY DEF Apply, IInv
  <1>6. Held(rows)'
    <2>1. Held(rows') /\ log' = log
      BY <1>1, StoredHeld DEF IInv, Apply
    <2> QED BY <2>1 DEF Held
  <1>4. CASE ViewConcerned(positions)
    <2>1. view' = Listed(rows', selected, ViewSize) /\ shown' = selected
      BY <1>4 DEF Apply
    <2> QED BY <1>2, <1>3, <1>6, <2>1 DEF ViewIsCurrent
  <1>5. CASE ~ViewConcerned(positions)
    <2>1. UNCHANGED <<view, shown>>
      BY <1>5 DEF Apply
    <2>2. \A limit : Listed(rows', selected, limit) = Listed(rows, selected, limit)
      BY <1>1, <1>5, OthersKeepView DEF IInv, ViewConcerned
    <2>3. ViewIsCurrent'
      BY <1>3, <2>1, <2>2 DEF IInv, ViewIsCurrent
    <2> QED BY <1>2, <1>3, <1>6, <2>3
  <1> QED BY <1>4, <1>5

\* A push preserves the invariant.
LEMMA PushKeeps ==
  ASSUME TypeOK, IInv, NEW i, NEW ok, NEW answered, Push(i, ok, answered)
  PROVE  IInv'
  <1>1. PICK inserted \in Positions : inserted \subseteq {i} /\ Apply({i}, inserted, answered)
    <2>1. {i} \in Positions /\ {} \in Positions
      BY DEF Push, Positions
    <2> QED BY <2>1 DEF Push
  <1>2. /\ TableOK(rows') /\ Held(rows)' /\ ViewIsCurrent' /\ listed' \subseteq known'
        /\ \A id \in Id : rows[id] # NoRow => rows'[id] # NoRow
    BY <1>1, ApplyKeeps
  <1>3. UNCHANGED <<cursor, log, next>>
    BY <1>1 DEF Push, Apply
  <1>4. TableOK(rows)'
    BY <1>2, <1>3 DEF TableOK
  <1>5. PassedUnlessFailed'
    <2>1. \A id \in missed : id \in missed' \/ rows'[id] # NoRow
      BY DEF Push, StillMissed
    <2> QED BY <1>2, <1>3, <2>1, PassedOn DEF IInv
  <1> QED BY <1>2, <1>3, <1>4, <1>5 DEF IInv, LogOK

\* A page of pending envelopes preserves the invariant: the cursor goes on by what is
\* inserted or missed.
LEMMA PollKeeps ==
  ASSUME TypeOK, IInv, NEW n \in 0..PollSize, NEW inserted \in SUBSET Page(n), NEW answered,
         Poll(n, inserted, answered)
  PROVE  IInv'
  <1>1. n \in Nat /\ cursor + n <= Len(log) /\ Page(n) \in Positions /\ inserted \in Positions
    BY PagePolled
  <1>2. Apply(Page(n), inserted, answered) /\ UNCHANGED <<log, next>>
    BY DEF Poll, Apply
  <1>3. /\ TableOK(rows') /\ Held(rows)' /\ ViewIsCurrent' /\ listed' \subseteq known'
        /\ \A i \in inserted : rows'[log[i].id] # NoRow
        /\ \A id \in Id : rows[id] # NoRow => rows'[id] # NoRow
    BY <1>1, <1>2, ApplyKeeps
  <1>4. TableOK(rows)'
    BY <1>2, <1>3 DEF TableOK
  <1>5. PassedUnlessFailed'
    <2> SUFFICES ASSUME NEW i \in 1..cursor'
                 PROVE  rows'[log[i].id] # NoRow \/ log[i].id \in missed'
      BY <1>2 DEF PassedUnlessFailed
    <2>1. cursor \in Nat /\ Len(log) \in Nat /\ (cursor' = cursor + n \/ cursor' = 0)
      BY DEF Poll, NextCursor, TypeOK
    <2>2. \/ i \in Page(n)
          \/ i \in 1..cursor /\ cursor # 0
      BY <1>1, <2>1 DEF Page
    <2>3. i \in 1..Len(log)
      BY <1>1, <2>1, <2>2 DEF Positions
    <2>4. log[i].id \in Id
      BY <2>3, EntryType
    <2>5. \A id : id \in missed' <=>
            /\ id \in {log[j].id : j \in Page(n) \ inserted} \cup (IF cursor = 0 THEN {} ELSE missed)
            /\ rows'[id] = NoRow
      BY Zenon DEF Poll, StillMissed
    <2>6. CASE i \in Page(n)
      BY <1>3, <2>5, <2>6
    <2>7. CASE i \in 1..cursor /\ cursor # 0
      <3>1. rows[log[i].id] # NoRow \/ log[i].id \in missed
        BY <2>7 DEF IInv, PassedUnlessFailed
      <3> QED BY <1>3, <2>4, <2>5, <2>7, <3>1
    <2> QED BY <2>2, <2>6, <2>7
  <1> QED BY <1>2, <1>3, <1>4, <1>5 DEF IInv, LogOK

\* Opening a conversation preserves the invariant.
LEMMA SelectKeeps ==
  ASSUME TypeOK, IInv, NEW conv \in Conv, NEW summary, NEW page \in PagesOf(conv),
         Select(conv, summary, page)
  PROVE  IInv'
  <1>1. page \in Positions
    BY PageFetched
  <1>2. \E self : rows' = Stored(page, self)
    BY Zenon DEF Select, SummarySelfDm
  <1>3. TableOK(rows') /\ \A id \in Id : rows[id] # NoRow => rows'[id] # NoRow
    BY <1>1, <1>2, StoredKeeps DEF IInv
  <1>4. /\ UNCHANGED <<log, cursor, next, known, listed>>
        /\ view' = Listed(rows', conv, OpenSize) /\ shown' = conv /\ selected' = conv
    BY DEF Select, pane
  <1>5. TableOK(rows)'
    BY <1>3, <1>4 DEF TableOK
  <1>6. Held(rows)'
    <2>1. Held(rows')
      BY <1>1, <1>2, StoredHeld DEF IInv
    <2> QED BY <1>4, <2>1 DEF Held
  <1>7. PassedUnlessFailed'
    <2>1. \A id \in missed : id \in missed' \/ rows'[id] # NoRow
      BY DEF Select, StillMissed
    <2> QED BY <1>3, <1>4, <2>1, PassedOn DEF IInv
  <1> QED BY <1>4, <1>5, <1>6, <1>7 DEF IInv, LogOK, ViewIsCurrent

\* Sending a message, refused or not, stored or not, preserves the invariant.
LEMMA SendKeeps ==
  ASSUME TypeOK, IInv, NEW accepted, NEW ok, NEW stored, NEW queued, NEW added,
         Send(accepted, ok, stored, queued, added)
  PROVE  IInv'
  <1>1. /\ log \in Seq(Entries) /\ Len(log) \in Nat /\ cursor \in 0..Len(log) /\ next \in Nat
        /\ next' = next + 1 /\ next \in Id /\ rows \in [Id -> Rows]
        /\ UNCHANGED <<cursor, missed, selected>>
        /\ view' = Listed(rows', selected, ViewSize) /\ shown' = selected /\ listed' = known'
    BY SizeAssumption DEF Send, TypeOK, Entries, Id, poll
  <1>2. PICK entry : entry.id = next /\ entry.conv = selected /\ entry.from = "this"
                     /\ (log' = log \/ log' = Append(log, entry))
    <2>1. log' = log \/ log' = Append(log, [id |-> next, conv |-> selected, from |-> "this"])
      BY DEF Send, SendEnvelope
    <2> QED BY <2>1
  <1>3. PICK row : /\ row.conv = selected /\ row # NoRow /\ row.from = "this"
                   /\ row.state = "Queued" \/ log' = Append(log, [id |-> next, conv |-> selected, from |-> "this"])
                   /\ rows' = rows \/ rows' = [rows EXCEPT ![next] = row]
    <2>1. PICK state \in {"SentToServer", "Queued"} :
            /\ \/ rows' = rows
               \/ rows' = [rows EXCEPT ![next] = [conv |-> selected, from |-> "this",
                                                  outgoing |-> TRUE, state |-> state]]
            /\ state = "Queued" \/ log' = Append(log, [id |-> next, conv |-> selected, from |-> "this"])
      BY DEF Send, SendEnvelope, SendMessage
    <2> DEFINE new == [conv |-> selected, from |-> "this", outgoing |-> TRUE, state |-> state]
    <2>2. /\ new.conv = selected /\ new # NoRow
          /\ new.from = "this" /\ new.state = state
      BY DEF NoRow
    <2>3. rows' = rows \/ rows' = [rows EXCEPT ![next] = new]
      BY <2>1
    <2> HIDE DEF new
    <2> QED BY <2>1, <2>2, <2>3, Zenon
  <1>4. \A i \in 1..Len(log) : /\ log'[i] = log[i] /\ log[i].id \in Id
                               /\ log[i].id < next /\ log[i].id # next
    <2>1. \A i \in 1..Len(log) : log[i].id \in Id /\ log[i].id < next
      BY EntryType DEF IInv, LogOK
    <2>2. \A i \in 1..Len(log) : log'[i] = log[i]
      BY <1>1, <1>2
    <2> QED BY <1>1, <2>1, <2>2 DEF Id
  <1>5. \A i \in 1..Len(log') : i \in 1..Len(log) \/ (log'[i] = entry /\ i > Len(log))
    BY <1>1, <1>2
  <1>6. rows[next] = NoRow /\ \A id \in Id : id # next => rows'[id] = rows[id]
    BY <1>1, <1>3 DEF IInv, TableOK
  <1>7. rows'[next] = NoRow \/ rows'[next] = row
    BY <1>1, <1>3, <1>6
  <1>8. LogOK'
    <2>1. \A i \in 1..Len(log') :
            \/ i \in 1..Len(log) /\ log'[i] = log[i] /\ log[i].id \in Nat /\ log[i].id < next
            \/ log'[i].id = next /\ log'[i].conv = selected /\ log'[i].from = "this"
      BY <1>2, <1>4, <1>5 DEF Id
    <2> QED BY <1>1, <2>1, LogExtended, Zenon
  <1>9. ASSUME NEW id \in Id, rows'[id] # NoRow
        PROVE  id < next' /\ (rows'[id].from = "peer" => ~rows'[id].outgoing)
    <2>1. CASE id = next
      BY <1>1, <1>3, <1>7, <1>9, <2>1
    <2>2. CASE id # next
      <3>1. id \in Nat /\ id < next
        BY <1>6, <1>9, <2>2 DEF IInv, TableOK, Id
      <3>2. id < next'
        BY <1>1, <3>1
      <3>3. rows'[id].from = "peer" => ~rows'[id].outgoing
        BY <1>6, <1>9, <2>2, Zenon DEF IInv, TableOK
      <3> QED BY <3>2, <3>3, Zenon
    <2> QED BY <2>1, <2>2, Zenon
  <1>10. ASSUME NEW i \in 1..Len(log'), rows'[log'[i].id] # NoRow
         PROVE  rows'[log'[i].id].conv = log'[i].conv /\ rows'[log'[i].id].from = log'[i].from
    <2>1. CASE i \in 1..Len(log)
      BY <1>4, <1>6, <1>10, <2>1 DEF IInv, TableOK
    <2>2. CASE log'[i] = entry
      BY <1>2, <1>3, <1>7, <1>10, <2>2
    <2> QED BY <1>5, <2>1, <2>2
  <1>11. TableOK(rows)'
    BY <1>1, <1>9, <1>10, Zenon DEF TableOK
  <1>12. Held(rows)'
    <2> SUFFICES ASSUME NEW id \in Id, rows'[id] # NoRow, rows'[id].state # "Queued"
                 PROVE  \E i \in 1..Len(log') : log'[i].id = id
      BY DEF Held
    <2>1. CASE id = next
      <3>1. log' = Append(log, [id |-> next, conv |-> selected, from |-> "this"])
        BY <1>3, <1>7, <2>1
      <3>2. Len(log) + 1 \in 1..Len(log') /\ log'[Len(log) + 1].id = next
        BY <1>1, <3>1
      <3> QED BY <2>1, <3>2
    <2>2. CASE id # next
      <3>1. PICK i \in 1..Len(log) : log[i].id = id
        BY <1>6, <2>2 DEF IInv, Held
      <3>2. i \in 1..Len(log')
        BY <1>1, <1>2
      <3> QED BY <1>4, <3>1, <3>2
    <2> QED BY <2>1, <2>2
  <1>13. PassedUnlessFailed'
    BY <1>1, <1>4, <1>6, PassedOn DEF IInv
  <1> QED BY <1>1, <1>8, <1>11, <1>12, <1>13 DEF IInv, ViewIsCurrent

\* The types and the invariant together are inductive.
LEMMA Invariant == Spec => [](TypeOK /\ IInv)
<1>1. Init => IInv
  <2> SUFFICES ASSUME Init PROVE IInv
    OBVIOUS
  <2>1. \A id \in Id : rows[id] = NoRow
    BY DEF Init
  <2>2. log = <<>> /\ Len(log) = 0 /\ shown = NoConv /\ listed \subseteq known
    BY DEF Init
  <2>3. 1..cursor = {}
    BY DEF Init
  <2> QED BY <2>1, <2>2, <2>3 DEF IInv, TableOK, LogOK, Held, PassedUnlessFailed, ViewIsCurrent
<1>2. TypeOK /\ IInv /\ [Next]_vars => IInv'
  <2> SUFFICES ASSUME TypeOK, IInv, [Next]_vars PROVE IInv'
    OBVIOUS
  <2>1. ASSUME NEW added, NEW ok, MembershipChanged(added, ok) PROVE IInv'
    <3>1. UNCHANGED <<log, rows, poll, next, selected, view, shown>>
      BY <2>1 DEF MembershipChanged, ui
    <3>2. ViewIsCurrent' /\ listed' \subseteq known'
      BY <2>1, <3>1, ViewFrame DEF MembershipChanged, Refresh, Upsert, ShowList, IInv
    <3> QED BY <3>1, <3>2, SameTable
  <2>2. ASSUME NEW added, NEW ok, DelayedRefresh(added, ok) PROVE IInv'
    BY <2>2, RefreshKeepsView, SameTable DEF DelayedRefresh
  <2>3. ASSUME NEW added, NEW ok, Enter(added, ok) PROVE IInv'
    BY <2>3, RefreshKeepsView, SameTable DEF Enter
  <2>4. ASSUME NEW conv \in Conv, NEW added, NEW ok, CreateDm(conv, added, ok) PROVE IInv'
    <3>1. selected' = conv
      BY <2>4, ConvAssumption DEF CreateDm, RefreshAndSelect, SelectFirst
    <3>2. ViewIsCurrent'
      <4>1. shown' = selected' /\ view' = Listed(rows', selected', OpenSize)
        BY <2>4, <3>1, Zenon DEF CreateDm
      <4> QED BY <4>1, Zenon DEF ViewIsCurrent
    <3>3. listed' \subseteq known'
      BY <2>4 DEF CreateDm, RefreshAndSelect, Refresh, Upsert, ShowList, IInv
    <3> QED BY <2>4, <3>2, <3>3, SameTable DEF CreateDm
  <2>5. ASSUME NEW conv, NEW added, NEW ok, Join(conv, added, ok) PROVE IInv'
    <3>1. ViewIsCurrent' /\ listed' \subseteq known'
      BY <2>5 DEF Join, ViewOfOther, ViewIsCurrent, RefreshAndSelect, Refresh, Upsert, ShowList, IInv
    <3> QED BY <2>5, <3>1, SameTable DEF Join
  <2>6. CASE Logout
    <3>1. ViewIsCurrent' /\ listed' \subseteq known'
      BY <2>6 DEF Logout, ViewOfOther, ViewIsCurrent, IInv, pane
    <3> QED BY <2>6, <3>1, SameTable DEF Logout
  <2>7. CASE Restart
    <3>1. 1..cursor' = {}
      BY <2>7 DEF Restart
    <3>2. ViewIsCurrent' /\ listed' \subseteq known'
      BY <2>7 DEF Restart, ViewIsCurrent
    <3> QED BY <2>7, <3>1, <3>2 DEF Restart, IInv, TableOK, LogOK, Held, PassedUnlessFailed
  <2>8. CASE UNCHANGED vars
    <3>1. ViewIsCurrent' /\ listed' \subseteq known'
      BY <2>8, ViewFrame DEF vars, ui, pane, IInv
    <3> QED BY <2>8, <3>1, SameTable DEF vars
  <2> QED
    BY <2>1, <2>2, <2>3, <2>4, <2>5, <2>6, <2>7, <2>8,
       DeliverKeeps, PushKeeps, PollKeeps, SelectKeeps, SendKeeps, Zenon DEF Next, Arrive, ArriveUnreadable, Create, Subscribe
<1> QED BY <1>1, <1>2, TypeCorrect, PTL DEF Spec

(***************************************************************************)
(* The properties                                                          *)
(***************************************************************************)

\* Nothing a peer has sent is ever stored as the user's own, whatever is known
\* of the session and of the conversation when it is applied.
THEOREM PeersStayIncoming == Spec => []PeerNeverOutgoing
<1>1. TypeOK /\ IInv => PeerNeverOutgoing
  BY Zenon DEF IInv, TableOK, PeerNeverOutgoing
<1> QED BY <1>1, Invariant, PTL

\* Polling passes over no envelope but those whose insert has failed: with every
\* interleaving of pushes, pages, openings and restarts, for any page size.
THEOREM PollingPassesOnlyFailed == Spec => []PassedUnlessFailed
<1>1. TypeOK /\ IInv => PassedUnlessFailed
  BY DEF IInv
<1> QED BY <1>1, Invariant, PTL

\* The view of a conversation that has been opened is what the table holds.
THEOREM ViewFollowsTable == Spec => []ViewIsCurrent
<1>1. TypeOK /\ IInv => ViewIsCurrent
  BY DEF IInv
<1> QED BY <1>1, Invariant, PTL

\* What is shown as sent or received is held by the server, whatever answers
\* were lost and whatever was written over.
THEOREM ShownAsSentIsHeld == Spec => []UnqueuedIsHeld
<1>1. TypeOK /\ IInv => UnqueuedIsHeld
  BY DEF IInv, Held, UnqueuedIsHeld
<1> QED BY <1>1, Invariant, PTL

\* A row that envelopes are stored over keeps its conversation and its sender.
LEMMA StoredStays ==
  ASSUME TypeOK, IInv, NEW positions \in Positions, NEW self, NEW id \in Id, rows[id] # NoRow
  PROVE  LET row == Stored(positions, self)[id]
         IN row # NoRow /\ row.conv = rows[id].conv /\ row.from = rows[id].from
<1> DEFINE row == Stored(positions, self)[id]
<1>1. \/ \E i \in positions : log[i].id = id /\ row = Row(log[i], self[log[i].conv])
      \/ row = rows[id]
  BY StoredAt
<1> HIDE DEF row
<1>2. ASSUME NEW i \in positions, log[i].id = id, row = Row(log[i], self[log[i].conv])
      PROVE  row # NoRow /\ row.conv = rows[id].conv /\ row.from = rows[id].from
  <2>1. i \in 1..Len(log) /\ log[i] \in Envelopes
    BY EntryType DEF Positions
  <2>2. rows[id].conv = log[i].conv /\ rows[id].from = log[i].from
    BY <1>2, <2>1 DEF IInv, TableOK
  <2> QED BY <1>2, <2>1, <2>2, RowType
<1>3. row # NoRow /\ row.conv = rows[id].conv /\ row.from = rows[id].from
  BY <1>1, <1>2
<1> QED BY <1>3 DEF row

\* Every way in which a step writes the table: envelopes, or a row of its own.
LEMMA TableStep ==
  ASSUME TypeOK, [Next]_vars
  PROVE  \/ rows' = rows
         \/ \E positions \in Positions : \E self : rows' = Stored(positions, self)
         \/ \E row : rows' = [rows EXCEPT ![next] = row]
<1>1. ASSUME NEW i, NEW ok, NEW answered, Push(i, ok, answered)
      PROVE  \E positions \in Positions : \E self : rows' = Stored(positions, self)
  <2>1. PICK inserted \in Positions : Apply({i}, inserted, answered)
    BY <1>1, OnePushed
  <2>2. \E self : rows' = Stored(inserted, self)
    BY <2>1, Zenon DEF Apply
  <2> QED BY <2>2
<1>2. ASSUME NEW n \in 0..PollSize, NEW inserted, NEW answered, Poll(n, inserted, answered)
      PROVE  \E positions \in Positions : \E self : rows' = Stored(positions, self)
  <2>1. inserted \in Positions
    BY <1>2, PagePolled
  <2>2. \E self : rows' = Stored(inserted, self)
    BY <1>2, Zenon DEF Poll, Apply
  <2> QED BY <2>1, <2>2
<1>3. ASSUME NEW conv \in Conv, NEW summary, NEW page \in PagesOf(conv), Select(conv, summary, page)
      PROVE  \E positions \in Positions : \E self : rows' = Stored(positions, self)
  <2>1. page \in Positions
    BY PageFetched
  <2>2. \E self : rows' = Stored(page, self)
    BY <1>3, Zenon DEF Select
  <2> QED BY <2>1, <2>2
<1>4. ASSUME NEW accepted, NEW ok, NEW stored, NEW queued, NEW added,
             Send(accepted, ok, stored, queued, added)
      PROVE  rows' = rows \/ \E row : rows' = [rows EXCEPT ![next] = row]
  BY <1>4, Zenon DEF Send, SendMessage
<1>5. ASSUME NEW added, NEW ok, \/ MembershipChanged(added, ok)
                                \/ DelayedRefresh(added, ok)
                                \/ Enter(added, ok)
      PROVE  rows' = rows
  BY <1>5 DEF MembershipChanged, DelayedRefresh, Enter
<1>6. ASSUME NEW conv, NEW added, NEW ok, CreateDm(conv, added, ok) \/ Join(conv, added, ok)
      PROVE  rows' = rows
  BY <1>6 DEF CreateDm, Join
<1>7. Logout \/ Restart \/ UNCHANGED vars => rows' = rows
  BY DEF Logout, Restart, vars
<1>8. \A conv, from : Deliver(conv, from) => rows' = rows
  BY DEF Deliver
<1> QED BY <1>1, <1>2, <1>3, <1>4, <1>5, <1>6, <1>7, <1>8, Zenon
    DEF Next, Arrive, ArriveUnreadable, Create, Subscribe

\* A message of the table stays, in its conversation and from its sender.
THEOREM TableKeepsMessages == Spec => MessagesStay
<1> DEFINE Stays == \A id \in Id : rows[id] # NoRow =>
                      /\ rows'[id] # NoRow
                      /\ rows'[id].conv = rows[id].conv /\ rows'[id].from = rows[id].from
<1>1. TypeOK /\ IInv /\ [Next]_vars => [Stays]_vars
  <2> SUFFICES ASSUME TypeOK, IInv, [Next]_vars PROVE Stays
    OBVIOUS
  <2>1. CASE rows' = rows
    BY <2>1
  <2>2. ASSUME NEW positions \in Positions, NEW self, rows' = Stored(positions, self)
        PROVE  Stays
    BY <2>2, StoredStays, Zenon
  <2>3. ASSUME NEW row, rows' = [rows EXCEPT ![next] = row]
        PROVE  Stays
    <3>1. \A id \in Id : rows[id] # NoRow => id # next
      BY SizeAssumption DEF IInv, TableOK, TypeOK, Id
    <3> QED BY <2>3, <3>1 DEF TypeOK
  <2> QED BY <2>1, <2>2, <2>3, TableStep
<1> QED BY <1>1, Invariant, PTL DEF Spec, MessagesStay

\* No conversation goes from the pane in a run, however refreshes fail.
THEOREM PaneKeepsConversations == Spec => ListNeverBlanks
<1>1. TypeOK /\ IInv /\ IInv' /\ [Next]_vars
        => [Restart \/ (listed \subseteq listed' /\ listed' \subseteq known')]_vars
  <2> SUFFICES ASSUME TypeOK, IInv, IInv', Next, ~Restart
               PROVE  listed \subseteq listed' /\ listed' \subseteq known'
    OBVIOUS
  <2>1. known \subseteq known'
    BY Zenon DEF Next, Arrive, ArriveUnreadable, Deliver, Push, Poll, Apply, MembershipChanged,
       DelayedRefresh, Enter, CreateDm, Create, Subscribe, Join, RefreshAndSelect,
       Refresh, Upsert, Send, Logout, Select, pane
  <2>2. listed' = listed \/ listed' = known \/ listed' = known'
    BY DEF Next, Arrive, ArriveUnreadable, Deliver, Push, Poll, Apply, MembershipChanged,
       DelayedRefresh, Enter, CreateDm, Create, Subscribe, Join, RefreshAndSelect,
       Refresh, ShowList, Send, Upsert, Logout, Select, pane
  <2> QED BY <2>1, <2>2 DEF IInv
<1> QED BY <1>1, Invariant, PTL DEF Spec, ListNeverBlanks
=============================================================================
