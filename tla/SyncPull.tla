------------------------------ MODULE SyncPull ------------------------------
(***************************************************************************)
(* SyncService: pulling one collection of records, page by page, while     *)
(* other devices, and pushRecord of this one, change it at the server.     *)
(*                                                                         *)
(* The server is external.  It keeps each record once, with the place of   *)
(* its last change in the feed; a page is the records changed after the    *)
(* cursor, as they are when it is answered.  A version stands for the      *)
(* ciphertext that came with it.                                           *)
(***************************************************************************)
EXTENDS Naturals, FiniteSets

CONSTANTS Record,     \* the records of the collection
          PageSize,   \* records in a page (100)
          MaxChanges  \* bound: changes ever made at the server

ASSUME SyncAssumption == PageSize \in Nat \ {0} /\ MaxChanges \in Nat

VARIABLES server,   \* the records at the server, version 0 before the first change
          at,       \* the place of a record's last change in the feed
          changes,  \* changes made so far
          had,      \* history: the records as they have been at the server
          local,    \* the sync_records table
          pc,       \* the pull in progress: "idle", "asking" or "storing"
          cursor,   \* the cursor of the next request
          page,     \* the records answered and not stored yet
          more,     \* hasMore of the answer
          answer,   \* what the last pull has answered: "none", "true" or "false"
          started   \* history: the records at the server when the pull started

feed == <<server, at, changes, had>>
pull == <<pc, cursor, page, more, answer, started>>
vars == <<feed, local, pull>>

Absent == [version |-> 0, deleted |-> FALSE]

Init == /\ server = [r \in Record |-> Absent] /\ started = server
        /\ at = [r \in Record |-> 0] /\ changes = 0
        /\ had = [r \in Record |-> {Absent}]
        /\ local = [r \in Record |-> Absent]
        /\ pc = "idle" /\ cursor = 0 /\ page = {} /\ more = FALSE
        /\ answer = "none"

\* A record is put or deleted, by another device or by pushRecord, which
\* leaves the table of this device alone.
Change(r, deleted) ==
  /\ changes < MaxChanges
  /\ changes' = changes + 1
  /\ server' = [server EXCEPT ![r] = [version |-> @.version + 1, deleted |-> deleted]]
  /\ at' = [at EXCEPT ![r] = changes + 1]
  /\ had' = [had EXCEPT ![r] = @ \cup {server'[r]}]
  /\ UNCHANGED <<local, pull>>

\* Every pull starts from the empty cursor.
Begin == /\ pc = "idle"
         /\ pc' = "asking" /\ cursor' = 0 /\ page' = {} /\ more' = FALSE
         /\ answer' = "none" /\ started' = server
         /\ UNCHANGED <<feed, local>>

\* The records of the feed after one place and up to another.
Between(from, to) == {r \in Record : from < at[r] /\ at[r] <= to}

\* Mutant: the loop asks for the first page again.
SameCursor(to) == cursor' = cursor

\* Mutant: the cursor is one too far.
CursorPast(to) == cursor' = to + 1

\* cursor = nextCursor
NextCursor(to) == cursor' = to

\* A page, as long as it may be and empty only when nothing is left.
Answered(to) ==
  /\ pc = "asking"
  /\ to \in cursor..changes
  /\ Cardinality(Between(cursor, to)) <= PageSize
  /\ Between(cursor, to) = {} => Between(cursor, changes) = {}
  /\ page' = {[record |-> r, entry |-> server[r]] : r \in Between(cursor, to)}
  /\ more' = (Between(to, changes) # {})
  /\ NextCursor(to)
  /\ pc' = "storing"
  /\ UNCHANGED <<feed, local, answer, started>>

\* The request fails, or an upsert does: the records stored so far stay.
Fail == /\ pc = "asking" \/ page # {}
        /\ pc' = "idle" /\ page' = {} /\ answer' = "false"
        /\ UNCHANGED <<feed, local, cursor, more, started>>

\* Mutant: a deletion is stored as a record.
WithoutTombstone(entry) == [entry EXCEPT !.deleted = FALSE]

\* What upsertRecord writes over the row, whatever its version is.
Row(entry) == entry

Store(e) == /\ e \in page
            /\ local' = [local EXCEPT ![e.record] = Row(e.entry)]
            /\ page' = page \ {e}
            /\ UNCHANGED <<feed, pc, cursor, more, answer, started>>

\* Mutant: one page is taken for the collection.
OnePage == pc' = "idle" /\ answer' = "true"

\* The loop goes on while the server has said that there is more.
Continue == \/ more /\ pc' = "asking" /\ UNCHANGED answer
            \/ ~more /\ pc' = "idle" /\ answer' = "true"

PageDone == /\ pc = "storing" /\ page = {}
            /\ Continue
            /\ UNCHANGED <<feed, local, cursor, page, more, started>>

\* The process dies in a pull: nothing of it is kept but the rows stored.
Crash == /\ pc # "idle"
         /\ pc' = "idle" /\ page' = {} /\ answer' = "none"
         /\ UNCHANGED <<feed, local, cursor, more, started>>

Next == \/ \E r \in Record, deleted \in BOOLEAN : Change(r, deleted)
        \/ Begin
        \/ \E to \in 0..MaxChanges : Answered(to)
        \/ Fail
        \/ \E r \in Record : \E e \in page : e.record = r /\ Store(e)
        \/ PageDone
        \/ Crash

\* A request ends, with an answer or at its timeout, and the loop goes on.
PullStep == \/ \E to \in 0..MaxChanges : Answered(to)
            \/ Fail
            \/ \E e \in page : Store(e)
            \/ PageDone

Spec == Init /\ [][Next]_vars /\ WF_vars(PullStep)

(***************************************************************************)
(* Properties                                                              *)
(***************************************************************************)

Entry == [version : Nat, deleted : BOOLEAN]

\* The type invariant.
TypeOK == /\ server \in [Record -> Entry] /\ started \in [Record -> Entry]
          /\ local \in [Record -> Entry]
          /\ had \in [Record -> SUBSET Entry]
          /\ at \in [Record -> Nat] /\ changes \in 0..MaxChanges
          /\ pc \in {"idle", "asking", "storing"}
          /\ cursor \in 0..changes
          /\ page \subseteq [record : Record, entry : Entry]
          /\ more \in BOOLEAN
          /\ answer \in {"none", "true", "false"}

\* A pull that answers true has every record at least as it was when the pull
\* started, deletions included, however the records move in the feed between
\* two pages and whatever earlier pulls have left half done.
CatchesUp ==
  answer = "true" => \A r \in Record : local[r].version >= started[r].version

\* A row that is not behind the server is the server's record: what a pull
\* read before a change never passes for what came after it (a consequence of
\* FollowsServer).
CurrentRowsAgree ==
  \A r \in Record : /\ local[r].version <= server[r].version
                    /\ local[r].version = server[r].version => local[r] = server[r]

\* Over any number of pulls, failed and cut short ones included, the table is a
\* copy of the collection that lags behind and never turns back: each row is a
\* record the server has had, tombstone and all, and is only replaced by a
\* later one, though upsertRecord compares no versions.
Table == INSTANCE Replica WITH Key <- Record, source <- server, copy <- local

FollowsServer == Table!Spec

\* Once the collection stops changing (it does: changes are bounded), a pull
\* ends: the loop has no bound of its own and goes by what the server answers.
PullEnds == pc # "idle" ~> pc = "idle"

(***************************************************************************)
(* The inductive invariant                                                 *)
(***************************************************************************)

Behind(r) == local[r].version < started[r].version

\* A record that is behind is in the page in hand, or still to come: its last
\* change lies after the cursor, and the loop will ask for it.
StillToCome ==
  pc # "idle" =>
    \A r \in Record : Behind(r) => \/ \E e \in page : e.record = r
                                   \/ (pc = "asking" \/ more) /\ cursor < at[r]

\* What the server has shown since the pull started is not older than it was.
NothingOlder ==
  /\ \A r \in Record : /\ started[r].version <= server[r].version
                       /\ server[r].version > 0 => at[r] > 0
                       /\ at[r] <= changes
  /\ \A e \in page : started[e.record].version <= e.entry.version

\* The page in hand holds records the server has or has had.
PageWasServed ==
  \A e \in page : /\ e.entry \in had[e.record]
                  /\ local[e.record].version <= e.entry.version

\* One record is in the page once.
OnceInPage == \A d, e \in page : d.record = e.record => d = e

\* The versions the server has had are those up to the present one, once each.
HadInOrder ==
  \A r \in Record :
    /\ server[r] \in had[r] /\ local[r] \in had[r]
    /\ \A d, e \in had[r] : d.version = e.version => d = e
    /\ \A e \in had[r] : e.version <= server[r].version

IInv == /\ pc = "asking" => page = {}
        /\ pc = "idle" => page = {}
        /\ pc # "idle" => answer = "none"
        /\ StillToCome /\ NothingOlder /\ PageWasServed /\ OnceInPage /\ HadInOrder
        /\ CatchesUp
=============================================================================
