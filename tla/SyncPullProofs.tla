--------------------------- MODULE SyncPullProofs ---------------------------
(***************************************************************************)
(* What a pull promises for any collection, page size and number of        *)
(* changes: when it answers true nothing is behind where it started, and   *)
(* the table is at all times a replica that only moves forward.            *)
(***************************************************************************)
EXTENDS SyncPull, TLAPS

\* Every state of every behaviour is well typed.
THEOREM TypeCorrect == Spec => []TypeOK
<1>1. Init => TypeOK
  <2> SUFFICES ASSUME Init PROVE TypeOK
    OBVIOUS
  <2>1. more \in BOOLEAN
    BY Zenon DEF Init
  <2> QED BY <2>1, SyncAssumption DEF Init, TypeOK, Absent, Entry
<1>2. TypeOK /\ [Next]_vars => TypeOK'
  <2> SUFFICES ASSUME TypeOK, [Next]_vars PROVE TypeOK'
    OBVIOUS
  <2>1. ASSUME NEW r \in Record, NEW deleted \in BOOLEAN, Change(r, deleted)
        PROVE  TypeOK'
    <3>1. server' \in [Record -> Entry]
      BY <2>1 DEF Change, TypeOK, Entry
    <3>2. at' \in [Record -> Nat] /\ changes' \in 0..MaxChanges /\ cursor' \in 0..changes'
      BY <2>1, SyncAssumption DEF Change, pull, TypeOK
    <3>3. had' \in [Record -> SUBSET Entry]
      BY <2>1, <3>1 DEF Change, TypeOK
    <3> QED BY <2>1, <3>1, <3>2, <3>3 DEF Change, pull, TypeOK
  <2>2. CASE Begin
    <3>1. more' \in BOOLEAN
      BY <2>2, Zenon DEF Begin
    <3> QED BY <2>2, <3>1 DEF Begin, feed, TypeOK
  <2>3. ASSUME NEW to \in 0..MaxChanges, Answered(to)
        PROVE  TypeOK'
    <3>1. page' \subseteq [record : Record, entry : Entry]
      BY <2>3 DEF Answered, Between, TypeOK
    <3>2. more' \in BOOLEAN
      BY <2>3, Zenon DEF Answered
    <3>3. cursor' \in 0..changes'
      BY <2>3 DEF Answered, NextCursor, feed, TypeOK
    <3> QED BY <2>3, <3>1, <3>2, <3>3 DEF Answered, feed, TypeOK
  <2>4. CASE Fail
    BY <2>4 DEF Fail, feed, TypeOK
  <2>5. ASSUME NEW e \in page, Store(e)
        PROVE  TypeOK'
    <3>1. local' \in [Record -> Entry]
      BY <2>5 DEF Store, Row, TypeOK
    <3> QED BY <2>5, <3>1 DEF Store, feed, TypeOK
  <2>6. CASE PageDone
    BY <2>6 DEF PageDone, Continue, feed, TypeOK
  <2>7. CASE Crash
    BY <2>7 DEF Crash, feed, TypeOK
  <2>8. CASE UNCHANGED vars
    BY <2>8 DEF vars, feed, pull, TypeOK
  <2> QED BY <2>1, <2>2, <2>3, <2>4, <2>5, <2>6, <2>7, <2>8 DEF Next
<1> QED BY <1>1, <1>2, PTL DEF Spec

\* A change at the server, wherever the pull is: the record moves to the end
\* of the feed with a higher version, and nothing else moves.
LEMMA ChangeKeeps ==
  ASSUME TypeOK, IInv, NEW r \in Record, NEW deleted \in BOOLEAN, Change(r, deleted)
  PROVE  IInv'
<1>1. /\ server' = [server EXCEPT ![r] = [version |-> server[r].version + 1, deleted |-> deleted]]
      /\ at' = [at EXCEPT ![r] = changes + 1] /\ changes' = changes + 1
      /\ UNCHANGED <<local, pc, cursor, page, more, answer, started>>
  BY DEF Change, pull
<1>2. /\ server \in [Record -> Entry] /\ started \in [Record -> Entry]
      /\ local \in [Record -> Entry] /\ at \in [Record -> Nat]
      /\ changes \in Nat /\ cursor \in 0..changes
      /\ page \subseteq [record : Record, entry : Entry]
  BY SyncAssumption DEF TypeOK
<1>3. \A q \in Record : /\ server[q].version \in Nat /\ server[q].version <= server'[q].version
                        /\ at[q] <= at'[q] /\ at'[q] <= changes'
                        /\ server'[q] = server[q] \/ server'[q].version = server[q].version + 1
  BY <1>1, <1>2 DEF Entry, IInv, NothingOlder
<1>4. StillToCome'
  BY <1>1, <1>2, <1>3 DEF IInv, StillToCome, Behind
<1>5. NothingOlder'
  BY <1>1, <1>2, <1>3 DEF IInv, NothingOlder, Entry
<1>6. had' = [had EXCEPT ![r] = had[r] \cup {server'[r]}] /\ had \in [Record -> SUBSET Entry]
  BY DEF Change, TypeOK
<1>7. PageWasServed' /\ OnceInPage'
  BY <1>1, <1>2, <1>6 DEF IInv, PageWasServed, OnceInPage
<1>8. HadInOrder'
  <2>1. server'[r].version = server[r].version + 1 /\ \A q \in Record \ {r} : server'[q] = server[q]
    BY <1>1, <1>2
  <2>2. \A q \in Record : \A e \in had[q] : /\ e.version \in Nat
                                           /\ e.version <= server[q].version
    BY <1>6 DEF IInv, HadInOrder, Entry
  <2>3. /\ \A q \in Record : server'[q] \in had'[q] /\ local'[q] \in had'[q]
    BY <1>1, <1>2, <1>6, <2>1 DEF IInv, HadInOrder
  <2>4. \A q \in Record : \A e \in had'[q] : \/ e \in had[q]
                                             \/ q = r /\ e = server'[r]
    BY <1>6
  <2>5. \A q \in Record : \A e \in had'[q] : e.version <= server'[q].version
    BY <1>3, <2>1, <2>2, <2>4
  <2>6. \A q \in Record : \A d, e \in had'[q] : d.version = e.version => d = e
    BY <1>3, <2>1, <2>2, <2>4 DEF IInv, HadInOrder
  <2> QED BY <2>3, <2>5, <2>6 DEF HadInOrder
<1> QED BY <1>1, <1>4, <1>5, <1>7, <1>8 DEF IInv, CatchesUp

\* The page answered holds every record that is behind and lies before the
\* new cursor; the others are beyond it, and more says so.
LEMMA AnswerKeeps ==
  ASSUME TypeOK, IInv, NEW to \in 0..MaxChanges, Answered(to)
  PROVE  IInv'
<1>1. /\ page' = {[record |-> r, entry |-> server[r]] : r \in Between(cursor, to)}
      /\ more' = (Between(to, changes) # {})
      /\ cursor' = to /\ pc = "asking" /\ pc' = "storing"
      /\ UNCHANGED <<server, at, changes, had, local, answer, started>>
  BY DEF Answered, NextCursor, feed
<1>2. \A r \in Record : Behind(r) => cursor < at[r] /\ at[r] <= changes
  BY <1>1 DEF IInv, StillToCome, NothingOlder
<1>3. \A r \in Record : cursor < at[r] /\ at[r] <= to => \E e \in page' : e.record = r
  <2> SUFFICES ASSUME NEW r \in Record, cursor < at[r], at[r] <= to
               PROVE  \E e \in page' : e.record = r
    OBVIOUS
  <2>1. [record |-> r, entry |-> server[r]] \in page'
    BY <1>1 DEF Between
  <2> QED BY <2>1
<1>4. \A r \in Record : to < at[r] /\ at[r] <= changes => more'
  BY <1>1 DEF Between
<1>5. StillToCome'
  <2> SUFFICES ASSUME NEW r \in Record, Behind(r)
               PROVE  (\E e \in page' : e.record = r) \/ (more' /\ cursor' < at'[r])
    BY <1>1 DEF StillToCome, Behind
  <2>1. at[r] <= to \/ to < at[r]
    BY DEF TypeOK
  <2> QED BY <1>1, <1>2, <1>3, <1>4, <2>1
<1>6. \A e \in page' : e.record \in Record /\ e.entry = server[e.record]
  BY <1>1 DEF Between
<1>7. NothingOlder'
  BY <1>1, <1>6 DEF IInv, NothingOlder
<1>8. PageWasServed' /\ OnceInPage'
  <2>1. \A r \in Record : server[r] \in had[r] /\ local[r].version <= server[r].version
    BY DEF IInv, HadInOrder
  <2> QED BY <1>1, <1>6, <2>1 DEF PageWasServed, OnceInPage
<1>9. HadInOrder'
  BY <1>1 DEF IInv, HadInOrder
<1> QED BY <1>1, <1>5, <1>7, <1>8, <1>9 DEF IInv, CatchesUp

\* A record of the page is stored, over a row of any version.
LEMMA StoreKeeps ==
  ASSUME TypeOK, IInv, NEW e \in page, Store(e)
  PROVE  IInv'
<1>1. /\ local' = [local EXCEPT ![e.record] = e.entry]
      /\ page' = page \ {e}
      /\ UNCHANGED <<server, at, changes, had, pc, cursor, more, answer, started>>
  BY DEF Store, Row, feed
<1>2. e.record \in Record /\ e.entry \in Entry /\ local \in [Record -> Entry]
  BY DEF TypeOK
<1>3. started[e.record].version <= e.entry.version
  BY DEF IInv, NothingOlder
<1>4. \A r \in Record : /\ r # e.record => local'[r] = local[r]
                        /\ r = e.record => local'[r] = e.entry
  BY <1>1, <1>2
<1>5. \A r \in Record : Behind(r)' => Behind(r) /\ r # e.record
  BY <1>1, <1>2, <1>3, <1>4 DEF Behind, Entry, TypeOK
<1>6. StillToCome'
  BY <1>1, <1>5 DEF IInv, StillToCome
<1>7. NothingOlder' /\ OnceInPage'
  BY <1>1 DEF IInv, NothingOlder, OnceInPage
<1>8. PageWasServed' /\ HadInOrder'
  <2>1. \A d \in page' : d \in page /\ d.record # e.record
    BY <1>1 DEF IInv, OnceInPage
  <2>2. \A d \in page' : local'[d.record] = local[d.record]
    BY <1>4, <2>1 DEF TypeOK
  <2>3. e.entry \in had[e.record]
    BY DEF IInv, PageWasServed
  <2> QED BY <1>1, <1>4, <2>1, <2>2, <2>3 DEF IInv, PageWasServed, HadInOrder
<1>9. pc = "storing" /\ answer' = "none"
  BY <1>1 DEF IInv, TypeOK
<1> QED BY <1>1, <1>6, <1>7, <1>8, <1>9 DEF IInv, CatchesUp

\* The invariant behind the two properties holds at every step of a pull.
THEOREM PullInvariant == Spec => []IInv
<1>1. Init => IInv
  <2> SUFFICES ASSUME Init PROVE IInv
    OBVIOUS
  <2>1. \A r \in Record : server[r] = Absent /\ local[r] = Absent /\ had[r] = {Absent}
    BY DEF Init
  <2>2. HadInOrder
    <3>1. Absent.version <= Absent.version
      BY DEF Absent
    <3> QED BY <2>1, <3>1 DEF HadInOrder
  <2> QED BY <2>2 DEF Init, IInv, StillToCome, NothingOlder, PageWasServed, OnceInPage,
                      CatchesUp, Absent
<1>2. TypeOK /\ IInv /\ [Next]_vars => IInv'
  <2> SUFFICES ASSUME TypeOK, IInv, [Next]_vars PROVE IInv'
    OBVIOUS
  <2>1. CASE Begin
    <3>1. /\ cursor' = 0 /\ page' = {} /\ started' = server /\ pc' = "asking" /\ answer' = "none"
          /\ UNCHANGED <<server, at, changes, had, local>>
      BY <2>1 DEF Begin, feed
    <3>2. \A r \in Record : Behind(r)' => 0 < at[r]
      BY <3>1 DEF Behind, IInv, NothingOlder, TypeOK, Entry
    <3>3. NothingOlder'
      BY <3>1 DEF IInv, NothingOlder, TypeOK, Entry
    <3> QED BY <3>1, <3>2, <3>3 
           DEF IInv, StillToCome, PageWasServed, OnceInPage, HadInOrder, CatchesUp
  <2>2. CASE Fail \/ Crash
    BY <2>2 DEF Fail, Crash, feed, IInv, StillToCome, NothingOlder, PageWasServed,
                OnceInPage, HadInOrder, CatchesUp
  <2>3. CASE PageDone
    <3>1. /\ page = {} /\ page' = {} /\ pc = "storing"
          /\ UNCHANGED <<server, at, changes, had, local, cursor, more, started>>
          /\ \/ more /\ pc' = "asking" /\ answer' = answer
             \/ ~more /\ pc' = "idle" /\ answer' = "true"
      BY <2>3 DEF PageDone, Continue, feed
    <3>2. ~more => \A r \in Record : ~Behind(r)
      BY <3>1 DEF IInv, StillToCome
    <3>3. ~more => \A r \in Record : local[r].version >= started[r].version
      BY <3>2 DEF Behind, TypeOK, Entry
    <3>4. StillToCome'
      BY <3>1 DEF IInv, StillToCome, Behind
    <3> QED BY <3>1, <3>3, <3>4 DEF IInv, NothingOlder, PageWasServed, OnceInPage,
                                    HadInOrder, CatchesUp
  <2>4. CASE UNCHANGED vars
    BY <2>4 DEF vars, feed, pull, IInv, StillToCome, Behind, NothingOlder, PageWasServed,
                OnceInPage, HadInOrder, CatchesUp
  <2> QED BY <2>1, <2>2, <2>3, <2>4, ChangeKeeps, AnswerKeeps, StoreKeeps DEF Next
<1> QED BY <1>1, <1>2, TypeCorrect, PTL DEF Spec

\* A pull that answers true has caught up with the collection it started from.
THEOREM PullCatchesUp == Spec => []CatchesUp
<1>1. IInv => CatchesUp
  BY DEF IInv
<1> QED BY <1>1, PullInvariant, PTL

\* A row as new as the server's record is the server's record.
THEOREM RowsAgree == Spec => []CurrentRowsAgree
<1>1. IInv => CurrentRowsAgree
  BY DEF IInv, HadInOrder, CurrentRowsAgree
<1> QED BY <1>1, PullInvariant, PTL

\* A step of a pull, or of another device, is a step of the replica or none.
LEMMA StepOfReplica ==
  ASSUME TypeOK, IInv, [Next]_vars
  PROVE  [Table!Next]_(Table!vars)
<1> USE DEF Table!Next, Table!vars
<1>1. ASSUME NEW r \in Record, NEW deleted \in BOOLEAN, Change(r, deleted)
      PROVE  Table!Change(r, deleted)
  <2>1. /\ server' = [server EXCEPT ![r] = [version |-> server[r].version + 1, deleted |-> deleted]]
        /\ had' = [had EXCEPT ![r] = had[r] \cup {server'[r]}]
        /\ local' = local
    BY <1>1 DEF Change
  <2>2. server'[r] = [version |-> server[r].version + 1, deleted |-> deleted]
    BY <2>1 DEF TypeOK
  <2> QED BY <2>1, <2>2 DEF Table!Change
<1>2. ASSUME NEW e \in page, Store(e)
      PROVE  Table!Follow(e.record)
  <2>1. /\ local' = [local EXCEPT ![e.record] = e.entry]
        /\ UNCHANGED <<server, had>>
    BY <1>2 DEF Store, Row, feed
  <2>2. e.entry \in had[e.record] /\ local[e.record].version <= e.entry.version
    BY DEF IInv, PageWasServed
  <2>3. e.entry.version >= local[e.record].version
    BY <2>2 DEF TypeOK, Entry
  <2> QED BY <2>1, <2>2, <2>3 DEF Table!Follow
<1>3. ASSUME NEW e \in page
      PROVE  e.record \in Record
  BY DEF TypeOK
<1>4. CASE UNCHANGED <<server, had, local>>
  BY <1>4
<1>5. Begin \/ Fail \/ PageDone \/ Crash \/ UNCHANGED vars => UNCHANGED <<server, had, local>>
  BY DEF Begin, Fail, PageDone, Crash, vars, feed
<1>6. \A to \in 0..MaxChanges : Answered(to) => UNCHANGED <<server, had, local>>
  BY DEF Answered, feed
<1> QED BY <1>1, <1>2, <1>3, <1>4, <1>5, <1>6 DEF Next

\* The table of records is a replica of the collection that only moves forward.
THEOREM ImplementsReplica == Spec => FollowsServer
<1>1. Init => Table!Init
  BY DEF Init, Absent, Table!Init, Table!Absent
<1>2. TypeOK /\ IInv /\ [Next]_vars => [Table!Next]_(Table!vars)
  BY StepOfReplica
<1> QED BY <1>1, <1>2, TypeCorrect, PullInvariant, PTL DEF Spec, FollowsServer, Table!Spec

\* In particular no row goes back to an older version, whatever has failed.
COROLLARY RowsOnlyForward == Spec => [][\A r \in Record : local'[r].version >= local[r].version]_vars
<1>1. TypeOK /\ IInv /\ [Next]_vars
        => [\A r \in Record : local'[r].version >= local[r].version]_vars
  <2> SUFFICES ASSUME TypeOK, IInv, [Next]_vars, NEW r \in Record
               PROVE  local'[r].version >= local[r].version
    OBVIOUS
  <2>1. local \in [Record -> Entry] /\ local[r].version \in Nat
    BY DEF TypeOK, Entry
  <2>2. CASE UNCHANGED local
    BY <2>1, <2>2
  <2>3. ASSUME NEW q \in Record, Table!Follow(q)
        PROVE  local'[r].version >= local[r].version
    BY <2>1, <2>3 DEF Table!Follow
  <2> QED BY <2>2, <2>3, StepOfReplica DEF Table!Next, Table!vars, Table!Change
<1> QED BY <1>1, TypeCorrect, PullInvariant, PTL DEF Spec
=============================================================================
