---------------------------- MODULE SearchIndex ----------------------------
(***************************************************************************)
(* SearchService.cpp over the search_tokens table.  A row holds a digest   *)
(* of a word under the key of the index; a digest is the pair of the key   *)
(* and the word, and fits no other pair.                                   *)
(***************************************************************************)
EXTENDS VaultFile

CONSTANTS Message, \* messages that are indexed
          Word,    \* words, trimmed and in lower case
          Text     \* the words of every message, in order

ASSUME TextAssumption == Text \in [Message -> Seq(Word)]

VARIABLES index,   \* the rows of search_tokens: a message and a digest
          indexed  \* history: the messages indexMessage has answered true for

search == <<index, indexed>>

SearchInit == index = {} /\ indexed = {}

Digest(word) == <<secrets.search, word>>

\* insertToken, for the first words of a message.
TokenRows(m, count) == {<<m, Digest(Text[m][i])>> : i \in 1..count}

\* indexMessage: one insert for every word, up to the first that fails or to
\* the end of the process; the rows inserted stay.
IndexMessage(m, inserted) ==
  /\ inserted \in 0..Len(Text[m])
  /\ index' = index \cup TokenRows(m, inserted)
  /\ indexed' = IF inserted = Len(Text[m]) THEN indexed \cup {m} ELSE indexed
  /\ UNCHANGED vault

FindMessagesByToken(digest) == {m \in Message : <<m, digest>> \in index}

\* findMessageIds: only the first word of the query counts.
FindMessageIds(query) == IF query = <<>> THEN {} ELSE FindMessagesByToken(Digest(Head(query)))

\* Mutant: a new key on every start.
FreshSearchKey(key, saved) == StoreSecret([secrets EXCEPT !.search = key], saved)

\* ServiceLocator::initialize: the key is loaded, or made and stored; that it
\* could not be saved is ignored.
LoadSearchKey(key, saved) ==
  IF secrets.search # NoKey THEN UNCHANGED vault
                            ELSE StoreSecret([secrets EXCEPT !.search = key], saved)
=============================================================================
