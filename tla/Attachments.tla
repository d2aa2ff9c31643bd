---------------------------- MODULE Attachments ----------------------------
(***************************************************************************)
(* AttachmentService with its FileStore: uploads in four steps (init,      *)
(* chunk, finalize, local copy), downloads through the local copy, and the *)
(* process dying between any two of them.  The server is external: it      *)
(* hands out ids, takes the bytes of an id until it has been finalised     *)
(* with their hash, and serves finalised attachments.                      *)
(*                                                                         *)
(* A ciphertext is a model value; its SHA-256 is taken to be injective.    *)
(***************************************************************************)
EXTENDS Naturals, FiniteSets

CONSTANTS Bytes,    \* the ciphertexts
          NoBytes,  \* none
          MaxId     \* bound: attachment ids the server hands out

ASSUME AttachmentAssumption == NoBytes \notin Bytes /\ MaxId \in Nat

VARIABLES server,  \* per id: the bytes received, and whether they are finalised
          nextId,  \* the next id the server will hand out
          local,   \* the encrypted directory of the FileStore
          pc,      \* the next step of the call: "idle", "init", "chunk", "finalize",
                   \* "fetch" or "write"
          call,    \* "upload" or "download"
          id,      \* the attachment the call is about, 0 before the server has named it
          data,    \* what is uploaded, or has been downloaded
          answer   \* the last answer with a value, NoAnswer after any other

job  == <<pc, call, id, data, answer>>
vars == <<server, nextId, local, job>>

Id       == 1..MaxId
Cut      == "cut"   \* a body that broke off: not the bytes of any upload
Body     == Bytes \cup {Cut}
NoAnswer == [call |-> "none"]

Init == /\ server = [i \in Id |-> [bytes |-> NoBytes, final |-> FALSE]]
        /\ nextId = 1
        /\ local = [i \in Id |-> NoBytes]
        /\ pc = "idle" /\ call = "upload" /\ id = 0 /\ data = NoBytes
        /\ answer = NoAnswer

\* Another device uploads an attachment.
OthersUpload(bytes) ==
  /\ nextId <= MaxId
  /\ server' = [server EXCEPT ![nextId] = [bytes |-> bytes, final |-> TRUE]]
  /\ nextId' = nextId + 1
  /\ UNCHANGED <<local, job>>

\* Every step that fails ends the call.
AfterFailure == "idle"

\* A request is refused, or does not reach the server.
RequestFails ==
  /\ pc \in {"init", "chunk", "finalize", "fetch"}
  /\ pc' = AfterFailure
  /\ UNCHANGED <<server, nextId, local, call, id, data, answer>>

\* The next step, unless the answer of the server is lost.
Then(step, delivered) == pc' = IF delivered THEN step ELSE AfterFailure

(***************************************************************************)
(* uploadEncrypted                                                         *)
(***************************************************************************)

Upload(bytes) ==
  /\ pc = "idle"
  /\ pc' = "init" /\ call' = "upload" /\ id' = 0 /\ data' = bytes
  /\ answer' = NoAnswer
  /\ UNCHANGED <<server, nextId, local>>

UploadInit(delivered) ==
  /\ pc = "init" /\ nextId <= MaxId
  /\ nextId' = nextId + 1
  /\ id' = nextId
  /\ Then("chunk", delivered)
  /\ UNCHANGED <<server, local, call, data, answer>>

\* All of the ciphertext, as one chunk at offset 0.
UploadChunk(delivered) ==
  /\ pc = "chunk"
  /\ server' = [server EXCEPT ![id] = [bytes |-> data, final |-> @.final]]
  /\ Then("finalize", delivered)
  /\ UNCHANGED <<nextId, local, call, id, data, answer>>

Finalize(delivered) ==
  /\ pc = "finalize"
  /\ server' = [server EXCEPT ![id] = [bytes |-> @.bytes, final |-> TRUE]]
  /\ Then("write", delivered)
  /\ UNCHANGED <<nextId, local, call, id, data, answer>>

(***************************************************************************)
(* downloadEncrypted                                                       *)
(***************************************************************************)

\* Mutants: the local copy is not looked for, or taken to be there.
NeverCached(i) == FALSE
AlwaysCached(i) == TRUE

\* readEncryptedAttachment has a value
Cached(i) == local[i] # NoBytes

\* Ids come with messages, from those who have uploaded.
Download(i) ==
  /\ pc = "idle" /\ i < nextId
  /\ call' = "download" /\ id' = i
  /\ IF Cached(i)
     THEN /\ answer' = [call |-> "download", id |-> i, bytes |-> local[i]]
          /\ UNCHANGED <<pc, data>>
     ELSE pc' = "fetch" /\ data' = NoBytes /\ answer' = NoAnswer
  /\ UNCHANGED <<server, nextId, local>>

\* An answer whose status has arrived counts as good (NetworkResponse::ok),
\* also when the connection breaks or the timeout comes before its last byte.
Received(bytes) == {bytes, Cut}

Fetched == /\ pc = "fetch" /\ server[id].final
           /\ data' \in Received(server[id].bytes)
           /\ pc' = "write"
           /\ UNCHANGED <<server, nextId, local, call, id, answer>>

(***************************************************************************)
(* The local copy, the last step of both                                   *)
(***************************************************************************)

\* Mutant: the result of the write is not looked at.
WriteUnchecked(written) ==
  /\ local' = IF written THEN [local EXCEPT ![id] = data] ELSE local
  /\ answer' = [call |-> call, id |-> id, bytes |-> data]

\* writeEncryptedAttachment writes all or nothing (QSaveFile).
WriteCopy(written) ==
  /\ local' = IF written THEN [local EXCEPT ![id] = data] ELSE local
  /\ answer' = IF written THEN [call |-> call, id |-> id, bytes |-> data] ELSE NoAnswer

Write(written) ==
  /\ pc = "write"
  /\ WriteCopy(written)
  /\ pc' = "idle"
  /\ UNCHANGED <<server, nextId, call, id, data>>

\* The process dies within a call.
Crash == /\ pc # "idle"
         /\ pc' = "idle" /\ answer' = NoAnswer
         /\ UNCHANGED <<server, nextId, local, call, id, data>>

Next == \/ \E bytes \in Bytes : OthersUpload(bytes) \/ Upload(bytes)
        \/ RequestFails
        \/ \E ok \in BOOLEAN : \/ UploadInit(ok)
                               \/ UploadChunk(ok)
                               \/ Finalize(ok)
                               \/ Write(ok)
        \/ \E i \in Id : Download(i)
        \/ Fetched
        \/ Crash

Spec == Init /\ [][Next]_vars

(***************************************************************************)
(* Properties                                                              *)
(***************************************************************************)

\* The type invariant.
TypeOK == /\ server \in [Id -> [bytes : Bytes \cup {NoBytes}, final : BOOLEAN]]
          /\ nextId \in 1..(MaxId + 1)
          /\ local \in [Id -> Body \cup {NoBytes}]
          /\ pc \in {"idle", "init", "chunk", "finalize", "fetch", "write"}
          /\ call \in {"upload", "download"}
          /\ id \in Id \cup {0}
          /\ data \in Body \cup {NoBytes}
          /\ answer \in {NoAnswer} \cup [call : {"upload", "download"}, id : Id, bytes : Body]

\* What uploadEncrypted answers is finalised at the server and in the local
\* store, with the same bytes: no step that failed, and no answer that was
\* lost, is passed over.
UploadKept ==
  answer.call = "upload" =>
    /\ server[answer.id] = [bytes |-> answer.bytes, final |-> TRUE]
    /\ local[answer.id] = answer.bytes

\* The local store holds nothing that others can not have: an upload that
\* fails or dies half way leaves no copy behind.
CopiesAreFinal == \A i \in Id : local[i] # NoBytes => server[i].final

\* A local copy is never replaced: all later downloads answer the same (a
\* consequence of KeepsWhatIsSealed).
CopiesNeverChange ==
  [][\A i \in Id : local[i] # NoBytes => local'[i] = local[i]]_vars

\* Over uploads, downloads and deaths in any order an attachment's bytes are
\* settled when it is finalised, no later call of this device touches them,
\* and its local copy, written once, is those bytes or a body that broke off:
\* never the bytes of another attachment or of an upload that failed.
Copies == INSTANCE SealedStore WITH
            Key <- Id, Value <- Bytes, None <- NoBytes, Torn <- Cut, kept <- local,
            sealed <- [i \in Id |-> IF server[i].final THEN server[i].bytes ELSE NoBytes]

KeepsWhatIsSealed == Copies!Spec

\* IntegrationFlowTests.cpp: EXPECT_EQ(*downloaded.data, payload): what is
\* downloaded is what was uploaded.
DownloadedIsUploaded ==
  answer.call = "download" => answer.bytes = server[answer.id].bytes

(***************************************************************************)
(* The inductive invariant                                                 *)
(***************************************************************************)

\* How far an upload has come at the server when its next step is taken.
UploadProgress ==
  call = "upload" =>
    /\ pc # "fetch"
    /\ pc # "idle" => data \in Bytes
    /\ pc \in {"chunk", "finalize", "write"} => id \in Id /\ id < nextId /\ local[id] = NoBytes
    /\ pc \in {"chunk", "finalize"} => ~server[id].final
    /\ pc \in {"finalize", "write"} => server[id].bytes = data
    /\ pc = "write" => server[id].final

DownloadProgress ==
  call = "download" =>
    /\ pc \in {"idle", "fetch", "write"}
    /\ pc \in {"fetch", "write"} => id \in Id /\ id < nextId /\ local[id] = NoBytes
    /\ pc = "write" => server[id].final /\ data \in Received(server[id].bytes)

\* An id the server has not handed out is unknown to everyone.
UnusedIds == \A i \in Id : i >= nextId => ~server[i].final /\ local[i] = NoBytes

\* Finalised bytes are bytes.
FinalBytes == \A i \in Id : server[i].final => server[i].bytes \in Bytes

IInv == /\ UploadProgress /\ DownloadProgress /\ UnusedIds /\ FinalBytes
        /\ pc # "idle" => answer = NoAnswer
        /\ UploadKept /\ CopiesAreFinal
=============================================================================
