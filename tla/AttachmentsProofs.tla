-------------------------- MODULE AttachmentsProofs --------------------------
(***************************************************************************)
(* What holds of Attachments for any ciphertexts and any number of ids.    *)
(* The types depend on how far a call has come (only a call that has an id *)
(* writes at it), so they are proved together with the invariant.          *)
(***************************************************************************)
EXTENDS Attachments, TLAPS

Inv == TypeOK /\ IInv

\* The states that lie still, for the steps that only move the call.
Stored == <<server, nextId, local>>

\* A step that follows an exchange is that step, or the end of the call.
LEMMA ThenIs ==
  ASSUME NEW step, NEW delivered \in BOOLEAN, Then(step, delivered)
  PROVE  pc' = step \/ pc' = "idle"
BY DEF Then, AfterFailure

\* What one upload does at the server leaves every other attachment alone.
LEMMA ServerChange ==
  ASSUME Inv, NEW i \in Id, NEW e \in [bytes : Bytes \cup {NoBytes}, final : BOOLEAN],
         server' = [server EXCEPT ![i] = e]
  PROVE  /\ server' \in [Id -> [bytes : Bytes \cup {NoBytes}, final : BOOLEAN]]
         /\ server'[i] = e
         /\ \A j \in Id : j # i => server'[j] = server[j]
BY DEF Inv, TypeOK

\* Steps that leave the stores alone keep what is said of the stores.
LEMMA StoresAlone ==
  ASSUME Inv, UNCHANGED Stored
  PROVE  UnusedIds' /\ FinalBytes' /\ CopiesAreFinal'
BY DEF Inv, IInv, Stored, UnusedIds, FinalBytes, CopiesAreFinal

\* A call that ends without an answer.
LEMMA CallEnds ==
  ASSUME Inv, UNCHANGED Stored, pc' = "idle", answer' = NoAnswer,
         UNCHANGED <<call, id, data>>
  PROVE  Inv'
<1>1. TypeOK'
  BY DEF Inv, TypeOK, Stored
<1>2. UploadProgress' /\ DownloadProgress'
  BY DEF UploadProgress, DownloadProgress
<1>3. UploadKept'
  BY DEF UploadKept, NoAnswer
<1> QED BY <1>1, <1>2, <1>3, StoresAlone DEF Inv, IInv

\* Another device uploads at an id nobody knows yet.
LEMMA OthersUploadKeeps ==
  ASSUME Inv, NEW bytes \in Bytes, OthersUpload(bytes)
  PROVE  Inv'
<1> DEFINE e == [bytes |-> bytes, final |-> TRUE]
<1>1. /\ nextId \in Id /\ nextId' = nextId + 1
      /\ server' = [server EXCEPT ![nextId] = e]
      /\ UNCHANGED <<local, pc, call, id, data, answer>>
  BY DEF OthersUpload, job, Inv, TypeOK, Id
<1>2. e \in [bytes : Bytes \cup {NoBytes}, final : BOOLEAN]
  OBVIOUS
<1>3. /\ server' \in [Id -> [bytes : Bytes \cup {NoBytes}, final : BOOLEAN]]
      /\ server'[nextId] = e
      /\ \A j \in Id : j # nextId => server'[j] = server[j]
  BY <1>1, <1>2, ServerChange
<1>4. TypeOK'
  BY <1>1, <1>3, AttachmentAssumption DEF Inv, TypeOK, Id
<1>5. ~server[nextId].final /\ local[nextId] = NoBytes
  BY <1>1 DEF Inv, IInv, UnusedIds, Id
<1>6. UnusedIds' /\ FinalBytes' /\ CopiesAreFinal'
  BY <1>1, <1>3, <1>5 DEF Inv, IInv, UnusedIds, FinalBytes, CopiesAreFinal, Id
<1>7. UploadProgress' /\ DownloadProgress'
  <2>1. pc # "idle" /\ id \in Id /\ id < nextId => server'[id] = server[id]
    BY <1>1, <1>3 DEF Id
  <2> QED BY <1>1, <2>1 DEF Inv, IInv, UploadProgress, DownloadProgress, Id
<1>8. UploadKept'
  <2> SUFFICES ASSUME answer.call = "upload"
               PROVE  /\ server'[answer.id] = [bytes |-> answer.bytes, final |-> TRUE]
                      /\ local[answer.id] = answer.bytes
    BY <1>1 DEF UploadKept
  <2>1. answer.id \in Id
    BY DEF Inv, TypeOK, NoAnswer
  <2>2. /\ server[answer.id] = [bytes |-> answer.bytes, final |-> TRUE]
        /\ local[answer.id] = answer.bytes
    BY DEF Inv, IInv, UploadKept
  <2> QED BY <1>3, <1>5, <2>1, <2>2
<1> QED BY <1>1, <1>4, <1>6, <1>7, <1>8 DEF Inv, IInv

\* The server names an attachment.
LEMMA UploadInitKeeps ==
  ASSUME Inv, NEW ok \in BOOLEAN, UploadInit(ok)
  PROVE  Inv'
<1>1. /\ nextId \in Id /\ nextId' = nextId + 1 /\ id' = nextId
      /\ pc = "init" /\ pc' \in {"chunk", "idle"}
      /\ UNCHANGED <<server, local, call, data, answer>>
  BY ThenIs DEF UploadInit, Inv, TypeOK, Id
<1>2. TypeOK'
  BY <1>1, AttachmentAssumption DEF Inv, TypeOK, Id
<1>3. UploadProgress' /\ DownloadProgress'
  BY <1>1 DEF Inv, IInv, UploadProgress, DownloadProgress, UnusedIds, Id
<1>4. UnusedIds' /\ FinalBytes' /\ CopiesAreFinal' /\ UploadKept'
  BY <1>1 DEF Inv, IInv, UnusedIds, FinalBytes, CopiesAreFinal, UploadKept, Id
<1> QED BY <1>1, <1>2, <1>3, <1>4 DEF Inv, IInv

\* The bytes, then their seal, at the id of this call, which has no copy yet.
LEMMA UploadStepKeeps ==
  ASSUME Inv, NEW ok \in BOOLEAN, UploadChunk(ok) \/ Finalize(ok)
  PROVE  Inv'
<1>1. /\ pc \in {"chunk", "finalize"} /\ call = "upload" /\ answer = NoAnswer
      /\ id \in Id /\ id < nextId /\ local[id] = NoBytes /\ data \in Bytes
      /\ pc = "finalize" => server[id].bytes = data
  BY DEF UploadChunk, Finalize, Inv, TypeOK, IInv, UploadProgress, DownloadProgress
<1>2. UNCHANGED <<nextId, local, call, id, data, answer>>
  BY DEF UploadChunk, Finalize
<1>3. CASE UploadChunk(ok)
  <2> DEFINE e == [bytes |-> data, final |-> FALSE]
  <2>1. server[id].final = FALSE
    <3>1. ~server[id].final
      BY <1>1 DEF Inv, IInv, UploadProgress
    <3>2. server[id].final \in BOOLEAN
      BY <1>1, Zenon DEF Inv, TypeOK
    <3> QED BY <3>1, <3>2
  <2>2. server' = [server EXCEPT ![id] = e]
    BY <1>3, <2>1 DEF UploadChunk
  <2>3. e \in [bytes : Bytes \cup {NoBytes}, final : BOOLEAN]
    BY <1>1
  <2>4. /\ server' \in [Id -> [bytes : Bytes \cup {NoBytes}, final : BOOLEAN]]
        /\ server'[id] = e
        /\ \A j \in Id : j # id => server'[j] = server[j]
    BY <1>1, <2>2, <2>3, ServerChange
  <2>5. pc' \in {"finalize", "idle"}
    BY <1>3, ThenIs DEF UploadChunk
  <2>6. TypeOK'
    BY <1>2, <2>4, <2>5 DEF Inv, TypeOK
  <2>7. UploadProgress' /\ DownloadProgress'
    BY <1>1, <1>2, <2>4, <2>5 DEF UploadProgress, DownloadProgress
  <2>8. UnusedIds' /\ FinalBytes' /\ CopiesAreFinal'
    BY <1>1, <1>2, <2>4 DEF Inv, IInv, UnusedIds, FinalBytes, CopiesAreFinal, Id
  <2>9. UploadKept'
    BY <1>1, <1>2 DEF UploadKept, NoAnswer
  <2> QED BY <1>1, <1>2, <2>6, <2>7, <2>8, <2>9 DEF Inv, IInv
<1>4. CASE Finalize(ok)
  <2> DEFINE e == [bytes |-> data, final |-> TRUE]
  <2>1. server[id].bytes = data
    BY <1>1, <1>4 DEF Finalize
  <2>2. server' = [server EXCEPT ![id] = e]
    BY <1>4, <2>1 DEF Finalize
  <2>3. e \in [bytes : Bytes \cup {NoBytes}, final : BOOLEAN]
    BY <1>1
  <2>4. /\ server' \in [Id -> [bytes : Bytes \cup {NoBytes}, final : BOOLEAN]]
        /\ server'[id] = e
        /\ \A j \in Id : j # id => server'[j] = server[j]
    BY <1>1, <2>2, <2>3, ServerChange
  <2>5. pc' \in {"write", "idle"}
    BY <1>4, ThenIs DEF Finalize
  <2>6. TypeOK'
    BY <1>2, <2>4, <2>5 DEF Inv, TypeOK
  <2>7. UploadProgress' /\ DownloadProgress'
    BY <1>1, <1>2, <2>4, <2>5 DEF UploadProgress, DownloadProgress
  <2>8. UnusedIds' /\ FinalBytes' /\ CopiesAreFinal'
    <3>1. server'[id].final /\ server'[id].bytes \in Bytes
      BY <1>1, <2>4
    <3>2. \A j \in Id : j = id \/ server'[j] = server[j]
      BY <2>4
    <3>3. FinalBytes'
      BY <3>1, <3>2 DEF Inv, IInv, FinalBytes
    <3>4. nextId \in Nat /\ id \in Nat
      BY <1>1, AttachmentAssumption DEF Inv, TypeOK, Id
    <3>5. UnusedIds'
      BY <1>1, <1>2, <3>2, <3>4 DEF Inv, IInv, UnusedIds, Id
    <3>6. CopiesAreFinal'
      BY <1>2, <3>1, <3>2 DEF Inv, IInv, CopiesAreFinal
    <3> QED BY <3>3, <3>5, <3>6
  <2>9. UploadKept'
    BY <1>1, <1>2 DEF UploadKept, NoAnswer
  <2> QED BY <1>1, <1>2, <2>6, <2>7, <2>8, <2>9 DEF Inv, IInv
<1> QED BY <1>3, <1>4

\* A call comes to the write with bytes that are sealed under its id, or with
\* a body that broke off, and only for an id without a copy.
LEMMA AtWrite ==
  ASSUME Inv, pc = "write"
  PROVE  /\ id \in Id /\ id < nextId /\ local[id] = NoBytes /\ server[id].final
         /\ data \in Body /\ call \in {"upload", "download"}
         /\ data \in {server[id].bytes, Cut}
         /\ call = "upload" => server[id].bytes = data
BY DEF Inv, TypeOK, IInv, UploadProgress, DownloadProgress, FinalBytes, Body, Received

\* The local copy is written where there was none.
LEMMA WriteKeeps ==
  ASSUME Inv, NEW ok \in BOOLEAN, Write(ok)
  PROVE  Inv' /\ \A i \in Id : local[i] # NoBytes => local'[i] = local[i]
<1>1. /\ pc = "write" /\ pc' = "idle"
      /\ UNCHANGED <<server, nextId, call, id, data>>
      /\ \/ ok = TRUE /\ local' = [local EXCEPT ![id] = data]
                      /\ answer' = [call |-> call, id |-> id, bytes |-> data]
         \/ ok = FALSE /\ local' = local /\ answer' = NoAnswer
  BY DEF Write, WriteCopy
<1>2. /\ id \in Id /\ id < nextId /\ local[id] = NoBytes /\ server[id].final
      /\ data \in Body /\ call \in {"upload", "download"}
      /\ call = "upload" => server[id].bytes = data
  BY <1>1, AtWrite
<1>3. \A j \in Id : j # id => local'[j] = local[j]
  BY <1>1, <1>2 DEF Inv, TypeOK
<1>4. local' \in [Id -> Body \cup {NoBytes}]
  BY <1>1, <1>2 DEF Inv, TypeOK
<1>5. TypeOK'
  BY <1>1, <1>2, <1>4 DEF Inv, TypeOK
<1>6. UploadProgress' /\ DownloadProgress'
  BY <1>1 DEF UploadProgress, DownloadProgress
<1>7. UnusedIds' /\ FinalBytes' /\ CopiesAreFinal'
  BY <1>1, <1>2, <1>3 DEF Inv, IInv, UnusedIds, FinalBytes, CopiesAreFinal, Id
<1>8. UploadKept'
  <2>1. server[id] = [bytes |-> server[id].bytes, final |-> server[id].final]
    BY <1>2 DEF Inv, TypeOK
  <2>2. server[id].final = TRUE
    BY <1>2 DEF Inv, TypeOK
  <2>3. ok = TRUE => local'[id] = data
    BY <1>1, <1>2 DEF Inv, TypeOK
  <2>4. call = "upload" => server[id] = [bytes |-> data, final |-> TRUE]
    BY <1>2, <2>1, <2>2
  <2>5. CASE ok = TRUE
    <3>1. /\ answer' = [call |-> call, id |-> id, bytes |-> data]
          /\ local'[id] = data /\ server' = server
      BY <1>1, <2>3, <2>5
    <3> QED BY <2>4, <3>1 DEF UploadKept
  <2>6. CASE ok = FALSE
    BY <1>1, <2>6 DEF UploadKept, NoAnswer
  <2> QED BY <2>5, <2>6
<1> QED BY <1>1, <1>2, <1>3, <1>5, <1>6, <1>7, <1>8 DEF Inv, IInv

\* A download answers the local copy, or goes for the server's.
LEMMA DownloadKeeps ==
  ASSUME Inv, NEW i \in Id, Download(i)
  PROVE  Inv'
<1>1. /\ pc = "idle" /\ i < nextId /\ call' = "download" /\ id' = i
      /\ UNCHANGED <<server, nextId, local>>
      /\ \/ /\ local[i] # NoBytes /\ UNCHANGED <<pc, data>>
            /\ answer' = [call |-> "download", id |-> i, bytes |-> local[i]]
         \/ local[i] = NoBytes /\ pc' = "fetch" /\ data' = NoBytes /\ answer' = NoAnswer
  BY DEF Download, Cached
<1>2. local[i] \in Body \cup {NoBytes}
  BY DEF Inv, TypeOK
<1>3. TypeOK'
  BY <1>1, <1>2 DEF Inv, TypeOK
<1>4. UploadProgress' /\ DownloadProgress' /\ UploadKept'
  BY <1>1 DEF UploadProgress, DownloadProgress, UploadKept, NoAnswer
<1> QED BY <1>1, <1>3, <1>4, StoresAlone DEF Inv, IInv, Stored

\* Every step keeps the types and the invariant, and the copies there are.
LEMMA Step ==
  ASSUME Inv, [Next]_vars
  PROVE  Inv' /\ \A i \in Id : local[i] # NoBytes => local'[i] = local[i]
<1>1. CASE \E bytes \in Bytes : OthersUpload(bytes)
  BY <1>1, OthersUploadKeeps DEF OthersUpload
<1>2. ASSUME NEW bytes \in Bytes, Upload(bytes)
      PROVE  Inv'
  <2>1. /\ pc' = "init" /\ call' = "upload" /\ id' = 0 /\ data' = bytes
        /\ answer' = NoAnswer /\ UNCHANGED <<server, nextId, local>>
    BY <1>2 DEF Upload
  <2>2. TypeOK'
    BY <2>1 DEF Inv, TypeOK, Body
  <2>3. UploadProgress' /\ DownloadProgress' /\ UploadKept'
    BY <2>1 DEF UploadProgress, DownloadProgress, UploadKept, NoAnswer
  <2> QED BY <2>1, <2>2, <2>3, StoresAlone DEF Inv, IInv, Stored
<1>3. CASE RequestFails \/ Crash
  <2>1. pc # "idle" /\ pc' = "idle" /\ UNCHANGED <<server, nextId, local, call, id, data>>
    BY <1>3 DEF RequestFails, Crash, AfterFailure
  <2>2. answer' = NoAnswer
    BY <1>3, <2>1 DEF RequestFails, Crash, Inv, IInv
  <2> QED BY <2>1, <2>2, CallEnds DEF Stored
<1>4. ASSUME NEW ok \in BOOLEAN, UploadInit(ok) \/ UploadChunk(ok) \/ Finalize(ok)
      PROVE  Inv' /\ local' = local
  BY <1>4, UploadInitKeeps, UploadStepKeeps DEF UploadInit, UploadChunk, Finalize
<1>5. CASE \E ok \in BOOLEAN : Write(ok)
  BY <1>5, WriteKeeps
<1>6. CASE \E i \in Id : Download(i)
  BY <1>6, DownloadKeeps DEF Download
<1>7. CASE Fetched
  <2>1. /\ pc = "fetch" /\ pc' = "write" /\ server[id].final
        /\ data' \in {server[id].bytes, Cut}
        /\ UNCHANGED <<server, nextId, local, call, id, answer>>
    BY <1>7 DEF Fetched, Received
  <2>2. /\ call = "download" /\ id \in Id /\ id < nextId /\ local[id] = NoBytes
        /\ answer = NoAnswer
    BY <2>1 DEF Inv, TypeOK, IInv, UploadProgress, DownloadProgress
  <2>3. data' \in Body
    BY <2>1, <2>2 DEF Inv, IInv, FinalBytes, Body
  <2>4. TypeOK'
    BY <2>1, <2>3 DEF Inv, TypeOK
  <2>5. UploadProgress' /\ DownloadProgress' /\ UploadKept'
    BY <2>1, <2>2 DEF UploadProgress, DownloadProgress, UploadKept, NoAnswer, Received
  <2> QED BY <2>1, <2>2, <2>4, <2>5, StoresAlone DEF Inv, IInv, Stored
<1>8. CASE UNCHANGED vars
  BY <1>8 DEF vars, job, Inv, TypeOK, IInv, UploadProgress, DownloadProgress, UnusedIds,
              FinalBytes, UploadKept, CopiesAreFinal
<1>9. RequestFails \/ Crash \/ Fetched \/ UNCHANGED vars => local' = local
  BY DEF RequestFails, Crash, Fetched, vars
<1>10. \A bytes \in Bytes : OthersUpload(bytes) \/ Upload(bytes) => local' = local
  BY DEF OthersUpload, Upload
<1> QED BY <1>1, <1>2, <1>3, <1>4, <1>5, <1>6, <1>7, <1>8, <1>9, <1>10 DEF Next

\* Every state of every behaviour is well typed and satisfies the invariant.
THEOREM Invariant == Spec => [](TypeOK /\ IInv)
<1>1. Init => Inv
  <2> SUFFICES ASSUME Init PROVE Inv
    OBVIOUS
  <2>1. TypeOK
    BY AttachmentAssumption DEF Init, TypeOK, Id
  <2> QED BY <2>1, AttachmentAssumption
       DEF Init, Inv, IInv, UploadProgress, DownloadProgress, UnusedIds, FinalBytes,
           UploadKept, CopiesAreFinal, NoAnswer, Id
<1>2. Inv /\ [Next]_vars => Inv'
  BY Step
<1> QED BY <1>1, <1>2, PTL DEF Spec, Inv

\* What uploadEncrypted answers is sealed at the server and kept on this
\* device, for any ciphertexts and however calls fail or die.
THEOREM UploadIsKept == Spec => []UploadKept
<1>1. TypeOK /\ IInv => UploadKept
  BY DEF IInv
<1> QED BY <1>1, Invariant, PTL

\* No failed upload leaves a local copy that others can not have.
THEOREM CopiesAreOfFinal == Spec => []CopiesAreFinal
<1>1. TypeOK /\ IInv => CopiesAreFinal
  BY DEF IInv
<1> QED BY <1>1, Invariant, PTL

\* A local copy is for ever, the broken-off body of a download too.
THEOREM CopiesStay == Spec => CopiesNeverChange
<1>1. TypeOK /\ IInv /\ [Next]_vars
        => [\A i \in Id : local[i] # NoBytes => local'[i] = local[i]]_vars
  BY Step DEF Inv
<1> QED BY <1>1, Invariant, PTL DEF Spec, CopiesNeverChange
\* What the server has sealed under each id, as the abstract store sees it.
Sealed == [i \in Id |-> IF server[i].final THEN server[i].bytes ELSE NoBytes]

\* Sealing what was open under one id.
LEMMA SealsOne ==
  ASSUME Inv, NEW i \in Id, NEW bytes \in Bytes, ~server[i].final,
         server' = [server EXCEPT ![i] = [bytes |-> bytes, final |-> TRUE]], local' = local
  PROVE  Copies!Seal(i, bytes)
<1>1. Sealed[i] = NoBytes
  BY DEF Sealed
<1>2. \A j \in Id : server'[j] = IF j = i THEN [bytes |-> bytes, final |-> TRUE] ELSE server[j]
  BY DEF Inv, TypeOK
<1>3. Sealed' = [Sealed EXCEPT ![i] = bytes]
  <2>1. \A j \in Id : (IF server'[j].final THEN server'[j].bytes ELSE NoBytes)
                       = IF j = i THEN bytes ELSE Sealed[j]
    BY <1>2 DEF Sealed
  <2> QED BY <2>1 DEF Sealed
<1> QED BY <1>1, <1>3 DEF Copies!Seal, Sealed

\* Every step seals one attachment, keeps one copy, or leaves both alone.
LEMMA StepOfStore ==
  ASSUME Inv, [Next]_vars
  PROVE  [Copies!Next]_(Copies!vars)
<1>1. ASSUME NEW bytes \in Bytes, OthersUpload(bytes)
      PROVE  Copies!Next
  <2>1. /\ nextId \in Id /\ local' = local
        /\ server' = [server EXCEPT ![nextId] = [bytes |-> bytes, final |-> TRUE]]
    BY <1>1 DEF OthersUpload, Inv, TypeOK, Id
  <2>2. ~server[nextId].final
    BY <2>1 DEF Inv, IInv, UnusedIds, Id
  <2> QED BY <2>1, <2>2, SealsOne DEF Copies!Next
<1>2. ASSUME NEW ok \in BOOLEAN, Finalize(ok)
      PROVE  Copies!Next
  <2>1. /\ server' = [server EXCEPT ![id] = [bytes |-> server[id].bytes, final |-> TRUE]]
        /\ pc = "finalize" /\ local' = local
    BY <1>2 DEF Finalize
  <2>2. id \in Id /\ ~server[id].final /\ server[id].bytes \in Bytes
    BY <2>1 DEF Inv, IInv, TypeOK, UploadProgress, DownloadProgress
  <2> QED BY <2>1, <2>2, SealsOne DEF Copies!Next
<1>3. ASSUME NEW ok \in BOOLEAN, UploadChunk(ok)
      PROVE  UNCHANGED <<Sealed, local>>
  <2>1. /\ server' = [server EXCEPT ![id] = [bytes |-> data, final |-> server[id].final]]
        /\ pc = "chunk" /\ local' = local
    BY <1>3 DEF UploadChunk
  <2>2. id \in Id /\ ~server[id].final
    BY <2>1 DEF Inv, IInv, TypeOK, UploadProgress, DownloadProgress
  <2>3. \A i \in Id : /\ i # id => server'[i] = server[i]
                     /\ i = id => ~server'[i].final
    BY <2>1, <2>2 DEF Inv, TypeOK
  <2> QED BY <2>1, <2>2, <2>3 DEF Sealed
<1>4. ASSUME NEW ok \in BOOLEAN, Write(ok)
      PROVE  Copies!Next \/ UNCHANGED <<Sealed, local>>
  <2>1. /\ pc = "write" /\ server' = server
        /\ local' = [local EXCEPT ![id] = data] \/ local' = local
    BY <1>4 DEF Write, WriteCopy
  <2>2. UNCHANGED Sealed
    BY <2>1 DEF Sealed
  <2>3. id \in Id /\ local[id] = NoBytes /\ server[id].final /\ data \in {server[id].bytes, Cut}
    BY <2>1, AtWrite
  <2>4. Sealed[id] = server[id].bytes /\ Sealed[id] # NoBytes
    BY <2>3, AttachmentAssumption DEF Sealed, Inv, IInv, FinalBytes
  <2>5. CASE local' = [local EXCEPT ![id] = data]
    BY <2>2, <2>3, <2>4, <2>5 DEF Copies!Next, Copies!Keep, Sealed
  <2> QED BY <2>1, <2>2, <2>5
<1>5. UNCHANGED <<server, local>> => UNCHANGED <<Sealed, local>>
  BY DEF Sealed
<1>6. RequestFails \/ Crash \/ Fetched \/ UNCHANGED vars => UNCHANGED <<server, local>>
  BY DEF RequestFails, Crash, Fetched, vars
<1>7. \A bytes \in Bytes : Upload(bytes) => UNCHANGED <<server, local>>
  BY DEF Upload
<1>8. \A ok \in BOOLEAN : UploadInit(ok) => UNCHANGED <<server, local>>
  BY DEF UploadInit
<1>9. \A i \in Id : Download(i) => UNCHANGED <<server, local>>
  BY DEF Download
<1>10. Copies!Next \/ UNCHANGED <<Sealed, local>>
  BY <1>1, <1>2, <1>3, <1>4, <1>5, <1>6, <1>7, <1>8, <1>9 DEF Next
<1> QED BY <1>10 DEF Copies!vars, Sealed

\* The local copies are a store that keeps, once and for ever, what was sealed
\* or a torn body.
THEOREM ImplementsSealedStore == Spec => KeepsWhatIsSealed
<1>1. Init => Copies!Init
  BY DEF Init, Copies!Init
<1>2. TypeOK /\ IInv /\ [Next]_vars => [Copies!Next]_(Copies!vars)
  BY StepOfStore DEF Inv
<1> QED BY <1>1, <1>2, Invariant, PTL DEF Spec, KeepsWhatIsSealed, Copies!Spec
=============================================================================
