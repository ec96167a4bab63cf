---------------------------- MODULE PatientProofs ----------------------------
(* Clients and metaserver together.  What is proved of the metaserver for  *)
(* requests that are served one at a time holds of any number of handler   *)
(* processes that take requests as they come, when each user runs one      *)
(* sync.py and it waits for its answers: the way sync.py is written, and   *)
(* not a lock of the server, keeps commits of a file apart.                *)
EXTENDS UploadProofs, FileStoreProofs

-----------------------------------------------------------------------------
(* The composition is a metaserver                                         *)

(* No client has a file to upload, or waits, before the first step.        *)
LEMMA UploaderInitInv == UploadInit => UploaderInv
  BY DEF UploadInit, UploaderInv

(* Every step keeps what clients are known to have in hand, whatever is    *)
(* answered and whatever fails.                                            *)
LEMMA UploaderNextInv ==
    ASSUME UploaderInv, [UploadNext]_upVars
    PROVE  UploaderInv'
<1> USE DEF UploaderInv
<1>1. ASSUME NEW c \in Clients, NEW u \in Uploads, StartUpload(c, u)
      PROVE  UploaderInv'
  BY <1>1 DEF StartUpload
<1>2. ASSUME NEW c \in Clients, NEW w \in Workers, SendQuery(c, w) \/ SendCommit(c, w)
      PROVE  UploaderInv'
  BY <1>2 DEF SendQuery, SendCommit
<1>3. ASSUME NEW c \in Clients, NEW w \in Workers, NEW f \in FileNames,
             SendDelete(c, w, f)
      PROVE  UploaderInv'
  BY <1>3 DEF SendDelete
<1>4. ASSUME NEW c \in Clients, NEW w \in Workers, QueryAnswered(c, w)
      PROVE  UploaderInv'
  BY <1>4 DEF QueryAnswered, LeaveUpFile
<1>5. ASSUME NEW c \in Clients, NEW w \in Workers,
             CommitAnswered(c, w) \/ DeleteAnswered(c, w)
      PROVE  UploaderInv'
  BY <1>5 DEF CommitAnswered, DeleteAnswered, LeaveUpFile
<1>6. ASSUME NEW c \in Clients, StoreBlock(c) PROVE UploaderInv'
  BY <1>6 DEF StoreBlock
<1>7. ASSUME NEW c \in Clients, StoreFails(c) \/ ClientDies(c) PROVE UploaderInv'
  BY <1>7 DEF StoreFails, ClientDies, LeaveUpFile
<1>8. ASSUME NEW w \in Workers, WorkerStep(w) \/ DropReply(w) PROVE UploaderInv'
  BY <1>8 DEF WorkerStep, DropReply, clientVars
<1>9. CASE UNCHANGED upVars
  BY <1>9 DEF upVars, clientVars
<1> QED
  BY <1>1, <1>2, <1>3, <1>4, <1>5, <1>6, <1>7, <1>8, <1>9
     DEF UploadNext, PatientNext, Send, Receive

(* Seen from the metaserver, uploading clients are requests like others:   *)
(* every theorem of the metaserver holds while they run, are killed and    *)
(* get failed answers.                                                     *)
THEOREM UploadsUseMetaserver == UploadSpec => MetaSpec
<1>1. UploaderInv /\ [UploadNext]_upVars => UploaderInv'
  BY UploaderNextInv
<1>2. UploaderInv /\ [UploadNext]_upVars => [MetaNext]_metaVars
  BY UploadStepIsMetaStep DEF UploaderInv
<1>3. UploadInit => MetaInit
  BY DEF UploadInit
<1> QED BY <1>1, <1>2, <1>3, UploaderInitInv, PTL DEF UploadSpec, MetaSpec

-----------------------------------------------------------------------------
(* Clients that wait                                                       *)

(* A request being served is the one its client waits for: only an answer  *)
(* ends the waiting, and only a client that does not wait sends a request. *)
LEMMA ServedNextInv ==
    ASSUME MetaInv, UploaderInv, ServedForAClient, [PatientNext]_upVars
    PROVE  ServedForAClient'
<1> USE DEF UploaderInv, MetaInv, MetaTypeOK
<1>1. ASSUME NEW c \in Clients, NEW w \in Workers, NEW r, Accept(w, r),
             r.user = UserOf[c], server[c] = NoWorker,
             server' = [server EXCEPT ![c] = w]
      PROVE  ServedForAClient'
  <2> SUFFICES ASSUME NEW x \in Workers, pc'[x] # "idle"
               PROVE  \E d \in Clients : server'[d] = x /\ req'[x].user = UserOf[d]
    BY DEF ServedForAClient
  <2>1. CASE x = w
    BY <1>1, <2>1 DEF Accept
  <2>2. CASE x # w
    <3>1. pc[x] # "idle" /\ req'[x] = req[x]
      BY <1>1, <2>2 DEF Accept
    <3>2. PICK d \in Clients : server[d] = x /\ req[x].user = UserOf[d]
      BY <3>1 DEF ServedForAClient
    <3>3. d # c
      BY <1>1, <3>2, NoWorkerAssumption
    <3> QED BY <1>1, <3>1, <3>2, <3>3
  <2> QED BY <2>1, <2>2
<1>2. ASSUME NEW c \in Clients, NEW w \in Workers, Respond(w), server[c] = w,
             server' = [server EXCEPT ![c] = NoWorker]
      PROVE  ServedForAClient'
  <2> SUFFICES ASSUME NEW x \in Workers, pc'[x] # "idle"
               PROVE  \E d \in Clients : server'[d] = x /\ req'[x].user = UserOf[d]
    BY DEF ServedForAClient
  <2>1. x # w /\ pc[x] # "idle" /\ req'[x] = req[x]
    BY <1>2 DEF Respond
  <2>2. PICK d \in Clients : server[d] = x /\ req[x].user = UserOf[d]
    BY <2>1 DEF ServedForAClient
  <2> QED BY <1>2, <2>1, <2>2
<1>3. ASSUME NEW c \in Clients, NEW w \in Workers, SendQuery(c, w)
      PROVE  ServedForAClient'
  BY <1>1, <1>3 DEF SendQuery
<1>4. ASSUME NEW c \in Clients, NEW w \in Workers, SendCommit(c, w)
      PROVE  ServedForAClient'
  BY <1>1, <1>4 DEF SendCommit
<1>5. ASSUME NEW c \in Clients, NEW w \in Workers, NEW f \in FileNames,
             SendDelete(c, w, f)
      PROVE  ServedForAClient'
  BY <1>1, <1>5 DEF SendDelete
<1>6. ASSUME NEW c \in Clients, NEW w \in Workers,
             QueryAnswered(c, w) \/ CommitAnswered(c, w) \/ DeleteAnswered(c, w)
      PROVE  ServedForAClient'
  BY <1>2, <1>6 DEF QueryAnswered, CommitAnswered, DeleteAnswered
<1>7. ASSUME NEW c \in Clients,
             \/ \E u \in Uploads : StartUpload(c, u)
             \/ StoreBlock(c) \/ StoreFails(c)
      PROVE  ServedForAClient'
  <2>1. UNCHANGED <<pc, req, server>>
    BY <1>7 DEF StartUpload, StoreBlock, StoreFails, metaVars
  <2> QED BY <2>1 DEF ServedForAClient
<1>8. ASSUME NEW w \in Workers, WorkerStep(w) PROVE ServedForAClient'
  <2>1. req' = req /\ \A x \in Workers : pc'[x] # "idle" => pc[x] # "idle"
    BY <1>8, WorkFrame DEF WorkerStep
  <2> QED BY <1>8, <2>1 DEF ServedForAClient, WorkerStep, clientVars
<1>9. ASSUME NEW w \in Workers, DropReply(w) PROVE ServedForAClient'
  BY <1>9 DEF DropReply, Respond, ServedForAClient, clientVars
<1>10. CASE UNCHANGED upVars
  BY <1>10 DEF upVars, metaVars, clientVars, ServedForAClient
<1> QED
  BY <1>3, <1>4, <1>5, <1>6, <1>7, <1>8, <1>9, <1>10 DEF PatientNext, Send, Receive

(* The invariant of the whole: the metaserver's, which now needs no        *)
(* serialising server.                                                     *)
LEMMA PatientInvariant ==
    ASSUME \A c, d \in Clients : UserOf[c] = UserOf[d] => c = d
    PROVE  PatientSpec => [](MetaInv /\ SerialInv)
<1> DEFINE Inv == MetaInv /\ SerialInv /\ UploaderInv /\ ServedForAClient
<1>1. UploadInit => Inv
  BY MetaInitInv, SerialInitInv, UploaderInitInv DEF UploadInit, MetaInit, ServedForAClient
<1>2. Inv /\ [PatientNext]_upVars => Inv'
  <2> SUFFICES ASSUME Inv, [PatientNext]_upVars PROVE Inv'
    OBVIOUS
  <2>1. [UploadNext]_upVars
    BY DEF UploadNext
  <2>2. UploaderInv'
    BY <2>1, UploaderNextInv
  <2>3. [MetaNext]_metaVars
    BY <2>1, UploadStepIsMetaStep DEF UploaderInv
  <2>4. MetaInv'
    BY <2>3, MetaNextInv
  <2>5. ServedForAClient'
    BY ServedNextInv
  <2>6. Serialised'
    BY <2>5 DEF ServedForAClient, Serialised
  <2>7. SerialInv'
    BY <2>3, <2>6, SerialNextInv
  <2> QED BY <2>2, <2>4, <2>5, <2>7
<1> QED BY <1>1, <1>2, PTL DEF PatientSpec

(* If each user runs one sync.py that waits for its answers, no two        *)
(* handler processes serve the same user, however many there are and       *)
(* whatever fails in them.                                                 *)
THEOREM PatientClientsSerialise ==
    ASSUME \A c, d \in Clients : UserOf[c] = UserOf[d] => c = d
    PROVE  PatientSpec => []Serialised
<1>1. SerialInv => Serialised
  BY DEF SerialInv
<1> QED BY <1>1, PatientInvariant, PTL

(* If each user runs one sync.py that waits for its answers, the clients   *)
(* see the versioned register, without any lock or transaction on the      *)
(* server.                                                                 *)
THEOREM PatientFileStore ==
    ASSUME \A c, d \in Clients : UserOf[c] = UserOf[d] => c = d
    PROVE  PatientSpec => ImplementsFileStore
<1>1. UploadInit => FS!Init
  BY InitImplements DEF UploadInit
<1>2. UploaderInv /\ [PatientNext]_upVars => UploaderInv' /\ [MetaNext]_metaVars
  <2> SUFFICES ASSUME UploaderInv, [PatientNext]_upVars
               PROVE  UploaderInv' /\ [MetaNext]_metaVars
    OBVIOUS
  <2>1. [UploadNext]_upVars
    BY DEF UploadNext
  <2>2. [MetaNext]_metaVars
    BY <2>1, UploadStepIsMetaStep DEF UploaderInv
  <2> QED BY <2>1, <2>2, UploaderNextInv
<1>3. MetaInv /\ SerialInv /\ SerialInv' /\ [MetaNext]_metaVars => [FS!Next]_(FS!fsVars)
  BY NextImplements
<1> QED
  BY <1>1, <1>2, <1>3, PatientInvariant, UploaderInitInv, PTL
     DEF PatientSpec, ImplementsFileStore, FS!Spec
==============================================================================
