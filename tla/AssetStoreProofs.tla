--------------------------- MODULE AssetStoreProofs ---------------------------
(***************************************************************************)
(* Proofs about AssetStore, for any names, chunks and file sizes: an       *)
(* upload never mixes up what it hashed with what it wrote, and the upload *)
(* protocol implements DataFiles.                                          *)
(***************************************************************************)
EXTENDS AssetStore, SequenceTheorems, TLAPS

(* commit() has closed the upload, and neither of the two is ever about job.pb. *)
UploadInv ==
    /\ commit # None => upload = None /\ commit.name \in Name
    /\ upload # None => upload.name \in Name

IInv ==
    /\ StoreTypeOK
    /\ PartIsHashed
    /\ UploadInv

-------------------------------------------------------------------------------
(***************************************************************************)
(* Files as sequences of chunks.                                           *)
(***************************************************************************)

(* A file is a sequence of at most MaxSize chunks. *)
LEMMA BytesAreSeqs ==
    ASSUME NEW b
    PROVE  b \in Bytes <=> b \in Seq(Chunk) /\ Len(b) <= MaxSize
<1>1. ASSUME b \in Bytes PROVE b \in Seq(Chunk) /\ Len(b) <= MaxSize
  <2>1. PICK n \in 0..MaxSize : b \in [1..n -> Chunk]
    BY <1>1 DEF Bytes
  <2>2. n \in Nat
    BY <2>1, StoreAssumption
  <2>3. b \in Seq(Chunk) /\ Len(b) = n
    BY <2>1, <2>2
  <2>. QED
    BY <2>1, <2>3
<1>2. ASSUME b \in Seq(Chunk), Len(b) <= MaxSize PROVE b \in Bytes
  <2>1. b \in [1..Len(b) -> Chunk] /\ Len(b) \in 0..MaxSize
    BY <1>2, LenProperties, StoreAssumption
  <2>. QED
    BY <2>1 DEF Bytes
<1>. QED
  BY <1>1, <1>2

(* One more chunk, within the declared size, is still a file. *)
LEMMA BytesAppend ==
    ASSUME NEW b \in Bytes, NEW c \in Chunk, NEW size \in 1..MaxSize, Len(b) < size
    PROVE  Append(b, c) \in Bytes
<1>1. b \in Seq(Chunk) /\ Len(b) \in Nat
  BY BytesAreSeqs
<1>2. Append(b, c) \in Seq(Chunk) /\ Len(Append(b, c)) = Len(b) + 1
  BY <1>1, AppendProperties
<1>3. Len(b) + 1 <= MaxSize
  BY <1>1, StoreAssumption
<1>. QED
  BY <1>2, <1>3, BytesAreSeqs

(* The empty ".part" file of a new upload. *)
LEMMA EmptyIsBytes == <<>> \in Bytes
<1>1. <<>> \in Seq(Chunk) /\ Len(<<>>) = 0
  BY EmptySeq
<1>2. Len(<<>>) <= MaxSize
  BY <1>1, StoreAssumption
<1>. QED
  BY <1>1, <1>2, BytesAreSeqs

(* A digest the host may declare is the digest of a non-empty file, and of no other. *)
LEMMA DigestOfContent ==
    ASSUME NEW b, Sha256(b) \in Hash
    PROVE  b \in Content
<1>1. PICK d \in Content : Sha256(b) = Sha256(d)
  BY DEF Hash
<1>2. b = d
  BY <1>1 DEF Sha256
<1>. QED
  BY <1>1, <1>2

(* unlink() keeps the directory's type, and every other entry. *)
LEMMA UnlinkPart ==
    ASSUME StoreTypeOK, NEW n \in File, NEW p \in Unlink(part, n)
    PROVE  /\ p \in [File -> Bytes \cup {None}]
           /\ \A f \in File : f # n => p[f] = part[f]
  BY DEF Unlink, StoreTypeOK

LEMMA UnlinkFiles ==
    ASSUME StoreTypeOK, NEW n \in File, NEW g \in Unlink(files, n)
    PROVE  /\ g \in [File -> Content \cup {None}]
           /\ \A f \in File : f # n => g[f] = files[f]
  BY DEF Unlink, StoreTypeOK

(* abort_upload() touches at most the ".part" of the open upload. *)
LEMMA AbortTyped ==
    ASSUME StoreTypeOK, NEW p \in abort_upload
    PROVE  p \in [File -> Bytes \cup {None}]
<1>1. CASE upload = None
  BY <1>1 DEF abort_upload, StoreTypeOK
<1>2. CASE upload # None
  <2>1. upload.name \in File /\ p \in Unlink(part, upload.name)
    BY <1>2 DEF abort_upload, StoreTypeOK, Upload
  <2>. QED
    BY <2>1, UnlinkPart
<1>. QED
  BY <1>1, <1>2

-------------------------------------------------------------------------------
(***************************************************************************)
(* One lemma per request.                                                  *)
(***************************************************************************)
LEMMA BeginStep ==
    ASSUME IInv, Begin
    PROVE  IInv'
<1>1. PICK n \in File, size \in 1..MaxSize, sha \in Hash :
          BeginClosed(n, size, sha) \/ BeginOpen(n, size, sha)
  BY DEF Begin
<1>2. UNCHANGED <<files, commit>> /\ commit = None /\ n \in Name
  BY <1>1 DEF BeginClosed, BeginOpen, BeginOther, File
<1>3. CASE BeginClosed(n, size, sha)
  <2>1. upload' = None /\ part' \in [File -> Bytes \cup {None}]
    BY <1>3, AbortTyped DEF BeginClosed, IInv
  <2>. QED
    BY <1>2, <2>1 DEF IInv, StoreTypeOK, PartIsHashed, UploadInv
<1>4. CASE BeginOpen(n, size, sha)
  <2>1. PICK p \in abort_upload : part' = [p EXCEPT ![n] = <<>>]
    BY <1>4 DEF BeginOpen
  <2>2. p \in [File -> Bytes \cup {None}]
    BY <2>1, AbortTyped DEF IInv
  <2>3. part' \in [File -> Bytes \cup {None}] /\ part'[n] = <<>>
    BY <2>1, <2>2, EmptyIsBytes
  <2>4. upload' = [name |-> n, size |-> size, sha256 |-> sha, hashed |-> <<>>]
    BY <1>4 DEF BeginOpen
  <2>5. upload' \in Upload
    BY <2>4, EmptyIsBytes DEF Upload
  <2>6. upload'.name = n /\ upload'.hashed = <<>>
    BY <2>4
  <2>. QED
    BY <1>2, <2>3, <2>5, <2>6 DEF IInv, StoreTypeOK, PartIsHashed, UploadInv
<1>. QED
  BY <1>1, <1>3, <1>4

(* A chunk goes to the ".part" file and to the hash alike. *)
LEMMA WriteStep ==
    ASSUME IInv, Write
    PROVE  IInv'
<1>1. commit = None /\ upload \in Upload /\ upload # None /\ UNCHANGED <<files, commit>>
  BY DEF Write, WriteOk, WriteFail, IInv, StoreTypeOK
<1>2. ASSUME NEW offset \in 0..MaxSize, NEW c \in Chunk, WriteOk(offset, c)
      PROVE  IInv'
  <2>1. /\ Len(upload.hashed) < upload.size
        /\ upload' = [upload EXCEPT !.hashed = Append(@, c)]
        /\ part' = [part EXCEPT ![upload.name] = Append(@, c)]
    BY <1>2 DEF WriteOk, written
  <2>2. /\ upload.name \in File /\ upload.size \in 1..MaxSize /\ upload.hashed \in Bytes
        /\ part[upload.name] = upload.hashed
    BY <1>1 DEF Upload, IInv, PartIsHashed
  <2>3. Append(upload.hashed, c) \in Bytes
    BY <2>1, <2>2, BytesAppend
  <2>4. upload' \in Upload /\ upload'.name = upload.name /\ upload'.hashed = Append(upload.hashed, c)
    BY <1>1, <2>1, <2>3 DEF Upload
  <2>5. part' \in [File -> Bytes \cup {None}] /\ part'[upload.name] = Append(upload.hashed, c)
    BY <2>1, <2>2, <2>3 DEF IInv, StoreTypeOK
  <2>. QED
    BY <1>1, <2>4, <2>5 DEF IInv, StoreTypeOK, PartIsHashed, UploadInv
<1>3. CASE WriteFail
  <2>1. upload' = None /\ part' \in [File -> Bytes \cup {None}]
    BY <1>3, AbortTyped DEF WriteFail, IInv
  <2>. QED
    BY <1>1, <2>1 DEF IInv, StoreTypeOK, PartIsHashed, UploadInv
<1>. QED
  BY <1>2, <1>3 DEF Write

(* commit() renames what it has compared with the declared digest. *)
LEMMA CommitStepInv ==
    ASSUME IInv, CommitStep
    PROVE  IInv'
<1>1. CASE CommitDiscard
  <2>1. upload.name \in File /\ part' \in Unlink(part, upload.name)
    BY <1>1 DEF CommitDiscard, IInv, StoreTypeOK, Upload
  <2>2. part' \in [File -> Bytes \cup {None}]
    BY <2>1, UnlinkPart DEF IInv
  <2>. QED
    BY <1>1, <2>2 DEF CommitDiscard, IInv, StoreTypeOK, PartIsHashed, UploadInv
<1>2. CASE CommitUnlink
  <2>1. /\ upload \in Upload /\ upload # None
        /\ upload.name \in File /\ upload.sha256 \in Hash
        /\ part[upload.name] = upload.hashed /\ Sha256(upload.hashed) = upload.sha256
    BY <1>2 DEF CommitUnlink, IInv, StoreTypeOK, PartIsHashed, Upload
  <2>2. upload.hashed \in Content /\ upload.hashed # None
    BY <2>1, DigestOfContent, StoreAssumption DEF Content
  <2>3. files' \in [File -> Content \cup {None}]
    BY <1>2, <2>1, UnlinkFiles DEF CommitUnlink, IInv
  <2>4. commit' = [name |-> upload.name, sha256 |-> upload.sha256]
    BY <1>2 DEF CommitUnlink
  <2>5. commit' \in Commit /\ commit'.name = upload.name /\ commit'.sha256 = upload.sha256
    BY <2>1, <2>4 DEF Commit
  <2>6. upload' = None /\ UNCHANGED part
    BY <1>2 DEF CommitUnlink
  <2>. QED
    BY <2>1, <2>2, <2>3, <2>5, <2>6 DEF IInv, StoreTypeOK, PartIsHashed, UploadInv
<1>3. CASE CommitRename
  <2>1. /\ commit.name \in File /\ upload = None
        /\ Sha256(part[commit.name]) = commit.sha256 /\ commit.sha256 \in Hash
    BY <1>3 DEF CommitRename, IInv, StoreTypeOK, PartIsHashed, UploadInv, Commit
  <2>2. part[commit.name] \in Content
    BY <2>1, DigestOfContent
  <2>3. /\ files' \in [File -> Content \cup {None}]
        /\ part' \in [File -> Bytes \cup {None}]
        /\ upload' = None /\ commit' = None
    BY <1>3, <2>1, <2>2 DEF CommitRename, IInv, StoreTypeOK
  <2>. QED
    BY <2>3 DEF IInv, StoreTypeOK, PartIsHashed, UploadInv
<1>4. CASE CommitFail
  <2>1. commit.name \in File /\ upload = None
    BY <1>4 DEF CommitFail, IInv, StoreTypeOK, UploadInv, Commit
  <2>2. part' \in [File -> Bytes \cup {None}]
    BY <1>4, <2>1, UnlinkPart DEF CommitFail, IInv
  <2>. QED
    BY <1>4, <2>1, <2>2 DEF CommitFail, IInv, StoreTypeOK, PartIsHashed, UploadInv
<1>. QED
  BY <1>1, <1>2, <1>3, <1>4 DEF CommitStep

LEMMA RestartStep ==
    ASSUME IInv, Restart
    PROVE  IInv'
  BY DEF Restart, IInv, StoreTypeOK, PartIsHashed, UploadInv

LEMMA FormattedStep ==
    ASSUME IInv, RestartFormatted
    PROVE  IInv'
  BY DEF RestartFormatted, IInv, StoreTypeOK, PartIsHashed, UploadInv

-------------------------------------------------------------------------------
(* The inductive invariant holds in every reachable state. *)
THEOREM Invariance == Spec => []IInv
<1>1. Init => IInv
  BY DEF Init, IInv, StoreTypeOK, PartIsHashed, UploadInv
<1>2. IInv /\ [Next]_vars => IInv'
  <2> SUFFICES ASSUME IInv, [Next]_vars PROVE IInv'
    OBVIOUS
  <2>1. CASE UNCHANGED vars
    BY <2>1 DEF vars, IInv, StoreTypeOK, PartIsHashed, UploadInv
  <2>. QED
    BY <2>1, BeginStep, WriteStep, CommitStepInv, RestartStep, FormattedStep DEF Next
<1>. QED
  BY <1>1, <1>2, PTL DEF Spec

(* /data and the open upload stay within their types: no file outgrows MaxSize. *)
THEOREM TypeCorrect == Spec => []StoreTypeOK
<1>1. IInv => StoreTypeOK
  BY DEF IInv
<1>. QED
  BY <1>1, Invariance, PTL

(* The running hash covers the ".part" file, and commit() renames what was compared. *)
THEOREM HashCoversPart == Spec => []PartIsHashed
<1>1. IInv => PartIsHashed
  BY DEF IInv
<1>. QED
  BY <1>1, Invariance, PTL

(***************************************************************************)
(* Unless /data is formatted, a stored file disappears only once its       *)
(* verified replacement is on disk.                                        *)
(***************************************************************************)
THEOREM ReplacementOnDisk == Spec => ReplacementReady
<1> DEFINE ready(f) == commit' # None /\ commit'.name = f /\ Holds(part', f, commit'.sha256)
<1>1. IInv /\ IInv' /\ [Next]_vars =>
        [~RestartFormatted => \A f \in File : files[f] # None /\ files'[f] = None => ready(f)]_vars
  <2> SUFFICES ASSUME IInv, IInv', [Next]_vars, ~RestartFormatted,
                      NEW f \in File, files[f] # None, files'[f] = None
               PROVE  ready(f)
    OBVIOUS
  <2>1. CASE CommitUnlink
    <3>1. upload.name \in File /\ files' \in Unlink(files, upload.name)
      BY <2>1 DEF CommitUnlink, IInv, StoreTypeOK, Upload
    <3>2. upload.name = f
      BY <3>1, UnlinkFiles DEF IInv
    <3>3. commit' # None /\ commit'.name = f
      BY <2>1, <3>1, <3>2, StoreAssumption DEF CommitUnlink, IInv, StoreTypeOK, Upload, Commit
    <3>. QED
      BY <3>3 DEF IInv, PartIsHashed, Holds
  <2>2. CASE CommitRename
    <3>1. f # commit.name
      BY <2>2 DEF CommitRename
    <3>. QED
      BY <2>2, <3>1 DEF CommitRename, IInv, StoreTypeOK
  <2>3. CASE ~CommitUnlink /\ ~CommitRename
    BY <2>3 DEF Next, vars, Begin, BeginClosed, BeginOpen, Write, WriteOk, WriteFail, CommitStep,
        CommitDiscard, CommitFail, Restart
  <2>. QED
    BY <2>1, <2>2, <2>3
<1>. QED
  BY <1>1, Invariance, PTL DEF Spec, ReplacementReady

-------------------------------------------------------------------------------
(***************************************************************************)
(* The refinement.                                                         *)
(***************************************************************************)
installing == IF commit = None THEN None
              ELSE [from |-> None, to |-> commit.name, sha256 |-> commit.sha256]

(* An install is under way for DataFiles exactly while commit() is between its two calls. *)
LEMMA InstallingMaps ==
    ASSUME StoreTypeOK
    PROVE  installing = None <=> commit = None
<1>1. ASSUME commit # None PROVE installing \in Installing
  BY <1>1 DEF installing, Installing, StoreTypeOK, Commit
<1>. QED
  BY <1>1, StoreAssumption DEF installing

(* Every step of the protocol is a step of DataFiles or invisible there. *)
LEMMA StepImplements ==
    ASSUME IInv, IInv', [Next]_vars
    PROVE  [Data!FilesNext]_(Data!filesVars)
<1> USE DEF Data!FilesNext, Data!filesVars, Data!Sha256, Data!Unlink, Sha256, Unlink
<1>1. CASE CommitUnlink
  <2>1. /\ upload \in Upload /\ upload.name \in Name
        /\ upload.sha256 \in Hash /\ Sha256(upload.hashed) = upload.sha256
        /\ commit = None /\ files' \in Unlink(files, upload.name)
        /\ commit' = [name |-> upload.name, sha256 |-> upload.sha256]
    BY <1>1 DEF CommitUnlink, IInv, StoreTypeOK, UploadInv, Upload
  <2>2. upload.hashed \in Content
    BY <2>1, DigestOfContent
  <2>3. commit' # None
    BY <2>1, StoreAssumption DEF Commit, File
  <2>4. Data!InstallUnlink(None, upload.name, Sha256(upload.hashed))
    BY <2>1, <2>3 DEF Data!InstallUnlink
  <2>. QED
    BY <2>1, <2>2, <2>4
<1>2. CASE CommitRename
  <2>1. /\ commit # None /\ commit' = None /\ commit.name \in File
        /\ files[commit.name] = None
        /\ files' = [files EXCEPT ![commit.name] = part[commit.name]]
        /\ Sha256(part[commit.name]) = commit.sha256 /\ commit.sha256 \in Hash
    BY <1>2 DEF CommitRename, IInv, StoreTypeOK, PartIsHashed, Commit
  <2>2. part[commit.name] \in Content
    BY <2>1, DigestOfContent
  <2>3. files' = [f \in File |-> IF f = commit.name THEN part[commit.name]
                                 ELSE IF f = None THEN None ELSE files[f]]
    BY <2>1, StoreAssumption DEF IInv, StoreTypeOK
  <2>4. installing # None
    BY <2>1, InstallingMaps DEF IInv
  <2>5. Data!InstallRename
    BY <2>1, <2>2, <2>3, <2>4 DEF Data!InstallRename, Data!File, File, installing
  <2>. QED
    BY <2>5
<1>3. CASE CommitFail
  <2>1. commit # None /\ commit' = None /\ UNCHANGED files
    BY <1>3 DEF CommitFail
  <2>2. installing # None
    BY <2>1, InstallingMaps DEF IInv
  <2>. QED
    BY <2>1, <2>2 DEF Data!InstallFail, installing
<1>4. CASE Restart
  BY <1>4 DEF Restart, Data!FilesRestart
<1>5. CASE RestartFormatted
  BY <1>5 DEF RestartFormatted, Data!FilesRestart, Data!NoFiles, Data!File, File
<1>6. CASE ~(CommitUnlink \/ CommitRename \/ CommitFail \/ Restart \/ RestartFormatted)
  <2>1. UNCHANGED <<files, commit>>
    BY <1>6 DEF Next, vars, Begin, BeginClosed, BeginOpen, Write, WriteOk, WriteFail, CommitStep,
        CommitDiscard
  <2>. QED
    BY <2>1
<1>. QED
  BY <1>1, <1>2, <1>3, <1>4, <1>5, <1>6

(***************************************************************************)
(* Whatever the host sends, /data only ever gains files that hash to the   *)
(* digest declared for them, and an upload never writes job.pb.            *)
(***************************************************************************)
THEOREM UploadsImplementDataFiles == Spec => ImplementsDataFiles
<1>1. Init => Data!FilesInit
  BY DEF Init, Data!FilesInit, Data!NoFiles, Data!File, File
<1>2. IInv /\ IInv' /\ [Next]_vars => [Data!FilesNext]_(Data!filesVars)
  BY StepImplements
<1>. QED
  BY <1>1, <1>2, Invariance, PTL DEF Spec, ImplementsDataFiles, Data!FilesSpec

===============================================================================
