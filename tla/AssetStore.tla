------------------------------ MODULE AssetStore ------------------------------
(***************************************************************************)
(* asset_store: chunked uploads from the host into /data.  One upload at a *)
(* time is written to "<name>.part" and hashed as it arrives; commit()     *)
(* compares the digest with the one declared in begin() and replaces       *)
(* "<name>".  The upload state lives in RAM.                               *)
(*                                                                         *)
(* A chunk stands for the bytes of one ASSET_WRITE; offsets and sizes      *)
(* count chunks.  A request the code rejects without changing anything     *)
(* (bad argument, wrong offset, size exceeded, nothing to commit) is a     *)
(* stuttering step and has no action.                                      *)
(***************************************************************************)
EXTENDS Storage, Naturals, Sequences

CONSTANTS Name, JobName,
          Chunk,      \* payloads of one ASSET_WRITE
          MaxSize     \* bound: chunks in the largest file

Bytes == UNION {[1..n -> Chunk] : n \in 0..MaxSize}
Content == Bytes \ {<<>>}
File == Name \cup {JobName}
Hash == {Sha256(b) : b \in Content}

VARIABLES files,    \* committed files
          part,     \* "<name>.part" files
          upload,   \* fp, name, size, expected_sha256, hash: the open upload, or None
          commit    \* name and expected_sha256 while install_file() is under way, or None

Upload == [name : File, size : 1..MaxSize, sha256 : Hash, hashed : Bytes]
Commit == [name : File, sha256 : Hash]
Installing == [from : {None}, to : File, sha256 : Hash]   \* a commit as DataFiles sees it

ASSUME StoreAssumption ==
    /\ MaxSize \in Nat
    /\ JobName \notin Name
    /\ None \notin Bytes \cup File \cup Upload \cup Commit \cup Installing

vars == <<files, part, upload, commit>>

(* One type invariant: /data and the upload hold what their C++ types can hold. *)
StoreTypeOK ==
    /\ files \in [File -> Content \cup {None}]
    /\ part \in [File -> Bytes \cup {None}]
    /\ upload \in Upload \cup {None}
    /\ commit \in Commit \cup {None}

Init ==
    /\ files = [f \in File |-> None]
    /\ part = [f \in File |-> None]
    /\ upload = None
    /\ commit = None

written == Len(upload.hashed)

(***************************************************************************)
(* begin()                                                                 *)
(***************************************************************************)
is_resumable(n, size, sha) ==
    upload # None /\ upload.name = n /\ upload.size = size /\ upload.sha256 = sha

(* abort_upload(): the possible ".part" files after the open upload is dropped. *)
abort_upload == IF upload = None THEN {part} ELSE Unlink(part, upload.name)

(* Everything begin() requires before it gives up the previous upload. *)
BeginOther(n, size, sha) ==
    /\ commit = None
    /\ n # JobName
    /\ ~is_resumable(n, size, sha)

(* The asset is already stored, or the new upload cannot be opened (space, hash, fopen). *)
BeginClosed(n, size, sha) ==
    /\ BeginOther(n, size, sha)
    /\ upload' = None
    /\ part' \in abort_upload
    /\ UNCHANGED <<files, commit>>

(* Mutant: the ".part" file is opened to append, as if the upload were always resumed. *)
BeginOpenAppending(n, size, sha) ==
    /\ BeginOther(n, size, sha)
    /\ upload' = [name |-> n, size |-> size, sha256 |-> sha, hashed |-> <<>>]
    /\ \E p \in abort_upload : part' = [p EXCEPT ![n] = IF @ = None THEN <<>> ELSE @]
    /\ UNCHANGED <<files, commit>>

(***************************************************************************)
(* fopen(part_path, "wb") truncates whatever ".part" was left behind.  No  *)
(* guard requires the asset to be absent: is_present() also answers false  *)
(* when the stored file cannot be read.                                    *)
(***************************************************************************)
BeginOpen(n, size, sha) ==
    /\ BeginOther(n, size, sha)
    /\ upload' = [name |-> n, size |-> size, sha256 |-> sha, hashed |-> <<>>]
    /\ \E p \in abort_upload : part' = [p EXCEPT ![n] = <<>>]
    /\ UNCHANGED <<files, commit>>

(* Mutant: the declared size is not enforced. *)
WriteOkUnlimited(offset, c) ==
    /\ commit = None
    /\ upload # None
    /\ offset = written
    /\ upload' = [upload EXCEPT !.hashed = Append(@, c)]
    /\ part' = [part EXCEPT ![upload.name] = Append(@, c)]
    /\ UNCHANGED <<files, commit>>

(***************************************************************************)
(* write(offset, chunk): only the next chunk is accepted, so a retransmitted*)
(* or reordered ASSET_WRITE is rejected.                                   *)
(***************************************************************************)
WriteOk(offset, c) ==
    /\ commit = None
    /\ upload # None
    /\ offset = written
    /\ written < upload.size
    /\ upload' = [upload EXCEPT !.hashed = Append(@, c)]
    /\ part' = [part EXCEPT ![upload.name] = Append(@, c)]
    /\ UNCHANGED <<files, commit>>

(* fwrite() or the hash fails: the upload is dropped. *)
WriteFail ==
    /\ commit = None
    /\ upload # None
    /\ written < upload.size
    /\ upload' = None
    /\ part' \in abort_upload
    /\ UNCHANGED <<files, commit>>

(* Mutant: a rejected upload removes the stored file as well. *)
CommitDiscardStored ==
    /\ commit = None
    /\ upload # None
    /\ written = upload.size
    /\ upload' = None
    /\ part' \in Unlink(part, upload.name)
    /\ files' \in Unlink(files, upload.name)
    /\ UNCHANGED commit

(***************************************************************************)
(* commit(): the upload is closed in any case.  It is discarded when the   *)
(* digest differs, or when finishing the hash or fclose() fails.           *)
(***************************************************************************)
CommitDiscard ==
    /\ commit = None
    /\ upload # None
    /\ written = upload.size
    /\ upload' = None
    /\ part' \in Unlink(part, upload.name)
    /\ UNCHANGED <<files, commit>>

(* Mutant: the digest of the upload is not compared with the declared one. *)
CommitUnlinkUnchecked ==
    /\ commit = None
    /\ upload # None
    /\ written = upload.size
    /\ files' \in Unlink(files, upload.name)
    /\ commit' = [name |-> upload.name, sha256 |-> upload.sha256]
    /\ upload' = None
    /\ UNCHANGED part

CommitUnlink ==
    /\ commit = None
    /\ upload # None
    /\ written = upload.size
    /\ Sha256(upload.hashed) = upload.sha256
    /\ files' \in Unlink(files, upload.name)
    /\ commit' = [name |-> upload.name, sha256 |-> upload.sha256]
    /\ upload' = None
    /\ UNCHANGED part

CommitRename ==
    /\ commit # None
    /\ files[commit.name] = None
    /\ files' = [files EXCEPT ![commit.name] = part[commit.name]]
    /\ part' = [part EXCEPT ![commit.name] = None]
    /\ commit' = None
    /\ UNCHANGED upload

CommitFail ==
    /\ commit # None
    /\ commit' = None
    /\ part' \in Unlink(part, commit.name)
    /\ UNCHANGED <<files, upload>>

(***************************************************************************)
(* Power loss and restart: remove_stale_uploads() deletes the ".part"      *)
(* files it can list and unlink.                                           *)
(***************************************************************************)
Restart ==
    /\ \E gone \in SUBSET File : part' = [f \in File |-> IF f \in gone THEN None ELSE part[f]]
    /\ upload' = None
    /\ commit' = None
    /\ UNCHANGED files

(* Restart with a partition that does not mount: format_if_mount_failed empties /data. *)
RestartFormatted ==
    /\ files' = [f \in File |-> None]
    /\ part' = [f \in File |-> None]
    /\ upload' = None
    /\ commit' = None

Begin ==
    \E n \in File, size \in 1..MaxSize, sha \in Hash :
        BeginClosed(n, size, sha) \/ BeginOpen(n, size, sha)
Write == (\E offset \in 0..MaxSize, c \in Chunk : WriteOk(offset, c)) \/ WriteFail
CommitStep == CommitDiscard \/ CommitUnlink \/ CommitRename \/ CommitFail

Next == Begin \/ Write \/ CommitStep \/ Restart \/ RestartFormatted

Spec == Init /\ [][Next]_vars

-------------------------------------------------------------------------------
(***************************************************************************)
(* The running hash covers exactly the bytes of the ".part" file, whatever *)
(* was aborted, retransmitted or left behind by a restart before; and what *)
(* commit() renames is what it compared with the declared digest.          *)
(***************************************************************************)
PartIsHashed ==
    /\ upload # None => part[upload.name] = upload.hashed
    /\ commit # None => part[commit.name] # None /\ Sha256(part[commit.name]) = commit.sha256

(***************************************************************************)
(* A stored file disappears only once its complete, verified replacement   *)
(* is on disk: an aborted or rejected upload never costs the old file.     *)
(* Only a boot that cannot mount /data, and formats it, takes files away   *)
(* without one.                                                            *)
(***************************************************************************)
ReplacementReady ==
    [][~RestartFormatted =>
          \A f \in File : files[f] # None /\ files'[f] = None =>
             commit' # None /\ commit'.name = f /\ Holds(part', f, commit'.sha256)]_vars

(***************************************************************************)
(* The upload protocol implements DataFiles: whatever the host sends, in   *)
(* whatever order, /data only ever gains files that hash to the digest     *)
(* declared for them, and job.pb is never written by an upload.            *)
(***************************************************************************)
Data == INSTANCE DataFiles WITH
    installing <- IF commit = None THEN None
                  ELSE [from |-> None, to |-> commit.name, sha256 |-> commit.sha256]

ImplementsDataFiles == Data!FilesSpec

===============================================================================
