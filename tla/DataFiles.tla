------------------------------ MODULE DataFiles -------------------------------
(***************************************************************************)
(* What /data promises to the rest of the firmware: a file changes only by *)
(* install_file(), which unlinks the old file and then renames a file      *)
(* whose digest has already been compared with the one the host declared.  *)
(* Power can fail between the two calls, and either call can fail.         *)
(*                                                                         *)
(* AssetStore implements this specification (uploads), FwAssetManager uses *)
(* the same two steps to replace /data/job.pb.                             *)
(***************************************************************************)
EXTENDS Storage

CONSTANTS Name,      \* file names the host may upload
          JobName,   \* JOB_NAME: replaced through JOB_SET only
          Content    \* what a stored file can hold

VARIABLES files,       \* /data: name -> contents, None if there is no such file
          installing   \* the install_file() between its unlink and its rename

File == Name \cup {JobName}
Hash == {Sha256(b) : b \in Content}
Install == [from : File \cup {None}, to : File, sha256 : Hash]

ASSUME FilesAssumption ==
    /\ JobName \notin Name
    /\ None \notin Content \cup File \cup Install

filesVars == <<files, installing>>

FilesTypeOK ==
    /\ files \in [File -> Content \cup {None}]
    /\ installing \in Install \cup {None}

NoFiles == [f \in File |-> None]   \* /data freshly formatted

FilesInit ==
    /\ files = NoFiles
    /\ installing = None

(***************************************************************************)
(* install_file(from, to): unlink(to).  from is None when the new file is  *)
(* an upload's ".part", which no other component can see.                  *)
(***************************************************************************)
InstallUnlink(from, to, sha) ==
    /\ installing = None
    /\ files' \in Unlink(files, to)
    /\ installing' = [from |-> from, to |-> to, sha256 |-> sha]

(***************************************************************************)
(* install_file(from, to): rename(from, to) succeeds.  FAT does not rename *)
(* onto an existing file, so the unlink must have worked.                  *)
(***************************************************************************)
InstallRename ==
    /\ installing # None
    /\ files[installing.to] = None
    /\ \E b \in Content :
          /\ Sha256(b) = installing.sha256
          /\ files' = [f \in File |-> IF f = installing.to THEN b
                                      ELSE IF f = installing.from THEN None
                                      ELSE files[f]]
    /\ installing' = None

(* install_file(from, to): rename(from, to) fails. *)
InstallFail ==
    /\ installing # None
    /\ installing' = None
    /\ UNCHANGED files

(***************************************************************************)
(* Power loss: the call is forgotten and the file system keeps what it     *)
(* has, unless it does not mount any more: then setup_storage() formats it *)
(* (format_if_mount_failed).                                               *)
(***************************************************************************)
FilesRestart ==
    /\ installing' = None
    /\ files' \in {files, NoFiles}

FilesNext ==
    \/ \E n \in Name, b \in Content : InstallUnlink(None, n, Sha256(b))
    \/ InstallRename
    \/ InstallFail
    \/ FilesRestart

FilesSpec == FilesInit /\ [][FilesNext]_filesVars

===============================================================================
