------------------------------- MODULE Storage --------------------------------
(***************************************************************************)
(* What every part of Soul Injector that touches /data takes for granted:  *)
(* the SHA-256 of a file and the two POSIX calls install_file() is made    *)
(* of.  All operators are constant-level, so the modules that keep files   *)
(* can share them.                                                         *)
(***************************************************************************)

CONSTANT None   \* "no file", "no job", "nothing pending"

(***************************************************************************)
(* hash_file() and the running psa_hash of an upload.  The digest is a     *)
(* value of its own sort (a file never equals its digest) and two files    *)
(* with the same digest have the same bytes.                               *)
(***************************************************************************)
Sha256(bytes) == [sha256 |-> bytes]

(***************************************************************************)
(* unlink(): every caller ignores its result, so the entry is either gone  *)
(* or still there.  dir maps file names to contents, None where there is   *)
(* no file.                                                                *)
(***************************************************************************)
Unlink(dir, name) == {dir, [dir EXCEPT ![name] = None]}

(***************************************************************************)
(* is_present() / verify_image(): the file exists and hashes to sha.       *)
(***************************************************************************)
Holds(dir, name, sha) == dir[name] # None /\ Sha256(dir[name]) = sha

===============================================================================
