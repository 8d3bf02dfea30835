-------------------------- MODULE MCAssetStoreUnplug --------------------------
(***************************************************************************)
(* AssetStore with a history of the names that have held a file, to state  *)
(* what the user documentation says of unplugging the device.              *)
(***************************************************************************)
EXTENDS MCAssetStore

VARIABLE stored   \* history: names a file has been stored under since /data was formatted

HistoryInit == Init /\ stored = {}

HistoryNext ==
    /\ Next
    /\ stored' = IF RestartFormatted THEN {} ELSE stored \cup {f \in File : files'[f] # None}

HistorySpec == HistoryInit /\ [][HistoryNext]_<<vars, stored>>

(***************************************************************************)
(* docs/en/storage-files.md: "Files are uploaded with SHA-256 checks, so   *)
(* nothing needs to be ejected before unplugging."  Outside commit(), a    *)
(* name that has held a file still does, whether its replacement by        *)
(* install_file() finished, failed or was cut short by a power loss.       *)
(***************************************************************************)
StoredStaysStored == commit = None => \A f \in stored : files[f] # None

===============================================================================
