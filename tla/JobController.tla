----------------------------- MODULE JobController ----------------------------
(***************************************************************************)
(* job_controller: decides when the active job runs, refuses to change the *)
(* job or its files meanwhile, and keeps the result of the last run.       *)
(*                                                                         *)
(* Two tasks call it.  The SIDP service task changes the job and the       *)
(* assets, requests and cancels runs; the programming task claims          *)
(* automatic runs and reports results.  One mutex serialises them.  The    *)
(* calls that hold it across several file system or NVS writes are split   *)
(* at each write; sidp is where the SIDP task is inside such a call.       *)
(***************************************************************************)
EXTENDS OfflineFlasher, ProgLog

CONSTANT RunIds   \* run IDs before the counter wraps: 2^32

ASSUME RunIdsAssumption == RunIds \in Nat \ {0}

RunId == 0..RunIds - 1
Trigger == {"MANUAL", "AUTO"}

(* to_stage(): the stage a result names; DONE is no stage. *)
to_stage(s) == IF s \in Stage THEN s ELSE "NONE"

Result == [run_id : RunId, outcome : {"NONE", "PASS", "FAIL", "CANCELLED"},
           failed_stage : Stage \cup {"NONE"}]

NoResult == [run_id |-> 0, outcome |-> "NONE", failed_stage |-> "NONE"]

VARIABLES trigger,        \* trigger
          nvs_trigger,    \* NVS_TRIGGER_KEY
          running,        \* running
          last_run_id,    \* last_run_id
          cancel_flag,    \* cancel_flag
          last_result,    \* last_result
          sidp,           \* the SIDP task: idle, or inside commit_asset, set_job, request_run
          new_trigger     \* set_job()'s argument while it is under way

controlVars == <<trigger, nvs_trigger, running, last_run_id, cancel_flag, last_result>>
sidpVars == <<sidp, new_trigger>>
assetVars == <<files, installing, job>>

SidpStep == {"idle", "commit", "install_job", "save_trigger", "set_run_bit"}

ControlTypeOK ==
    /\ trigger \in Trigger
    /\ nvs_trigger \in Trigger
    /\ running \in BOOLEAN
    /\ last_run_id \in RunId
    /\ cancel_flag \in BOOLEAN
    /\ last_result \in Result
    /\ sidp \in SidpStep
    /\ new_trigger \in Trigger

ControlInit ==
    /\ trigger = "MANUAL"
    /\ nvs_trigger = "MANUAL"
    /\ running = FALSE
    /\ last_run_id = 0
    /\ cancel_flag = FALSE
    /\ last_result = NoResult
    /\ sidp = "idle"
    /\ new_trigger = "MANUAL"

(* lock() returns: the SIDP task is not inside set_job() or commit_asset(). *)
Unlocked == sidp \in {"idle", "set_run_bit"}

(* Mutant: commit_asset() does not look at running. *)
CommitAssetAnytime(n, sha) ==
    /\ sidp = "idle"
    /\ InstallUnlink(None, n, sha)
    /\ sidp' = "commit"
    /\ UNCHANGED <<job, new_trigger, controlVars>>

(***************************************************************************)
(* commit_asset(): asset_store::commit() of an upload that hashes to sha,  *)
(* refused while a run is in progress.  AssetStore has the upload itself.  *)
(***************************************************************************)
CommitAsset(n, sha) ==
    /\ sidp = "idle"
    /\ ~running
    /\ InstallUnlink(None, n, sha)
    /\ sidp' = "commit"
    /\ UNCHANGED <<job, new_trigger, controlVars>>

CommitAssetEnd ==
    /\ sidp = "commit"
    /\ InstallRename \/ InstallFail
    /\ sidp' = "idle"
    /\ UNCHANGED <<job, new_trigger, controlVars>>

(* Mutant: set_job() does not look at running. *)
SetJobAnytime(sha, t) ==
    /\ sidp = "idle"
    /\ \/ /\ AlreadyActive(sha)
          /\ sidp' = "save_trigger"
          /\ UNCHANGED assetVars
       \/ /\ ActivateUnlink(sha)
          /\ sidp' = "install_job"
    /\ new_trigger' = t
    /\ UNCHANGED controlVars

(***************************************************************************)
(* set_job(sha, t): activate the staged job, then save the trigger.        *)
(***************************************************************************)
SetJob(sha, t) ==
    /\ sidp = "idle"
    /\ ~running
    /\ \/ /\ AlreadyActive(sha)
          /\ sidp' = "save_trigger"
          /\ UNCHANGED assetVars
       \/ /\ ActivateUnlink(sha)
          /\ sidp' = "install_job"
    /\ new_trigger' = t
    /\ UNCHANGED controlVars

SetJobInstall ==
    /\ sidp = "install_job"
    /\ \/ /\ ActivateRename
          /\ sidp' = "save_trigger"
          /\ UNCHANGED new_trigger
       \/ /\ ActivateFail
          /\ sidp' = "idle"
          /\ new_trigger' = "MANUAL"
    /\ UNCHANGED controlVars

(* save_trigger() can fail before or after the value reached NVS. *)
SetJobTrigger ==
    /\ sidp = "save_trigger"
    /\ \/ nvs_trigger' = new_trigger /\ trigger' = new_trigger
       \/ nvs_trigger' \in {nvs_trigger, new_trigger} /\ UNCHANGED trigger
    /\ sidp' = "idle"
    /\ new_trigger' = "MANUAL"
    /\ UNCHANGED <<assetVars, running, last_run_id, cancel_flag, last_result>>

(* Mutant: the run ID outgrows its 32 bits. *)
start_run_unwrapped ==
    /\ running' = TRUE
    /\ last_run_id' = last_run_id + 1
    /\ cancel_flag' = FALSE
    /\ UNCHANGED <<trigger, nvs_trigger, last_result>>

start_run_locked ==
    /\ running' = TRUE
    /\ last_run_id' = (last_run_id + 1) % RunIds
    /\ cancel_flag' = FALSE
    /\ UNCHANGED <<trigger, nvs_trigger, last_result>>

(* Mutant: a requested run is claimed without asking the log for space. *)
RequestRunUnlogged ==
    /\ sidp = "idle"
    /\ ~running
    /\ has_job
    /\ start_run_locked
    /\ sidp' = "set_run_bit"
    /\ UNCHANGED <<assetVars, new_trigger>>

(***************************************************************************)
(* request_run(): claim the run under the lock, wake the programming task  *)
(* after it (SetRunBit in SoulInjector).                                   *)
(***************************************************************************)
RequestRun ==
    /\ sidp = "idle"
    /\ ~running
    /\ has_job
    /\ check_space
    /\ start_run_locked
    /\ sidp' = "set_run_bit"
    /\ UNCHANGED <<assetVars, new_trigger>>

(* Mutant: a plugged-in target does not look at running. *)
MayAutoRunAnytime == trigger = "AUTO" /\ has_job /\ check_space

(* begin_auto_run() answers true exactly when this holds. *)
MayAutoRun == ~running /\ trigger = "AUTO" /\ has_job /\ check_space

(* cancel(run_id): run_id 0 matches any run; a request for another run changes nothing. *)
Cancel(run_id) ==
    /\ sidp = "idle"
    /\ running
    /\ run_id \in {0, last_run_id}
    /\ cancel_flag' = TRUE
    /\ UNCHANGED <<assetVars, trigger, nvs_trigger, running, last_run_id, last_result, sidpVars>>

(* Mutant: a failed run keeps the ID of the run before it. *)
FinishResultStale(ret) ==
    /\ Unlocked
    /\ last_result' = [run_id |-> IF ret = "OK" THEN last_run_id ELSE last_result.run_id,
                       outcome |-> IF ret = "OK" THEN "PASS"
                                   ELSE IF cancel_flag THEN "CANCELLED" ELSE "FAIL",
                       failed_stage |-> IF ret = "OK" THEN "NONE" ELSE to_stage(failed_state)]
    /\ UNCHANGED <<trigger, nvs_trigger, running, last_run_id, cancel_flag>>

(* finish_run(), first locked section: the result of the run. *)
FinishResult(ret) ==
    /\ Unlocked
    /\ last_result' = [run_id |-> last_run_id,
                       outcome |-> IF ret = "OK" THEN "PASS"
                                   ELSE IF cancel_flag THEN "CANCELLED" ELSE "FAIL",
                       failed_stage |-> IF ret = "OK" THEN "NONE" ELSE to_stage(failed_state)]
    /\ UNCHANGED <<trigger, nvs_trigger, running, last_run_id, cancel_flag>>

(* finish_run(), second locked section: requests are accepted again. *)
FinishRelease ==
    /\ Unlocked
    /\ running' = FALSE
    /\ cancel_flag' = FALSE
    /\ UNCHANGED <<trigger, nvs_trigger, last_run_id, last_result>>

(***************************************************************************)
(* Restart: setup_storage() erases an NVS partition it cannot use, init()  *)
(* reads the trigger back if NVS lets it; run IDs and results start over.  *)
(***************************************************************************)
ControlRestart ==
    /\ nvs_trigger' \in {nvs_trigger, "MANUAL"}
    /\ trigger' \in {nvs_trigger', "MANUAL"}
    /\ running' = FALSE
    /\ last_run_id' = 0
    /\ cancel_flag' = FALSE
    /\ last_result' = NoResult
    /\ sidp' = "idle"
    /\ new_trigger' = "MANUAL"

===============================================================================
