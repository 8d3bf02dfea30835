---------------------------- MODULE FwAssetManager ----------------------------
(***************************************************************************)
(* fw_asset_manager: the one active programming job.  A new job is         *)
(* uploaded as StagedName and replaces /data/job.pb through                *)
(* activate_staged(), after it decodes and every image it pins hashes to   *)
(* the pinned digest.                                                      *)
(***************************************************************************)
EXTENDS DataFiles

CONSTANTS StagedName,   \* STAGED_JOB_PATH: "job.pb.new"
          Job,          \* the contents decode_job() accepts
          Image         \* Image[j]: image name -> digest job j pins

ASSUME JobAssumption ==
    /\ StagedName \in Name
    /\ Job \subseteq Content
    /\ \A j \in Job : DOMAIN Image[j] \subseteq Name \ {StagedName}

VARIABLE job   \* job, active_sha256, cfg: the published job, or None

has_job == job # None

AssetTypeOK == FilesTypeOK /\ job \in Job \cup {None}

(* verify_job_images(): every pinned image is stored and hashes to its digest. *)
verify_job_images(j) == \A n \in DOMAIN Image[j] : Holds(files, n, Image[j][n])

(* activate_staged(sha) returns ESP_OK at once: this job is already published. *)
AlreadyActive(sha) == has_job /\ Sha256(job) = sha

(* Mutant: the images a new job pins are not hashed. *)
StagedUsableUnverified(sha) ==
    /\ ~AlreadyActive(sha)
    /\ Holds(files, StagedName, sha)
    /\ files[StagedName] \in Job

(* activate_staged(sha): the staged file is the requested one and decode() succeeds. *)
StagedUsable(sha) ==
    /\ ~AlreadyActive(sha)
    /\ Holds(files, StagedName, sha)
    /\ files[StagedName] \in Job
    /\ verify_job_images(files[StagedName])

(***************************************************************************)
(* activate_staged(): unlink(job.pb), then rename and publish().  decode() *)
(* can also fail for lack of memory; that failure, like every check that   *)
(* fails before the unlink, changes nothing.                               *)
(***************************************************************************)
ActivateUnlink(sha) ==
    /\ StagedUsable(sha)
    /\ InstallUnlink(StagedName, JobName, sha)
    /\ UNCHANGED job

ActivateRename ==
    /\ InstallRename
    /\ job' = files[StagedName]

(* "a failure keeps the previous job running until reboot" *)
ActivateFail ==
    /\ InstallFail
    /\ UNCHANGED job

(***************************************************************************)
(* init() at boot publishes job.pb if it can be read, decodes and its      *)
(* images verify; the firmware carries on without a job otherwise, also    *)
(* when /data had to be formatted.                                         *)
(***************************************************************************)
AssetRestart ==
    /\ FilesRestart
    /\ \/ /\ UNCHANGED files
          /\ files[JobName] \in Job
          /\ verify_job_images(files[JobName])
          /\ job' = files[JobName]
       \/ job' = None

===============================================================================
